---------------------------- MODULE ExportPublish ----------------------------
(***************************************************************************)
(* The static reviews-data export of one tenant: the staleness marker of   *)
(* internal/store/export_dirty.go, the store methods that change exported  *)
(* data and set it, and the three publishers of internal/server that read  *)
(* the data under exportMu and swap the files: the auto-publish loop, the  *)
(* admin's "publish" button and the catalog refresh.                       *)
(*                                                                         *)
(* A change is one committed edit of exported data; a publisher sees it if *)
(* it reads the change's part of the data after the commit.  The marker is *)
(* two rows of app_settings, each read and written by its own statement,   *)
(* holding times; `clock` hands out fresh ones, 0 is a row never written.  *)
(***************************************************************************)
EXTENDS Integers, Sequences

CONSTANTS
  Changes,           \* edits of exported data, each made at most once
  PartOf,            \* PartOf[c]: the part of the data that c edits
  Missing,           \* what a served file holds when it is not there
  Silent,            \* edits whose store method leaves the marker alone
  ConcurrentWriters, \* two edits may be on their way to the marker at once
  MountedExport,     \* the export directory is itself a mount point
  MaxManual,         \* bound: presses of the publish button
  MaxPolicyErrors,   \* bound: failed reads of the widget policy
  MaxFaults          \* bound: failed steps and server restarts

Parts == <<"reviews", "pins", "policy">>   \* in the order they are read
Files == {"by-article", "index.json"}
Publishers == {"auto", "manual", "refresh"}

ASSUME ExportAssumption ==
  /\ PartOf \in [Changes -> {"reviews", "pins", "policy"}]
  /\ Silent \subseteq Changes
  /\ ConcurrentWriters \in BOOLEAN /\ MountedExport \in BOOLEAN
  /\ MaxManual \in Nat /\ MaxPolicyErrors \in Nat /\ MaxFaults \in Nat
  /\ \A S \in SUBSET Changes : Missing # S

VARIABLES
  chg,          \* chg[c]: how far the edit c and its mark have come
  stamp,        \* stamp[c]: time.Now() taken for the mark of c
  clock,        \* the newest time handed out
  dirtyAt,      \* app_settings.export_dirty_at
  publishedAt,  \* app_settings.export_published_at
  live,         \* live[f]: the edits the served file f shows, or Missing
  aside,        \* aside[f]: the same for the copy renamed away
  exportMu,     \* publishers holding Server.exportMu
  pc,           \* pc[p]: where the publisher p is
  upTo,         \* upTo[p]: the time p will mark published
  part,         \* part[p]: the next part of the data p reads
  snap,         \* snap[p]: the edits p has read
  unit,         \* unit[p]: the next rename unit p swaps
  manuals,      \* presses of the publish button so far
  policyErrors, \* failed policy reads so far
  faults,       \* failed steps and restarts so far
  missed,       \* history: edits passed over by an export that is taken to
                \* show them, and in no export since
  overtaken     \* history: edits over whose mark an older one was written

history == <<missed, overtaken>>
data == <<chg, stamp, history>>
marker == <<dirtyAt, publishedAt>>
files == <<live, aside>>
publisher == <<pc, upTo, part, snap, unit>>
bounds == <<manuals, policyErrors, faults>>
vars == <<data, clock, marker, files, exportMu, publisher, bounds>>

\* What one rename moves: the whole directory, or one file of a mount.
Units == IF MountedExport THEN <<{"by-article"}, {"index.json"}>> ELSE <<Files>>

Dirty == dirtyAt > publishedAt
Covered(c) == \A f \in Files : live[f] # Missing => c \in live[f]
InFlight(c) == chg[c] \in {"committed", "stamped"}

MarkerTypeOK ==
  /\ chg \in [Changes -> {"new", "committed", "stamped", "marked", "unmarked"}]
  /\ clock \in Nat
  /\ stamp \in [Changes -> 0 .. clock]
  /\ dirtyAt \in 0 .. clock
  /\ publishedAt \in 0 .. clock
  /\ missed \in SUBSET Changes /\ overtaken \in SUBSET Changes

FileTypeOK ==
  /\ live \in [Files -> (SUBSET Changes) \cup {Missing}]
  /\ aside \in [Files -> (SUBSET Changes) \cup {Missing}]

PublisherTypeOK ==
  /\ exportMu \in SUBSET Publishers
  /\ pc \in [Publishers -> {"idle", "seen", "waiting", "reading", "staged",
                            "swapping", "swapped", "marking"}]
  /\ upTo \in [Publishers -> 0 .. clock]
  /\ part \in [Publishers -> 1 .. Len(Parts) + 1]
  /\ snap \in [Publishers -> SUBSET Changes]
  /\ unit \in [Publishers -> 1 .. Len(Units)]

BoundsTypeOK ==
  /\ manuals \in 0 .. MaxManual
  /\ policyErrors \in 0 .. MaxPolicyErrors
  /\ faults \in 0 .. MaxFaults

TypeOK == MarkerTypeOK /\ FileTypeOK /\ PublisherTypeOK /\ BoundsTypeOK

\* A store with data that was published before this behaviour starts.
Init ==
  /\ chg = [c \in Changes |-> "new"]
  /\ stamp = [c \in Changes |-> 0]
  /\ clock = 0
  /\ dirtyAt = 0 /\ publishedAt = 0
  /\ live = [f \in Files |-> {}]
  /\ aside = [f \in Files |-> Missing]
  /\ exportMu = {}
  /\ pc = [p \in Publishers |-> "idle"]
  /\ upTo = [p \in Publishers |-> 0]
  /\ part = [p \in Publishers |-> 1]
  /\ snap = [p \in Publishers |-> {}]
  /\ unit = [p \in Publishers |-> 1]
  /\ manuals = 0 /\ policyErrors = 0 /\ faults = 0
  /\ missed = {} /\ overtaken = {}

-----------------------------------------------------------------------------
\* Edits of exported data.

\* The mutation itself; SetReviewStatus and UpdateReviewContent end here.
Commit(c) ==
  /\ chg[c] = "new"
  /\ ConcurrentWriters \/ \A d \in Changes : ~InFlight(d)
  /\ chg' = [chg EXCEPT ![c] = IF c \in Silent THEN "unmarked" ELSE "committed"]
  /\ UNCHANGED <<stamp, history, clock, marker, files, exportMu, publisher, bounds>>

\* MarkExportDirty formats time.Now ...
StampMark(c) ==
  /\ chg[c] = "committed"
  /\ clock' = clock + 1
  /\ stamp' = [stamp EXCEPT ![c] = clock + 1]
  /\ chg' = [chg EXCEPT ![c] = "stamped"]
  /\ UNCHANGED <<history, marker, files, exportMu, publisher, bounds>>

\* The edits whose newer mark that of c is written over.
OvertakenBy(c) == {d \in Changes : chg[d] = "marked" /\ stamp[d] > stamp[c]}

\* Faulty variant: an existing mark is kept.
WriteMark_KeepsOlder(c) ==
  /\ chg[c] = "stamped"
  /\ dirtyAt' = IF dirtyAt = 0 THEN stamp[c] ELSE dirtyAt
  /\ chg' = [chg EXCEPT ![c] = "marked"]
  /\ overtaken' = overtaken \cup OvertakenBy(c)
  /\ UNCHANGED <<stamp, missed, clock, publishedAt, files, exportMu, publisher, bounds>>

\* ... and then upserts it, whatever the row holds by now.
WriteMark(c) ==
  /\ chg[c] = "stamped"
  /\ dirtyAt' = stamp[c]
  /\ chg' = [chg EXCEPT ![c] = "marked"]
  /\ overtaken' = overtaken \cup OvertakenBy(c)
  /\ UNCHANGED <<stamp, missed, clock, publishedAt, files, exportMu, publisher, bounds>>

\* The upsert fails and markExportDirtyBestEffort drops the error.
LoseMark(c) ==
  /\ chg[c] = "stamped" /\ faults < MaxFaults
  /\ faults' = faults + 1
  /\ chg' = [chg EXCEPT ![c] = "unmarked"]
  /\ UNCHANGED <<stamp, history, clock, marker, files, exportMu, publisher, manuals,
                 policyErrors>>

-----------------------------------------------------------------------------
\* What wakes a publisher.

\* runAutoPublishOnce: ExportDirtySince reads export_dirty_at ...
AutoReadDirty ==
  /\ pc["auto"] = "idle" /\ dirtyAt # 0
  /\ pc' = [pc EXCEPT !["auto"] = "seen"]
  /\ upTo' = [upTo EXCEPT !["auto"] = dirtyAt]
  /\ UNCHANGED <<data, clock, marker, files, exportMu, part, snap, unit, bounds>>

\* ... and then export_published_at; equal times are clean.
AutoReadPublished ==
  /\ pc["auto"] = "seen"
  /\ IF upTo["auto"] > publishedAt
       THEN pc' = [pc EXCEPT !["auto"] = "waiting"] /\ UNCHANGED upTo
       ELSE /\ pc' = [pc EXCEPT !["auto"] = "idle"]
            /\ upTo' = [upTo EXCEPT !["auto"] = 0]
  /\ UNCHANGED <<data, clock, marker, files, exportMu, part, snap, unit, bounds>>

PressPublish ==
  /\ pc["manual"] = "idle" /\ manuals < MaxManual
  /\ manuals' = manuals + 1
  /\ pc' = [pc EXCEPT !["manual"] = "waiting"]
  /\ UNCHANGED <<data, clock, marker, files, exportMu, upTo, part, snap, unit,
                 policyErrors, faults>>

\* A crawl has ended with links to persist; one job per tenant.
CrawlEnds ==
  /\ pc["refresh"] = "idle"
  /\ pc' = [pc EXCEPT !["refresh"] = "waiting"]
  /\ UNCHANGED <<data, clock, marker, files, exportMu, upTo, part, snap, unit, bounds>>

-----------------------------------------------------------------------------
\* The export, under exportMu.

\* Faulty variant: exports of two publishers overlap.
LockExport_Unlocked(p) ==
  /\ pc[p] = "waiting"
  /\ exportMu' = exportMu \cup {p}
  /\ pc' = [pc EXCEPT ![p] = "reading"]
  /\ UNCHANGED <<data, clock, marker, files, upTo, part, snap, unit, bounds>>

LockExport(p) ==
  /\ pc[p] = "waiting" /\ exportMu = {}
  /\ exportMu' = exportMu \cup {p}
  /\ pc' = [pc EXCEPT ![p] = "reading"]
  /\ UNCHANGED <<data, clock, marker, files, upTo, part, snap, unit, bounds>>

Visible(c) == chg[c] # "new"

\* ListVisibleReviews, AllShowcasePins and activeMarketplacePolicy in turn.
ReadPart(p) ==
  /\ pc[p] = "reading" /\ part[p] <= Len(Parts)
  /\ snap' = [snap EXCEPT ![p] =
       @ \cup {c \in Changes : PartOf[c] = Parts[part[p]] /\ Visible(c)}]
  /\ part' = [part EXCEPT ![p] = @ + 1]
  /\ UNCHANGED <<data, clock, marker, files, exportMu, pc, upTo, unit, bounds>>

\* activeMarketplacePolicy turns an error into "no policy": the export goes on
\* without the edits of it.
ReadPolicyFails(p) ==
  /\ pc[p] = "reading" /\ part[p] <= Len(Parts) /\ Parts[part[p]] = "policy"
  /\ policyErrors < MaxPolicyErrors
  /\ policyErrors' = policyErrors + 1
  /\ part' = [part EXCEPT ![p] = @ + 1]
  /\ missed' = missed \cup {c \in Changes : PartOf[c] = "policy" /\ Visible(c)}
  /\ UNCHANGED <<chg, stamp, overtaken, clock, marker, files, exportMu, pc, upTo, snap,
                 unit, manuals, faults>>

\* The edits whose mark was taken, but which p has not read.
LeftOut(p) == {c \in Changes : chg[c] \in {"stamped", "marked"} /\ c \notin snap[p]}

\* generatedAt is taken after the reads, the tree written into a temporary
\* directory.  Only a manual publish keeps generatedAt for the marker, and an
\* edit committed since the read and marked by now is older than it.
Stage(p) ==
  /\ pc[p] = "reading" /\ part[p] > Len(Parts)
  /\ pc' = [pc EXCEPT ![p] = "staged"]
  /\ IF p = "manual"
       THEN /\ clock' = clock + 1 /\ upTo' = [upTo EXCEPT ![p] = clock + 1]
            /\ missed' = missed \cup LeftOut(p)
       ELSE UNCHANGED <<clock, upTo, missed>>
  /\ UNCHANGED <<chg, stamp, overtaken, marker, files, exportMu, part, snap, unit,
                 bounds>>

\* replaceExportDir: the served unit is renamed away ...
MoveAside(p) ==
  /\ pc[p] = "staged"
  /\ aside' = [f \in Files |-> IF f \in Units[unit[p]] THEN live[f] ELSE Missing]
  /\ live' = [f \in Files |-> IF f \in Units[unit[p]] THEN Missing ELSE live[f]]
  /\ pc' = [pc EXCEPT ![p] = "swapping"]
  /\ UNCHANGED <<data, clock, marker, exportMu, upTo, part, snap, unit, bounds>>

\* ... and the staged one renamed into its place.
MoveIn(p) ==
  /\ pc[p] = "swapping"
  /\ live' = [f \in Files |-> IF f \in Units[unit[p]] THEN snap[p] ELSE live[f]]
  /\ IF unit[p] < Len(Units)
       THEN /\ unit' = [unit EXCEPT ![p] = @ + 1]
            /\ pc' = [pc EXCEPT ![p] = "staged"]
       ELSE /\ pc' = [pc EXCEPT ![p] = "swapped"] /\ UNCHANGED unit
  /\ UNCHANGED <<data, clock, marker, aside, exportMu, upTo, part, snap, bounds>>

\* p starts over at pcAfter with nothing read; t is what it still has to mark.
Reset(p, pcAfter, t) ==
  /\ exportMu' = exportMu \ {p}
  /\ pc' = [pc EXCEPT ![p] = pcAfter]
  /\ upTo' = [upTo EXCEPT ![p] = t]
  /\ part' = [part EXCEPT ![p] = 1]
  /\ snap' = [snap EXCEPT ![p] = {}]
  /\ unit' = [unit EXCEPT ![p] = 1]

\* The copy is removed and exportMu released; a refresh marks nothing.
Unlock(p) ==
  /\ pc[p] = "swapped"
  /\ aside' = [f \in Files |-> Missing]
  /\ IF p = "refresh" THEN Reset(p, "idle", 0) ELSE Reset(p, "marking", upTo[p])
  /\ missed' = missed \ snap[p]
  /\ UNCHANGED <<chg, stamp, overtaken, clock, marker, live, bounds>>

\* Faulty variants: the time of marking stands for the time that was exported.
MarkExportPublished_Now(p) ==
  /\ pc[p] = "marking"
  /\ publishedAt' = clock
  /\ pc' = [pc EXCEPT ![p] = "idle"]
  /\ upTo' = [upTo EXCEPT ![p] = 0]
  /\ UNCHANGED <<data, clock, dirtyAt, files, exportMu, part, snap, unit, bounds>>

MarkExportPublished_Later(p) ==
  /\ pc[p] = "marking"
  /\ publishedAt' = clock + 1
  /\ pc' = [pc EXCEPT ![p] = "idle"]
  /\ upTo' = [upTo EXCEPT ![p] = 0]
  /\ UNCHANGED <<data, clock, dirtyAt, files, exportMu, part, snap, unit, bounds>>

\* auto marks the dirty mark it saw, manual its generatedAt.
MarkExportPublished(p) ==
  /\ pc[p] = "marking"
  /\ publishedAt' = upTo[p]
  /\ pc' = [pc EXCEPT ![p] = "idle"]
  /\ upTo' = [upTo EXCEPT ![p] = 0]
  /\ UNCHANGED <<data, clock, dirtyAt, files, exportMu, part, snap, unit, bounds>>

-----------------------------------------------------------------------------
\* Failures.


\* A read, the write of the tree, the first rename, the removal of the copy or
\* the write of the marker fails: the publisher gives up, nothing is undone.
PublishFails(p) ==
  /\ pc[p] \in {"reading", "staged", "swapped", "marking"} /\ faults < MaxFaults
  /\ pc[p] = "swapped" => ~MountedExport
  /\ faults' = faults + 1
  /\ Reset(p, "idle", 0)
  /\ UNCHANGED <<data, clock, marker, files, manuals, policyErrors>>

\* The second rename fails; renaming the copy back may fail as well.
MoveInFails(p) ==
  /\ pc[p] = "swapping" /\ faults < MaxFaults
  /\ faults' = faults + 1
  /\ \/ live' = [f \in Files |-> IF f \in Units[unit[p]] THEN aside[f] ELSE live[f]]
     \/ UNCHANGED live
  /\ aside' = [f \in Files |-> Missing]
  /\ Reset(p, "idle", 0)
  /\ UNCHANGED <<data, clock, marker, manuals, policyErrors>>

\* The process dies and comes back: files and committed rows stay.
ServerRestart ==
  /\ faults < MaxFaults
  /\ faults' = faults + 1
  /\ chg' = [c \in Changes |-> IF InFlight(c) THEN "unmarked" ELSE chg[c]]
  /\ aside' = [f \in Files |-> Missing]
  /\ exportMu' = {}
  /\ pc' = [p \in Publishers |-> "idle"]
  /\ upTo' = [p \in Publishers |-> 0]
  /\ part' = [p \in Publishers |-> 1]
  /\ snap' = [p \in Publishers |-> {}]
  /\ unit' = [p \in Publishers |-> 1]
  /\ UNCHANGED <<stamp, history, clock, marker, live, manuals, policyErrors>>

-----------------------------------------------------------------------------
Edit(c) == Commit(c) \/ StampMark(c) \/ WriteMark(c) \/ LoseMark(c)

Work(p) ==
  \/ ReadPart(p) \/ ReadPolicyFails(p) \/ Stage(p) \/ MoveAside(p) \/ MoveIn(p)
  \/ Unlock(p) \/ MarkExportPublished(p) \/ PublishFails(p) \/ MoveInFails(p)

Wake == AutoReadDirty \/ AutoReadPublished \/ PressPublish \/ CrawlEnds

Next ==
  \/ \E c \in Changes : Edit(c)
  \/ \E p \in Publishers : LockExport(p) \/ Work(p)
  \/ Wake
  \/ ServerRestart

Spec == Init /\ [][Next]_vars

(***************************************************************************)
(* The tickers of StartAutoPublish and StartCatalogAutoRefresh never stop, *)
(* a started publish or edit runs on, and Go's mutex serves every waiter.  *)
(* No failure or press of the button ever has to happen.                   *)
(***************************************************************************)
Fairness ==
  /\ WF_vars(AutoReadDirty) /\ WF_vars(AutoReadPublished) /\ WF_vars(CrawlEnds)
  /\ \A p \in Publishers : SF_vars(LockExport(p)) /\ WF_vars(Work(p))
  /\ \A c \in Changes : WF_vars(StampMark(c) \/ WriteMark(c))

FairSpec == Spec /\ Fairness

-----------------------------------------------------------------------------
(***************************************************************************)
(* Properties.                                                             *)
(***************************************************************************)

\* A marked edit whose mark is not newer than the published one is in every
\* file the site serves, whichever publisher marked and however many edits and
\* publishers are at work: publishing up to a time covers that time.  The code
\* has two exceptions, until the next export that shows the edit: an edit
\* between the read and the generatedAt of a manual publish, and one of the
\* policy where reading the policy failed.
PublishedCovers ==
  \A c \in Changes :
    chg[c] = "marked" /\ stamp[c] <= publishedAt => Covered(c) \/ c \in missed

\* An edit that set the marker is in the served files, or the export is dirty
\* so that the next tick of the auto-publish loop republishes it.  Besides the
\* exceptions above, a mark is lost only if one taken earlier is written later.
NoChangeForgotten ==
  \A c \in Changes :
    chg[c] = "marked" => Covered(c) \/ Dirty \/ c \in missed \cup overtaken

\* What the comment of ExportDirtySince promises, "changes racing with an
\* in-flight export stay dirty", without the exceptions of NoChangeForgotten.
RacingChangesStayDirty ==
  \A c \in Changes : chg[c] = "marked" => Covered(c) \/ Dirty

\* No publisher replaces a file by an older view of the reviews and the pins.
ExportMovesForward ==
  \A p \in Publishers : pc[p] = "swapping" =>
    \A f \in Units[unit[p]] : aside[f] # Missing =>
      \A c \in aside[f] : PartOf[c] # "policy" => c \in snap[p]

\* With no failure at all, every committed edit is in the served files, or on
\* its way to the marker, or leaves the export dirty.
EveryChangeTracked ==
  faults = 0 =>
    \A c \in Changes :
      chg[c] # "new" /\ ~InFlight(c) => Covered(c) \/ Dirty

=============================================================================
