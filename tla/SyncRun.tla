------------------------------ MODULE SyncRun ------------------------------
(***************************************************************************)
(* Synchronising the reviews of one marketplace: internal/collector, the   *)
(* review lists of the marketplace adapters and store/sync.go.             *)
(*                                                                         *)
(* A run reads the watermark of the last complete run, pages through the   *)
(* marketplace's list from an overlap before it, stores every review,      *)
(* marks the export dirty and saves the new watermark.  Meanwhile reviews  *)
(* are listed and answered, and another process may run the same sync: the *)
(* slot of syncer.Coordinator excludes runs of one process only.           *)
(*                                                                         *)
(* Reviews are numbered as they are listed.  The unit of time is of the    *)
(* overlap's scale; the backfill reaches back to time 0.                   *)
(***************************************************************************)
EXTENDS Naturals, FiniteSets

CONSTANTS
  Reviews,    \* a set of numbers
  Kinds,      \* adapters: "wb", "ozon", "ym"
  Runs,       \* processes that run the sync, each with its own slot
  PageSize, Overlap,
  Delay,      \* how long a review may be created before it is listed
  Skew,       \* how far the marketplace's clock may be ahead
  Never,      \* no watermark
  MaxTime,    \* bound: the clock
  MaxAnswers, \* bound: reviews answered
  MaxFaults   \* bound: failed calls and statements, crashes

ASSUME SyncAssumption ==
  /\ Reviews \subseteq Nat /\ Kinds \subseteq {"wb", "ozon", "ym"}
  /\ PageSize \in Nat \ {0}
  /\ Overlap \in Nat /\ Delay \in 0 .. Overlap /\ Skew \in Nat
  /\ Never \notin Nat
  /\ MaxTime \in Nat /\ MaxAnswers \in Nat /\ MaxFaults \in Nat

VARIABLES
  kind,        \* the adapter
  now,
  created,     \* created[r]: the review's date, once it is listed
  listed,      \* reviews the marketplace lists
  answered,    \* the answered ones among them
  stored,      \* reviews in the store
  unmarked,    \* history: a review was created and no mark has followed yet
  lastSynced,  \* sync_states.last_synced_at
  pc,          \* pc[p]: where the run of process p is
  startedAt, since, cursor,
  rows,        \* rows[p]: reviews of the fetched page still to store
  watermark,   \* watermark[p]: the newest date seen
  fresh,       \* fresh[p]: some review was created
  answers, faults,
  shifted      \* history: a review was answered while a run was paging

market == <<now, created, listed, answered, answers>>
saved == <<stored, unmarked, lastSynced>>
run == <<pc, startedAt, since, cursor, rows, watermark, fresh>>
vars == <<kind, market, saved, run, faults, shifted>>

Times == 0 .. MaxTime
Dates == 0 .. MaxTime + Skew
Lose == faults < MaxFaults /\ faults' = faults + 1
Later(a, b) == IF a > b THEN a ELSE b
Earlier(a, b) == IF a < b THEN a ELSE b

Start == [stage |-> "unanswered", skip |-> 0, last |-> Never]
End == [stage |-> "end", skip |-> 0, last |-> Never]

TypeOK ==
  /\ kind \in Kinds /\ now \in Times
  /\ created \in [Reviews -> Dates]
  /\ listed \subseteq Reviews /\ answered \subseteq listed
  /\ stored \subseteq listed /\ unmarked \in BOOLEAN
  /\ lastSynced \in Times \cup {Never}
  /\ lastSynced # Never => lastSynced <= now
  /\ pc \in [Runs -> {"idle", "started", "paging", "saving"}]
  /\ startedAt \in [Runs -> Times] /\ since \in [Runs -> Times]
  /\ cursor \in [Runs -> [stage : {"unanswered", "answered", "end"},
                          skip : Nat, last : Reviews \cup {Never}]]
  /\ rows \in [Runs -> SUBSET listed]
  /\ watermark \in [Runs -> Times \cup {Never}]
  /\ fresh \in [Runs -> BOOLEAN]
  /\ answers \in 0 .. MaxAnswers /\ faults \in 0 .. MaxFaults
  /\ shifted \in BOOLEAN

Init ==
  /\ kind \in Kinds
  /\ now = 0
  /\ created = [r \in Reviews |-> 0]
  /\ listed = {} /\ answered = {} /\ stored = {} /\ unmarked = FALSE
  /\ lastSynced = Never
  /\ pc = [p \in Runs |-> "idle"]
  /\ startedAt = [p \in Runs |-> 0] /\ since = [p \in Runs |-> 0]
  /\ cursor = [p \in Runs |-> Start]
  /\ rows = [p \in Runs |-> {}]
  /\ watermark = [p \in Runs |-> Never]
  /\ fresh = [p \in Runs |-> FALSE]
  /\ answers = 0 /\ faults = 0
  /\ shifted = FALSE

-----------------------------------------------------------------------------
\* The marketplace.

Tick ==
  /\ now < MaxTime
  /\ now' = now + 1
  /\ UNCHANGED <<kind, created, listed, answered, answers, saved, run, faults, shifted>>

\* A review shows up, dated by the marketplace's clock or before moderation.
ListReview(r) ==
  /\ r \notin listed /\ \A x \in Reviews : x < r => x \in listed
  /\ listed' = listed \cup {r}
  /\ \E c \in Dates : /\ now <= c + Delay /\ c <= now + Skew
                      /\ created' = [created EXCEPT ![r] = c]
  /\ UNCHANGED <<kind, now, answered, answers, saved, run, faults, shifted>>

\* Its seller answers, here or in the marketplace's own cabinet: the review
\* moves from the one list to the other.
AnswerReview(r) ==
  /\ r \in listed \ answered /\ answers < MaxAnswers
  /\ answered' = answered \cup {r}
  /\ answers' = answers + 1
  /\ shifted' = (shifted \/ \E p \in Runs : pc[p] = "paging" /\ cursor[p] # Start)
  /\ UNCHANGED <<kind, now, created, listed, saved, run, faults>>

\* All lists are newest first.
Newer(a, b) == created[a] > created[b] \/ (created[a] = created[b] /\ a > b)
Rank(r, L) == Cardinality({x \in L : Newer(x, r)})

\* WB lists unanswered and answered reviews apart, from a date, by offset.
Window(p) ==
  {r \in listed : /\ (r \in answered) = (cursor[p].stage = "answered")
                  /\ created[r] >= since[p]}
OffsetPage(p) ==
  {r \in Window(p) : Rank(r, Window(p)) \in cursor[p].skip .. cursor[p].skip + PageSize - 1}
AfterOffset(p) ==
  IF Cardinality(OffsetPage(p)) >= PageSize
  THEN [cursor[p] EXCEPT !.skip = @ + PageSize]
  ELSE IF cursor[p].stage = "unanswered" THEN [Start EXCEPT !.stage = "answered"] ELSE End

\* Ozon and YM list everything; the token of a page is its last review.
Remaining(p) ==
  {r \in listed : cursor[p].last # Never => Newer(cursor[p].last, r)}
TokenPage(p) == {r \in Remaining(p) : Rank(r, Remaining(p)) < PageSize}
Last(page) == CHOOSE r \in page : \A x \in page : x = r \/ Newer(x, r)

\* Ozon's adapter stops at the first page that reaches behind the window.
AfterToken(p) ==
  IF \/ TokenPage(p) = Remaining(p)
     \/ kind = "ozon" /\ \E r \in TokenPage(p) : created[r] < since[p]
  THEN End
  ELSE [cursor[p] EXCEPT !.last = Last(TokenPage(p))]

-----------------------------------------------------------------------------
\* runMarketplace.

\* The slot is free: the process is not running this sync.
TryAcquire(p) ==
  /\ pc[p] = "idle"
  /\ pc' = [pc EXCEPT ![p] = "started"]
  /\ startedAt' = [startedAt EXCEPT ![p] = now]
  /\ UNCHANGED <<kind, market, saved, since, cursor, rows, watermark, fresh,
                 faults, shifted>>

WindowStart ==
  IF lastSynced = Never THEN 0 ELSE lastSynced - Earlier(Overlap, lastSynced)

GetSyncState(p) ==
  /\ pc[p] = "started"
  /\ pc' = [pc EXCEPT ![p] = "paging"]
  /\ since' = [since EXCEPT ![p] = WindowStart]
  /\ UNCHANGED <<kind, market, saved, startedAt, cursor, rows, watermark, fresh,
                 faults, shifted>>

FetchReviews(p) ==
  /\ pc[p] = "paging" /\ rows[p] = {} /\ cursor[p] # End
  /\ IF kind = "wb"
     THEN /\ rows' = [rows EXCEPT ![p] = OffsetPage(p)]
          /\ cursor' = [cursor EXCEPT ![p] = AfterOffset(p)]
     ELSE /\ rows' = [rows EXCEPT ![p] = {r \in TokenPage(p) : created[r] >= since[p]}]
          /\ cursor' = [cursor EXCEPT ![p] = AfterToken(p)]
  /\ UNCHANGED <<kind, market, saved, pc, startedAt, since, watermark, fresh,
                 faults, shifted>>

\* Faulty variant: a date ahead of this clock is taken as it is.
MaxReviewTime_Unbounded(w, date, bound) == IF w = Never THEN date ELSE Later(w, date)

MaxReviewTime(w, date, bound) ==
  IF w = Never THEN Earlier(date, bound) ELSE Later(w, Earlier(date, bound))

ImportOne(p) ==
  /\ pc[p] = "paging"
  /\ \E r \in rows[p] :
       /\ stored' = stored \cup {r}
       /\ unmarked' = (unmarked \/ r \notin stored)
       /\ fresh' = [fresh EXCEPT ![p] = @ \/ r \notin stored]
       /\ watermark' = [watermark EXCEPT ![p] = MaxReviewTime(@, created[r], startedAt[p])]
       /\ rows' = [rows EXCEPT ![p] = @ \ {r}]
  /\ UNCHANGED <<kind, market, lastSynced, pc, startedAt, since, cursor, faults, shifted>>

\* Nothing marked unless a review was created; a mark that fails is dropped.
MarkExportDirty(p) ==
  /\ pc[p] = "paging" /\ rows[p] = {} /\ cursor[p] = End
  /\ pc' = [pc EXCEPT ![p] = "saving"]
  /\ \/ /\ unmarked' = (unmarked /\ ~fresh[p])
        /\ UNCHANGED faults
     \/ /\ fresh[p] /\ Lose
        /\ UNCHANGED unmarked
  /\ UNCHANGED <<kind, market, stored, lastSynced, startedAt, since, cursor, rows,
                 watermark, fresh, shifted>>

\* The run's variables go with it.
Free(p) ==
  /\ pc' = [pc EXCEPT ![p] = "idle"]
  /\ startedAt' = [startedAt EXCEPT ![p] = 0]
  /\ since' = [since EXCEPT ![p] = 0]
  /\ cursor' = [cursor EXCEPT ![p] = Start]
  /\ rows' = [rows EXCEPT ![p] = {}]
  /\ watermark' = [watermark EXCEPT ![p] = Never]
  /\ fresh' = [fresh EXCEPT ![p] = FALSE]

SaveSyncState(p) ==
  /\ pc[p] = "saving"
  /\ lastSynced' = IF watermark[p] = Never THEN startedAt[p] ELSE watermark[p]
  /\ Free(p)
  /\ UNCHANGED <<kind, market, stored, unmarked, faults, shifted>>

\* Faulty variant: the watermark is saved all the same.
RunFails_SavesWatermark(p) ==
  /\ pc[p] # "idle"
  /\ lastSynced' = IF watermark[p] = Never THEN lastSynced ELSE watermark[p]
  /\ Free(p)
  /\ Lose
  /\ UNCHANGED <<kind, market, stored, unmarked, shifted>>

\* The first failing call, row or statement ends the run, and so do a
\* cancelled context and a crash.  The rows stored so far stay.
RunFails(p) ==
  /\ pc[p] # "idle"
  /\ Free(p)
  /\ Lose
  /\ UNCHANGED <<kind, market, saved, shifted>>

-----------------------------------------------------------------------------
RunStep(p) ==
  \/ TryAcquire(p) \/ GetSyncState(p) \/ FetchReviews(p) \/ ImportOne(p)
  \/ MarkExportDirty(p) \/ SaveSyncState(p)

Next ==
  \/ Tick
  \/ \E r \in Reviews : ListReview(r) \/ AnswerReview(r)
  \/ \E p \in Runs : RunStep(p) \/ RunFails(p)

Spec == Init /\ [][Next]_vars

-----------------------------------------------------------------------------
(***************************************************************************)
(* Properties                                                              *)
(***************************************************************************)

InNextWindow(r) == created[r] >= WindowStart

\* What the overlap is for: a review that is listed no more than the overlap
\* after its date is in the store or in the window of the next run, whatever
\* runs of several processes fail or save in between.  WB's offsets shift
\* when a review is answered between two pages, so WB is left out then.
NothingSkipped ==
  kind # "wb" \/ ~shifted => \A r \in listed \ stored : InNextWindow(r)

\* The same of every adapter and every order of events.
OverlapLosesNothing == \A r \in listed \ stored : InNextWindow(r)

\* A run at rest has told the export of every review it created.
ImportedIsMarked == (\A p \in Runs : pc[p] = "idle") => ~unmarked

=============================================================================
