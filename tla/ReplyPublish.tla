---------------------------- MODULE ReplyPublish ----------------------------
(***************************************************************************)
(* Sending seller replies (reviews) and answers (questions) back to a      *)
(* marketplace: server/admin_reviews.go, admin_questions.go,               *)
(* reply_publish.go, question_publish.go, store/reply_publish.go and       *)
(* store/questions.go.                                                     *)
(*                                                                         *)
(* A reply is saved in the store first and published afterwards, by the    *)
(* same request, by a retry request, or by the sweep that follows a sync.  *)
(* None of them locks the row, and each works on the copy it has read.     *)
(* The sync itself writes back the question answers it has fetched.        *)
(*                                                                         *)
(* One tenant and one marketplace.  A reply text is one of Texts or the    *)
(* empty string NoText (NULL for a review).                                *)
(***************************************************************************)
EXTENDS Naturals, FiniteSets

CONSTANTS
  Reviews, Questions, \* the rows a seller may answer
  Local,              \* rows nothing is sent for: imported reviews
  Texts, NoText,      \* replies and the empty one
  Nothing,            \* what the marketplace shows of a row never answered
  AnswerStates,       \* the states a marketplace lists its answers in
  Admins,             \* admin requests in work at the same time
  Sweeps,             \* sweeps in work at the same time, one per dispatch
  NoItem,
  MaxEdits,           \* bound: replies saved
  MaxToggles,         \* bound: changes of the publish setting
  MaxFaults           \* bound: refused, lost, cancelled calls and restarts

Items == Reviews \cup Questions
Procs == Admins \cup Sweeps

ASSUME ReplyAssumption ==
  /\ Reviews \cap Questions = {} /\ Admins \cap Sweeps = {}
  /\ IsFiniteSet(Admins) /\ IsFiniteSet(Sweeps)
  /\ Local \subseteq Reviews
  /\ NoText \notin Texts /\ Nothing \notin Texts \cup {NoText}
  /\ NoItem \notin Items
  /\ MaxEdits \in Nat /\ MaxToggles \in Nat /\ MaxFaults \in Nat

\* An empty state is read as "published"; any other word may come.
ASSUME AnswerStateAssumption == AnswerStates # {} /\ "" \notin AnswerStates

VARIABLES
  text,      \* reviews.admin_reply_text, questions.answer_text
  state,     \* reply_publish_state, answer_publish_state; "" is NULL, and an
             \* imported answer has the state its marketplace lists it in
  remote,    \* what the marketplace shows
  enabled,   \* the publish setting of the marketplace
  pc,        \* pc[p]: where the request or sweep p is
  item,      \* item[p]: the row p works on
  copy,      \* copy[p]: the text of it that p has read
  phase,     \* phase[s]: the queue sweep s is working off
  rows,      \* rows[s]: the rows of it still to do, as they were read
  fetched,   \* question answers the running sync has fetched, not yet stored
  edits, toggles, faults,
  overlap    \* history: rows that two actors have worked on at once

row == <<text, state>>
proc == <<pc, item, copy>>
sweep == <<phase, rows>>
bounds == <<edits, toggles, faults>>
vars == <<row, remote, enabled, proc, sweep, fetched, bounds, overlap>>

Lose == faults < MaxFaults /\ faults' = faults + 1

\* Faulty variant: an attempt that failed is not queued again.
NeedsPublish_OnlyNew(i) == text[i] # NoText /\ state[i] \in {"", "pending"}

\* Rows whose publication the next sweep takes up.
NeedsPublish(i) == text[i] # NoText /\ state[i] \in {"", "pending", "failed"}

TypeOK ==
  /\ text \in [Items -> Texts \cup {NoText}]
  /\ state \in [Items -> {"", "pending", "failed", "published", "unsupported"}
                          \cup AnswerStates]
  /\ remote \in [Items -> Texts \cup {NoText, Nothing}]
  /\ enabled \in BOOLEAN
  /\ pc \in [Procs -> {"idle", "saved", "loaded", "calling", "refused",
                       "accepted", "errored"}]
  /\ item \in [Procs -> Items \cup {NoItem}]
  /\ \A p \in Procs : pc[p] = "idle" <=> item[p] = NoItem
  /\ copy \in [Procs -> Texts \cup {NoText}]
  /\ phase \in [Sweeps -> {"idle", "replies", "answers"}]
  /\ rows \in [Sweeps -> SUBSET (Items \X Texts)]
  /\ fetched \in SUBSET (Questions \X Texts \X AnswerStates)
  /\ edits \in 0 .. MaxEdits /\ toggles \in 0 .. MaxToggles
  /\ faults \in 0 .. MaxFaults
  /\ overlap \in SUBSET Items

Init ==
  /\ text = [i \in Items |-> NoText]
  /\ state = [i \in Items |-> ""]
  /\ remote = [i \in Items |-> Nothing]
  /\ enabled = TRUE
  /\ pc = [p \in Procs |-> "idle"]
  /\ item = [p \in Procs |-> NoItem]
  /\ copy = [p \in Procs |-> NoText]
  /\ phase = [s \in Sweeps |-> "idle"]
  /\ rows = [s \in Sweeps |-> {}]
  /\ fetched = {}
  /\ edits = 0 /\ toggles = 0 /\ faults = 0
  /\ overlap = {}

-----------------------------------------------------------------------------
\* Admin requests.

TogglePublishing ==
  /\ toggles < MaxToggles
  /\ toggles' = toggles + 1
  /\ enabled' = ~enabled
  /\ UNCHANGED <<row, remote, proc, sweep, fetched, edits, faults>>

Take(p, i, where, t) ==
  /\ pc' = [pc EXCEPT ![p] = where]
  /\ item' = [item EXCEPT ![p] = i]
  /\ copy' = [copy EXCEPT ![p] = t]

Save(i, t) ==
  /\ edits < MaxEdits
  /\ edits' = edits + 1
  /\ text' = [text EXCEPT ![i] = t]

\* The publish state stays what it was; an emptied reply is not published.
SetReviewReply(a, i, t) ==
  /\ pc[a] = "idle"
  /\ Save(i, t)
  /\ IF t = NoText THEN UNCHANGED proc ELSE Take(a, i, "saved", NoText)
  /\ UNCHANGED <<state, remote, enabled, sweep, fetched, toggles, faults>>

\* Faulty variant: as for reviews, the state stays.
SetQuestionAnswer_KeepsState(a, i, t) ==
  /\ pc[a] = "idle"
  /\ Save(i, t)
  /\ Take(a, i, "saved", NoText)
  /\ UNCHANGED <<state, remote, enabled, sweep, fetched, toggles, faults>>

\* Text and state in one transaction.
SetQuestionAnswer(a, i, t) ==
  /\ pc[a] = "idle"
  /\ Save(i, t)
  /\ state' = [state EXCEPT ![i] = "pending"]
  /\ Take(a, i, "saved", NoText)
  /\ UNCHANGED <<remote, enabled, sweep, fetched, toggles, faults>>

\* The handler publishes the row as it reads it back.
ReadBack(a) ==
  /\ pc[a] = "saved"
  /\ Take(a, item[a], "loaded", text[item[a]])
  /\ UNCHANGED <<row, remote, enabled, sweep, fetched, bounds>>

\* Published rows answer 409; an empty reply is not looked for.
RetryPublish(a, i) ==
  /\ pc[a] = "idle" /\ state[i] # "published"
  /\ Take(a, i, "loaded", text[i])
  /\ UNCHANGED <<row, remote, enabled, sweep, fetched, bounds>>

-----------------------------------------------------------------------------
\* The sweep after a sync: first the replies, then the answers.

Queue(S) == {<<i, text[i]>> : i \in {j \in S : NeedsPublish(j)}}

\* A queue that cannot be read is skipped.
Load(s, next, S) ==
  /\ phase' = [phase EXCEPT ![s] = next]
  /\ \/ rows' = [rows EXCEPT ![s] = Queue(S)] /\ UNCHANGED faults
     \/ rows' = [rows EXCEPT ![s] = {}] /\ Lose
  /\ UNCHANGED <<row, remote, enabled, proc, fetched, edits, toggles>>

RetryPendingReplies(s) == phase[s] = "idle" /\ Load(s, "replies", Reviews)

RetryPendingQuestionAnswers(s) ==
  /\ phase[s] = "replies" /\ rows[s] = {} /\ pc[s] = "idle"
  /\ Load(s, "answers", Questions)

SweepEnds(s) ==
  /\ phase[s] = "answers" /\ rows[s] = {} /\ pc[s] = "idle"
  /\ phase' = [phase EXCEPT ![s] = "idle"]
  /\ UNCHANGED <<row, remote, enabled, proc, rows, fetched, bounds>>

TakeRow(s) ==
  /\ pc[s] = "idle"
  /\ \E r \in rows[s] :
       /\ Take(s, r[1], "loaded", r[2])
       /\ rows' = [rows EXCEPT ![s] = @ \ {r}]
  /\ UNCHANGED <<row, remote, enabled, phase, fetched, bounds>>

-----------------------------------------------------------------------------
\* publishReply and publishQuestionAnswer.

Goto(p, where) == pc' = [pc EXCEPT ![p] = where] /\ UNCHANGED <<item, copy>>

\* Imported reviews and a disabled marketplace are not called; a setting that
\* cannot be read counts as enabled.
ReadSetting(p) ==
  /\ pc[p] = "loaded"
  /\ \/ /\ Goto(p, IF item[p] \notin Local /\ enabled THEN "calling" ELSE "refused")
        /\ UNCHANGED faults
     \/ /\ item[p] \notin Local /\ ~enabled
        /\ Goto(p, "calling")
        /\ Lose
  /\ UNCHANGED <<row, remote, enabled, sweep, fetched, edits, toggles>>

Shown(p) == [remote EXCEPT ![item[p]] = copy[p]]

\* The marketplace takes the text and answers.
CallSucceeds(p) ==
  /\ pc[p] = "calling"
  /\ remote' = Shown(p)
  /\ Goto(p, "accepted")
  /\ UNCHANGED <<row, enabled, sweep, fetched, bounds>>

\* No adapter, a refusal, or an answer lost after the text was taken.
CallFails(p) ==
  /\ pc[p] = "calling"
  /\ remote' \in {remote, Shown(p)}
  /\ Goto(p, "errored")
  /\ Lose
  /\ UNCHANGED <<row, enabled, sweep, fetched, edits, toggles>>

Leave(p) ==
  /\ pc' = [pc EXCEPT ![p] = "idle"]
  /\ item' = [item EXCEPT ![p] = NoItem]
  /\ copy' = [copy EXCEPT ![p] = NoText]

Outcome(p) ==
  CASE pc[p] = "accepted" -> "published"
    [] pc[p] = "errored"  -> "failed"
    [] pc[p] = "refused"  -> "unsupported"

\* Faulty variant: the row is kept.
SetPublishState_KeepsRow(p) ==
  /\ pc[p] \in {"accepted", "errored", "refused"}
  /\ state' = [state EXCEPT ![item[p]] = Outcome(p)]
  /\ pc' = [pc EXCEPT ![p] = "idle"]
  /\ UNCHANGED <<text, remote, item, copy, enabled, sweep, fetched, bounds>>

\* By id, whatever the row holds by now.
SetPublishState(p) ==
  /\ pc[p] \in {"accepted", "errored", "refused"}
  /\ state' = [state EXCEPT ![item[p]] = Outcome(p)]
  /\ Leave(p)
  /\ UNCHANGED <<text, remote, enabled, sweep, fetched, bounds>>

\* The write fails and its error is ignored.
SetPublishStateFails(p) ==
  /\ pc[p] \in {"accepted", "errored", "refused"}
  /\ Leave(p)
  /\ Lose
  /\ UNCHANGED <<row, remote, enabled, sweep, fetched, edits, toggles>>

\* The browser goes away: the request's context is cancelled, and with it the
\* call and every later statement, the write of "failed" included.
RequestCancelled(a) ==
  /\ pc[a] # "idle"
  /\ remote' \in {remote} \cup (IF pc[a] = "calling" THEN {Shown(a)} ELSE {})
  /\ Leave(a)
  /\ Lose
  /\ UNCHANGED <<row, enabled, sweep, fetched, edits, toggles>>

ServerRestart ==
  /\ pc' = [p \in Procs |-> "idle"]
  /\ item' = [p \in Procs |-> NoItem]
  /\ copy' = [p \in Procs |-> NoText]
  /\ phase' = [s \in Sweeps |-> "idle"]
  /\ rows' = [s \in Sweeps |-> {}]
  /\ fetched' = {}
  /\ Lose
  /\ UNCHANGED <<row, remote, enabled, edits, toggles>>

-----------------------------------------------------------------------------
\* The sync of questions, one at a time per marketplace.

Answered == {q \in Questions : remote[q] \in Texts}

\* A page of questions with the answers the marketplace shows, each in the
\* state it lists it in (its own word, or "published" when it gives none).
FetchQuestions ==
  /\ fetched = {}
  /\ \E listed \in [Answered -> AnswerStates] :
       fetched' = {<<i, remote[i], listed[i]>> : i \in Answered}
  /\ UNCHANGED <<row, remote, enabled, proc, sweep, bounds>>

\* A fetched answer replaces the stored one and its state, whatever they are
\* by now and whatever the marketplace's word is.
UpsertQuestion ==
  /\ \E r \in fetched :
       /\ text' = [text EXCEPT ![r[1]] = r[2]]
       /\ state' = [state EXCEPT ![r[1]] = r[3]]
       /\ fetched' = fetched \ {r}
  /\ UNCHANGED <<remote, enabled, proc, sweep, bounds>>

-----------------------------------------------------------------------------
Attempt(p) ==
  \/ ReadSetting(p) \/ CallSucceeds(p) \/ CallFails(p)
  \/ SetPublishState(p) \/ SetPublishStateFails(p)

Request(a) ==
  \/ \E i \in Reviews, t \in Texts \cup {NoText} : SetReviewReply(a, i, t)
  \/ \E i \in Questions, t \in Texts \cup {NoText} : SetQuestionAnswer(a, i, t)
  \/ \E i \in Items : RetryPublish(a, i)
  \/ ReadBack(a) \/ RequestCancelled(a)

Sweep(s) ==
  \/ RetryPendingReplies(s) \/ RetryPendingQuestionAnswers(s)
  \/ TakeRow(s) \/ SweepEnds(s)

Step ==
  \/ \E a \in Admins : Request(a)
  \/ \E s \in Sweeps : Sweep(s)
  \/ \E p \in Procs : Attempt(p)
  \/ TogglePublishing \/ ServerRestart \/ FetchQuestions \/ UpsertQuestion

\* Who works on row i, or has read it to do so.
Reading(i) ==
  {p \in Procs : item[p] = i} \cup {s \in Sweeps : \E r \in rows[s] : r[1] = i}
Syncing(i) == \E f \in fetched : f[1] = i

Next ==
  /\ Step
  /\ overlap' = overlap \cup
       {i \in Items : Cardinality(Reading(i)') + (IF Syncing(i)' THEN 1 ELSE 0) > 1}

Spec == Init /\ [][Next]_vars

\* The sync ticker dispatches a sweep again and again; a sweep and a request
\* run on, and a call ends within its timeout, one way or the other.
Fairness ==
  /\ \A s \in Sweeps : WF_vars(Sweep(s) /\ Next)
  /\ \A p \in Procs : WF_vars(Attempt(p) /\ Next)
  /\ \A a \in Admins : WF_vars(ReadBack(a) /\ Next)
  /\ WF_vars(UpsertQuestion /\ Next)

FairSpec == Spec /\ Fairness

-----------------------------------------------------------------------------
(***************************************************************************)
(* Properties                                                              *)
(***************************************************************************)

\* A row is recorded as published only once the marketplace has shown an
\* answer to it, whatever was saved, retried, imported or lost in between.
PublishedWasAccepted ==
  \A i \in Items : state[i] = "published" => remote[i] # Nothing

\* The state tells the truth: at rest, a published row shows the saved text.
Truthful(i) ==
  Reading(i) = {} /\ ~Syncing(i) /\ i \notin overlap
    => (state[i] = "published" /\ text[i] # NoText => remote[i] = text[i])

\* An answer to a question on which no two actors ever worked at once is not
\* recorded as published while the marketplace shows another one: a saved
\* answer is pending until its own publication ends, in any way it can end.
AnswerStateTruthful == \A i \in Questions : Truthful(i)

\* The same of the replies to reviews, as the documentation of the retryable
\* publish state has it.
ReplyStateTruthful == \A i \in Reviews : Truthful(i)

\* A text waiting for its publication does not wait for ever: the sweeps
\* publish it, find that it cannot be, or the sync replaces it by the answer
\* the marketplace lists, after any failure, cancelled request or restart.
\* Where a marketplace lists an answer in a word of its own, the row then has
\* that state, and no sweep or later request waits for it.
QueueDrains ==
  \A i \in Items :
    (text[i] # NoText /\ state[i] \in {"", "pending", "failed"})
      ~> (text[i] = NoText \/ state[i] \notin {"", "pending", "failed"})

=============================================================================
