------------------------- MODULE ReplyPublish_proofs -------------------------
(***************************************************************************)
(* Theorems about ReplyPublish, for every value of its constants.          *)
(***************************************************************************)
EXTENDS ReplyPublish, FiniteSetTheorems, TLAPS

-----------------------------------------------------------------------------
(* Type correctness.                                                       *)

ItemsTypeOK ==
  /\ text \in [Items -> Texts \cup {NoText}]
  /\ state \in [Items -> {"", "pending", "failed", "published", "unsupported"}
                          \cup AnswerStates]
  /\ remote \in [Items -> Texts \cup {NoText, Nothing}]
  /\ fetched \in SUBSET (Questions \X Texts \X AnswerStates)
  /\ overlap \in SUBSET Items

ProcTypeOK ==
  /\ pc \in [Procs -> {"idle", "saved", "loaded", "calling", "refused",
                       "accepted", "errored"}]
  /\ item \in [Procs -> Items \cup {NoItem}]
  /\ \A p \in Procs : pc[p] = "idle" <=> item[p] = NoItem
  /\ copy \in [Procs -> Texts \cup {NoText}]

SweepTypeOK ==
  /\ phase \in [Sweeps -> {"idle", "replies", "answers"}]
  /\ rows \in [Sweeps -> SUBSET (Items \X Texts)]

BoundsTypeOK ==
  /\ enabled \in BOOLEAN
  /\ edits \in 0 .. MaxEdits /\ toggles \in 0 .. MaxToggles
  /\ faults \in 0 .. MaxFaults

LEMMA TypeParts == TypeOK <=> ItemsTypeOK /\ ProcTypeOK /\ SweepTypeOK /\ BoundsTypeOK
BY DEF TypeOK, ItemsTypeOK, ProcTypeOK, SweepTypeOK, BoundsTypeOK

LEMMA TypePartsAfter ==
  ItemsTypeOK' /\ ProcTypeOK' /\ SweepTypeOK' /\ BoundsTypeOK' => TypeOK'
BY DEF TypeOK, ItemsTypeOK, ProcTypeOK, SweepTypeOK, BoundsTypeOK

LEMMA TypeInit == Init => TypeOK
<1> SUFFICES ASSUME Init PROVE TypeOK
  OBVIOUS
<1>1. ItemsTypeOK /\ SweepTypeOK
  BY DEF Init, ItemsTypeOK, SweepTypeOK
<1>2. ProcTypeOK
  BY ReplyAssumption DEF Init, ProcTypeOK
<1>3. BoundsTypeOK
  <2>1. 0 \in 0 .. MaxEdits /\ 0 \in 0 .. MaxToggles /\ 0 \in 0 .. MaxFaults
    BY ReplyAssumption
  <2> QED BY <2>1 DEF Init, BoundsTypeOK
<1> QED BY <1>1, <1>2, <1>3, TypeParts

\* Taking a row, moving on with it and leaving it.
LEMMA TakeType ==
  ASSUME ProcTypeOK, NEW p \in Procs, NEW i \in Items, NEW w \in {"saved", "loaded"},
         NEW t \in Texts \cup {NoText}, Take(p, i, w, t)
  PROVE  ProcTypeOK'
BY ReplyAssumption DEF ProcTypeOK, Take

LEMMA GotoType ==
  ASSUME ProcTypeOK, NEW p \in Procs, pc[p] # "idle",
         NEW w \in {"loaded", "calling", "refused", "accepted", "errored"}, Goto(p, w)
  PROVE  ProcTypeOK'
BY ReplyAssumption DEF ProcTypeOK, Goto

LEMMA LeaveType ==
  ASSUME ProcTypeOK, NEW p \in Procs, Leave(p)
  PROVE  ProcTypeOK'
BY ReplyAssumption DEF ProcTypeOK, Leave

LEMMA LoseType ==
  ASSUME BoundsTypeOK, Lose
  PROVE  faults' \in 0 .. MaxFaults
BY ReplyAssumption DEF BoundsTypeOK, Lose

LEMMA SaveType ==
  ASSUME BoundsTypeOK, ItemsTypeOK, NEW i \in Items, NEW t \in Texts \cup {NoText},
         Save(i, t)
  PROVE  edits' \in 0 .. MaxEdits /\ text' \in [Items -> Texts \cup {NoText}]
<1>1. edits' \in 0 .. MaxEdits
  BY ReplyAssumption DEF BoundsTypeOK, Save
<1>2. text' \in [Items -> Texts \cup {NoText}]
  BY DEF ItemsTypeOK, Save
<1> QED BY <1>1, <1>2

LEMMA AdminInProcs == Admins \subseteq Procs /\ Sweeps \subseteq Procs
BY DEF Procs

LEMMA RequestType ==
  ASSUME TypeOK, overlap' \in SUBSET Items, NEW a \in Admins, Request(a)
  PROVE  TypeOK'
<1> USE TypeParts, TypePartsAfter, AdminInProcs
<1> ItemsTypeOK /\ ProcTypeOK /\ SweepTypeOK /\ BoundsTypeOK
  OBVIOUS
<1>1. ASSUME NEW i \in Reviews, NEW t \in Texts \cup {NoText}, SetReviewReply(a, i, t)
      PROVE  TypeOK'
  <2>1. i \in Items
    BY DEF Items
  <2>2. edits' \in 0 .. MaxEdits /\ text' \in [Items -> Texts \cup {NoText}]
    BY <1>1, <2>1, SaveType DEF SetReviewReply
  <2>3. ProcTypeOK'
    <3>1. CASE t = NoText
      BY <1>1, <3>1 DEF SetReviewReply, proc, ProcTypeOK
    <3>2. CASE t # NoText
      BY <1>1, <2>1, <3>2, TakeType DEF SetReviewReply
    <3> QED BY <3>1, <3>2
  <2> QED BY <1>1, <2>2, <2>3 DEF SetReviewReply, sweep, ItemsTypeOK, SweepTypeOK,
                                  BoundsTypeOK
<1>2. ASSUME NEW i \in Questions, NEW t \in Texts \cup {NoText},
             SetQuestionAnswer(a, i, t)
      PROVE  TypeOK'
  <2>1. i \in Items
    BY DEF Items
  <2>2. edits' \in 0 .. MaxEdits /\ text' \in [Items -> Texts \cup {NoText}]
    BY <1>2, <2>1, SaveType DEF SetQuestionAnswer
  <2>3. ProcTypeOK'
    BY <1>2, <2>1, TakeType DEF SetQuestionAnswer
  <2> QED BY <1>2, <2>2, <2>3 DEF SetQuestionAnswer, sweep, ItemsTypeOK, SweepTypeOK,
                                  BoundsTypeOK
<1>3. ASSUME NEW i \in Items, RetryPublish(a, i)
      PROVE  TypeOK'
  <2>1. text[i] \in Texts \cup {NoText}
    BY DEF ItemsTypeOK
  <2>2. ProcTypeOK'
    BY <1>3, <2>1, TakeType DEF RetryPublish
  <2> QED BY <1>3, <2>2 DEF RetryPublish, row, sweep, bounds, ItemsTypeOK, SweepTypeOK,
                            BoundsTypeOK
<1>4. CASE ReadBack(a)
  <2>1. item[a] \in Items
    BY <1>4 DEF ReadBack, ProcTypeOK
  <2>2. text[item[a]] \in Texts \cup {NoText}
    BY <2>1 DEF ItemsTypeOK
  <2>3. ProcTypeOK'
    BY <1>4, <2>1, <2>2, TakeType DEF ReadBack
  <2> QED BY <1>4, <2>3 DEF ReadBack, row, sweep, bounds, ItemsTypeOK, SweepTypeOK,
                            BoundsTypeOK
<1>5. CASE RequestCancelled(a)
  <2>1. Shown(a) \in [Items -> Texts \cup {NoText, Nothing}]
    BY DEF Shown, ItemsTypeOK, ProcTypeOK
  <2>2. remote' \in [Items -> Texts \cup {NoText, Nothing}]
    BY <1>5, <2>1 DEF RequestCancelled, ItemsTypeOK
  <2>3. ProcTypeOK' /\ faults' \in 0 .. MaxFaults
    BY <1>5, LeaveType, LoseType DEF RequestCancelled
  <2> QED BY <1>5, <2>2, <2>3 DEF RequestCancelled, row, sweep, ItemsTypeOK, SweepTypeOK,
                                  BoundsTypeOK
<1> QED BY <1>1, <1>2, <1>3, <1>4, <1>5 DEF Request

LEMMA QueueType ==
  ASSUME ItemsTypeOK, NEW S \in SUBSET Items
  PROVE  Queue(S) \in SUBSET (Items \X Texts)
<1>1. ASSUME NEW i \in S, NeedsPublish(i) PROVE <<i, text[i]>> \in Items \X Texts
  BY <1>1 DEF NeedsPublish, ItemsTypeOK
<1> QED BY <1>1 DEF Queue

LEMMA LoadType ==
  ASSUME TypeOK, overlap' \in SUBSET Items, NEW s \in Sweeps,
         NEW w \in {"replies", "answers"}, NEW S \in SUBSET Items, Load(s, w, S)
  PROVE  TypeOK'
<1> USE TypeParts, TypePartsAfter
<1>1. Queue(S) \in SUBSET (Items \X Texts)
  BY QueueType
<1>2. SweepTypeOK'
  BY <1>1 DEF Load, SweepTypeOK
<1>3. faults' \in 0 .. MaxFaults
  BY LoseType DEF Load, BoundsTypeOK
<1> QED BY <1>2, <1>3 DEF Load, row, proc, ItemsTypeOK, ProcTypeOK, BoundsTypeOK

LEMMA SweepType ==
  ASSUME TypeOK, overlap' \in SUBSET Items, NEW s \in Sweeps, Sweep(s)
  PROVE  TypeOK'
<1> USE TypeParts, TypePartsAfter, AdminInProcs
<1>1. CASE RetryPendingReplies(s)
  BY <1>1, LoadType DEF RetryPendingReplies, Items
<1>2. CASE RetryPendingQuestionAnswers(s)
  BY <1>2, LoadType DEF RetryPendingQuestionAnswers, Items
<1>3. CASE TakeRow(s)
  <2>1. PICK r \in rows[s] : /\ Take(s, r[1], "loaded", r[2])
                             /\ rows' = [rows EXCEPT ![s] = @ \ {r}]
    BY <1>3 DEF TakeRow
  <2>2. r[1] \in Items /\ r[2] \in Texts
    BY DEF SweepTypeOK
  <2>3. ProcTypeOK'
    BY <2>1, <2>2, TakeType
  <2>4. SweepTypeOK'
    BY <1>3, <2>1 DEF TakeRow, SweepTypeOK
  <2> QED BY <1>3, <2>3, <2>4 DEF TakeRow, row, bounds, ItemsTypeOK, BoundsTypeOK
<1>4. CASE SweepEnds(s)
  BY <1>4 DEF SweepEnds, row, proc, bounds, ItemsTypeOK, ProcTypeOK, SweepTypeOK,
              BoundsTypeOK
<1> QED BY <1>1, <1>2, <1>3, <1>4 DEF Sweep

LEMMA AttemptType ==
  ASSUME TypeOK, overlap' \in SUBSET Items, NEW p \in Procs, Attempt(p)
  PROVE  TypeOK'
<1> USE TypeParts, TypePartsAfter
<1>1. CASE ReadSetting(p)
  <2>1. ProcTypeOK'
    BY <1>1, GotoType DEF ReadSetting
  <2>2. faults' \in 0 .. MaxFaults
    BY <1>1, LoseType DEF ReadSetting, BoundsTypeOK
  <2> QED BY <1>1, <2>1, <2>2 DEF ReadSetting, row, sweep, ItemsTypeOK, SweepTypeOK,
                                  BoundsTypeOK
<1>2. Shown(p) \in [Items -> Texts \cup {NoText, Nothing}]
  BY DEF Shown, ItemsTypeOK, ProcTypeOK
<1>3. CASE CallSucceeds(p)
  <2>1. ProcTypeOK'
    BY <1>3, GotoType DEF CallSucceeds
  <2> QED BY <1>2, <1>3, <2>1 DEF CallSucceeds, row, sweep, bounds, ItemsTypeOK,
                                  SweepTypeOK, BoundsTypeOK
<1>4. CASE CallFails(p)
  <2>1. ProcTypeOK' /\ faults' \in 0 .. MaxFaults
    BY <1>4, GotoType, LoseType DEF CallFails
  <2>2. remote' \in [Items -> Texts \cup {NoText, Nothing}]
    BY <1>2, <1>4 DEF CallFails, ItemsTypeOK
  <2> QED BY <1>4, <2>1, <2>2 DEF CallFails, row, sweep, ItemsTypeOK, SweepTypeOK,
                                  BoundsTypeOK
<1>5. CASE SetPublishState(p)
  <2>1. ProcTypeOK'
    BY <1>5, LeaveType DEF SetPublishState
  <2>2. Outcome(p) \in {"published", "failed", "unsupported"}
    BY <1>5 DEF SetPublishState, Outcome
  <2>3. state' \in [Items -> {"", "pending", "failed", "published", "unsupported"}
                              \cup AnswerStates]
    BY <1>5, <2>2 DEF SetPublishState, ItemsTypeOK
  <2> QED BY <1>5, <2>1, <2>3 DEF SetPublishState, sweep, bounds, ItemsTypeOK,
                                  SweepTypeOK, BoundsTypeOK
<1>6. CASE SetPublishStateFails(p)
  <2>1. ProcTypeOK' /\ faults' \in 0 .. MaxFaults
    BY <1>6, LeaveType, LoseType DEF SetPublishStateFails
  <2> QED BY <1>6, <2>1 DEF SetPublishStateFails, row, sweep, ItemsTypeOK, SweepTypeOK,
                            BoundsTypeOK
<1> QED BY <1>1, <1>3, <1>4, <1>5, <1>6 DEF Attempt

LEMMA OtherType ==
  ASSUME TypeOK, overlap' \in SUBSET Items,
         TogglePublishing \/ ServerRestart \/ FetchQuestions \/ UpsertQuestion
  PROVE  TypeOK'
<1> USE TypeParts, TypePartsAfter
<1>1. CASE TogglePublishing
  <2>1. enabled' \in BOOLEAN /\ toggles' \in 0 .. MaxToggles
    BY <1>1, ReplyAssumption DEF TogglePublishing, BoundsTypeOK
  <2> QED BY <1>1, <2>1 DEF TogglePublishing, row, proc, sweep, ItemsTypeOK, ProcTypeOK,
                            SweepTypeOK, BoundsTypeOK
<1>2. CASE ServerRestart
  <2>1. faults' \in 0 .. MaxFaults
    BY <1>2, LoseType DEF ServerRestart
  <2>2. ProcTypeOK'
    BY <1>2 DEF ServerRestart, ProcTypeOK
  <2> QED BY <1>2, <2>1, <2>2 DEF ServerRestart, row, ItemsTypeOK, SweepTypeOK,
                                  BoundsTypeOK
<1>3. CASE FetchQuestions
  <2>1. PICK listed \in [Answered -> AnswerStates] :
               fetched' = {<<i, remote[i], listed[i]>> : i \in Answered}
    BY <1>3 DEF FetchQuestions, Answered
  <2>2. \A i \in Answered : <<i, remote[i], listed[i]>> \in Questions \X Texts \X AnswerStates
    BY <2>1 DEF Answered
  <2>3. fetched' \in SUBSET (Questions \X Texts \X AnswerStates)
    BY <2>1, <2>2
  <2> QED BY <1>3, <2>3 DEF FetchQuestions, row, proc, sweep, bounds, ItemsTypeOK,
                            ProcTypeOK, SweepTypeOK, BoundsTypeOK
<1>4. CASE UpsertQuestion
  <2>1. PICK r \in fetched : /\ text' = [text EXCEPT ![r[1]] = r[2]]
                             /\ state' = [state EXCEPT ![r[1]] = r[3]]
                             /\ fetched' = fetched \ {r}
    BY <1>4 DEF UpsertQuestion
  <2>2. r[2] \in Texts /\ r[3] \in AnswerStates
    BY DEF ItemsTypeOK
  <2> QED BY <1>4, <2>1, <2>2 DEF UpsertQuestion, proc, sweep, bounds, ItemsTypeOK,
                                  ProcTypeOK, SweepTypeOK, BoundsTypeOK
<1> QED BY <1>1, <1>2, <1>3, <1>4

LEMMA TypeStep == TypeOK /\ [Next]_vars => TypeOK'
<1> SUFFICES ASSUME TypeOK, [Next]_vars PROVE TypeOK'
  OBVIOUS
<1>1. CASE Next
  <2>1. Step /\ overlap' \in SUBSET Items
    BY <1>1, TypeParts DEF Next, ItemsTypeOK
  <2> QED BY <2>1, RequestType, SweepType, AttemptType, OtherType DEF Step
<1>2. CASE UNCHANGED vars
  BY <1>2 DEF vars, row, proc, sweep, bounds, TypeOK
<1> QED BY <1>1, <1>2

-----------------------------------------------------------------------------
(* What is recorded as published was accepted.                             *)

\* Whoever has had a text accepted, and whatever was fetched, is about a row
\* the marketplace shows an answer to.
AcceptInv ==
  /\ \A i \in Items : state[i] = "published" => remote[i] # Nothing
  /\ \A p \in Procs : pc[p] = "accepted" => remote[item[p]] # Nothing
  /\ \A f \in fetched : remote[f[1]] # Nothing

\* The marketplace never forgets that it showed an answer.
LEMMA ShownKeeps ==
  ASSUME TypeOK, NEW p \in Procs, pc[p] # "idle"
  PROVE  /\ item[p] \in Items /\ Shown(p)[item[p]] = copy[p] /\ copy[p] # Nothing
         /\ \A i \in Items : Shown(p)[i] = IF i = item[p] THEN copy[p] ELSE remote[i]
         /\ \A i \in Items : remote[i] # Nothing => Shown(p)[i] # Nothing
<1>1. item[p] \in Items /\ copy[p] \in Texts \cup {NoText}
  BY TypeParts DEF ProcTypeOK
<1>2. Nothing \notin Texts \cup {NoText}
  BY ReplyAssumption
<1> QED BY <1>1, <1>2, TypeParts DEF Shown, ItemsTypeOK

\* A step that neither publishes a row nor has a text accepted.
LEMMA AcceptStill ==
  ASSUME TypeOK, AcceptInv,
         \A i \in Items : state'[i] = "published" => state[i] = "published",
         \A i \in Items : remote[i] # Nothing => remote'[i] # Nothing,
         \A p \in Procs : pc'[p] = "accepted" => pc[p] = "accepted" /\ item'[p] = item[p],
         fetched' \subseteq fetched
  PROVE  AcceptInv'
<1>1. \A p \in Procs : pc[p] = "accepted" => item[p] \in Items
  BY TypeParts DEF ProcTypeOK
<1>2. \A f \in fetched : f[1] \in Items
  BY TypeParts DEF ItemsTypeOK, Items
<1> QED BY <1>1, <1>2 DEF AcceptInv

LEMMA AcceptRequest ==
  ASSUME TypeOK, AcceptInv, NEW a \in Admins, Request(a)
  PROVE  AcceptInv'
<1> USE AdminInProcs
<1> ItemsTypeOK /\ ProcTypeOK
  BY TypeParts
<1>1. ASSUME NEW i \in Reviews, NEW t \in Texts \cup {NoText}, SetReviewReply(a, i, t)
      PROVE  AcceptInv'
  <2>1. \A p \in Procs : pc'[p] = "accepted" => pc[p] = "accepted" /\ item'[p] = item[p]
    BY <1>1 DEF SetReviewReply, proc, Take, ProcTypeOK
  <2> QED BY <1>1, <2>1, AcceptStill DEF SetReviewReply
<1>2. ASSUME NEW i \in Questions, NEW t \in Texts \cup {NoText},
             SetQuestionAnswer(a, i, t)
      PROVE  AcceptInv'
  <2>1. \A p \in Procs : pc'[p] = "accepted" => pc[p] = "accepted" /\ item'[p] = item[p]
    BY <1>2 DEF SetQuestionAnswer, Take, ProcTypeOK
  <2>2. \A j \in Items : state'[j] = "published" => state[j] = "published"
    BY <1>2 DEF SetQuestionAnswer, ItemsTypeOK
  <2> QED BY <1>2, <2>1, <2>2, AcceptStill DEF SetQuestionAnswer
<1>3. ASSUME NEW i \in Items, RetryPublish(a, i) PROVE AcceptInv'
  <2>1. \A p \in Procs : pc'[p] = "accepted" => pc[p] = "accepted" /\ item'[p] = item[p]
    BY <1>3 DEF RetryPublish, Take, ProcTypeOK
  <2> QED BY <1>3, <2>1, AcceptStill DEF RetryPublish, row
<1>4. CASE ReadBack(a)
  <2>1. \A p \in Procs : pc'[p] = "accepted" => pc[p] = "accepted" /\ item'[p] = item[p]
    BY <1>4 DEF ReadBack, Take, ProcTypeOK
  <2> QED BY <1>4, <2>1, AcceptStill DEF ReadBack, row
<1>5. CASE RequestCancelled(a)
  <2>1. \A p \in Procs : pc'[p] = "accepted" => pc[p] = "accepted" /\ item'[p] = item[p]
    BY <1>5 DEF RequestCancelled, Leave, ProcTypeOK
  <2>2. \A i \in Items : remote[i] # Nothing => remote'[i] # Nothing
    BY <1>5, ShownKeeps DEF RequestCancelled
  <2> QED BY <1>5, <2>1, <2>2, AcceptStill DEF RequestCancelled, row
<1> QED BY <1>1, <1>2, <1>3, <1>4, <1>5 DEF Request

LEMMA AcceptSweep ==
  ASSUME TypeOK, AcceptInv, NEW s \in Sweeps, Sweep(s)
  PROVE  AcceptInv'
<1> USE AdminInProcs
<1>1. CASE RetryPendingReplies(s) \/ RetryPendingQuestionAnswers(s) \/ SweepEnds(s)
  BY <1>1, AcceptStill DEF RetryPendingReplies, RetryPendingQuestionAnswers, SweepEnds,
                           Load, row, proc
<1>2. CASE TakeRow(s)
  <2>1. \A p \in Procs : pc'[p] = "accepted" => pc[p] = "accepted" /\ item'[p] = item[p]
    BY <1>2, TypeParts DEF TakeRow, Take, ProcTypeOK
  <2> QED BY <1>2, <2>1, AcceptStill DEF TakeRow, row
<1> QED BY <1>1, <1>2 DEF Sweep

LEMMA AcceptAttempt ==
  ASSUME TypeOK, AcceptInv, NEW p \in Procs, Attempt(p)
  PROVE  AcceptInv'
<1> ItemsTypeOK /\ ProcTypeOK
  BY TypeParts
<1>1. CASE ReadSetting(p)
  <2>1. \A q \in Procs : pc'[q] = "accepted" => pc[q] = "accepted" /\ item'[q] = item[q]
    BY <1>1 DEF ReadSetting, Goto, ProcTypeOK
  <2> QED BY <1>1, <2>1, AcceptStill DEF ReadSetting, row
<1>2. CASE CallSucceeds(p)
  <2>1. /\ \A i \in Items : remote[i] # Nothing => remote'[i] # Nothing
        /\ item[p] \in Items /\ remote'[item[p]] # Nothing
    BY <1>2, ShownKeeps DEF CallSucceeds
  <2>2. UNCHANGED <<state, item, fetched>> /\ pc' = [pc EXCEPT ![p] = "accepted"]
    BY <1>2 DEF CallSucceeds, Goto, row
  <2>3. \A q \in Procs : pc[q] = "accepted" => item[q] \in Items
    BY DEF ProcTypeOK
  <2>4. \A f \in fetched : f[1] \in Items
    BY DEF ItemsTypeOK, Items
  <2> QED BY <2>1, <2>2, <2>3, <2>4 DEF AcceptInv, ProcTypeOK
<1>3. CASE CallFails(p)
  <2>1. \A q \in Procs : pc'[q] = "accepted" => pc[q] = "accepted" /\ item'[q] = item[q]
    BY <1>3 DEF CallFails, Goto, ProcTypeOK
  <2>2. \A i \in Items : remote[i] # Nothing => remote'[i] # Nothing
    BY <1>3, ShownKeeps DEF CallFails
  <2> QED BY <1>3, <2>1, <2>2, AcceptStill DEF CallFails, row
<1>4. CASE SetPublishState(p)
  <2>1. UNCHANGED <<remote, fetched>> /\ state' = [state EXCEPT ![item[p]] = Outcome(p)]
    BY <1>4 DEF SetPublishState
  <2>2. \A q \in Procs : pc'[q] = "accepted" => pc[q] = "accepted" /\ item'[q] = item[q]
    BY <1>4 DEF SetPublishState, Leave, ProcTypeOK
  <2>3. Outcome(p) = "published" => pc[p] = "accepted"
    BY <1>4 DEF SetPublishState, Outcome
  <2> QED BY <2>1, <2>2, <2>3 DEF AcceptInv, ItemsTypeOK
<1>5. CASE SetPublishStateFails(p)
  <2>1. \A q \in Procs : pc'[q] = "accepted" => pc[q] = "accepted" /\ item'[q] = item[q]
    BY <1>5 DEF SetPublishStateFails, Leave, ProcTypeOK
  <2> QED BY <1>5, <2>1, AcceptStill DEF SetPublishStateFails, row
<1> QED BY <1>1, <1>2, <1>3, <1>4, <1>5 DEF Attempt

LEMMA AcceptOther ==
  ASSUME TypeOK, AcceptInv,
         TogglePublishing \/ ServerRestart \/ FetchQuestions \/ UpsertQuestion
  PROVE  AcceptInv'
<1> ItemsTypeOK /\ ProcTypeOK
  BY TypeParts
<1>1. CASE TogglePublishing
  BY <1>1, AcceptStill DEF TogglePublishing, row, proc
<1>2. CASE ServerRestart
  BY <1>2, AcceptStill DEF ServerRestart, row
<1>3. CASE FetchQuestions
  <2>1. \A f \in fetched' : f[1] \in Questions /\ remote[f[1]] \in Texts
    BY <1>3 DEF FetchQuestions, Answered
  <2>2. Nothing \notin Texts
    BY ReplyAssumption
  <2> QED BY <1>3, <2>1, <2>2 DEF FetchQuestions, row, proc, AcceptInv
<1>4. CASE UpsertQuestion
  <2>1. PICK r \in fetched : /\ state' = [state EXCEPT ![r[1]] = r[3]]
                             /\ fetched' = fetched \ {r}
    BY <1>4 DEF UpsertQuestion
  <2>2. r[1] \in Items /\ remote[r[1]] # Nothing
    BY DEF ItemsTypeOK, Items, AcceptInv
  <2> QED BY <1>4, <2>1, <2>2 DEF UpsertQuestion, proc, AcceptInv, ItemsTypeOK
<1> QED BY <1>1, <1>2, <1>3, <1>4

LEMMA AcceptStep == TypeOK /\ AcceptInv /\ [Next]_vars => AcceptInv'
<1> SUFFICES ASSUME TypeOK, AcceptInv, [Next]_vars PROVE AcceptInv'
  OBVIOUS
<1>1. CASE Next
  BY <1>1, AcceptRequest, AcceptSweep, AcceptAttempt, AcceptOther DEF Next, Step
<1>2. CASE UNCHANGED vars
  BY <1>2 DEF vars, row, proc, AcceptInv
<1> QED BY <1>1, <1>2

\* Every reachable state is well typed: a request or sweep holds a row exactly
\* while it works on one, and queues hold rows that exist.
THEOREM ReplyTypeCorrect == Spec => []TypeOK
BY TypeInit, TypeStep, PTL DEF Spec

\* A reply or answer is recorded as published only once the marketplace has
\* shown one: setReviewReplyPublishState and its sibling write by id, after the
\* row may have been rewritten, queued, retried or fetched by somebody else.
THEOREM OnlyAccepted == Spec => []PublishedWasAccepted
<1>1. Init => AcceptInv
  BY ReplyAssumption DEF Init, AcceptInv
<1>2. AcceptInv => PublishedWasAccepted
  BY DEF AcceptInv, PublishedWasAccepted
<1> QED BY <1>1, <1>2, AcceptStep, ReplyTypeCorrect, PTL DEF Spec

-----------------------------------------------------------------------------
(***************************************************************************)
(* Answers to questions.  On a row outside overlap one actor works at a    *)
(* time (Alone), so what it has read of the row is still so when it        *)
(* writes: TruthInv says what each kind of actor knows of the row.         *)
(***************************************************************************)

Alone(q) ==
  /\ \A p, r \in Reading(q) : p = r
  /\ Syncing(q) => Reading(q) = {}

\* A request or sweep at work on q holds the saved answer, and has had it
\* accepted when it says so.
AtWork(q) ==
  \A p \in Procs : item[p] = q =>
    /\ state[q] # "published"
    /\ pc[p] \in {"loaded", "calling", "accepted"} => copy[p] = text[q]
    /\ pc[p] = "accepted" => remote[q] = text[q]

Queued(q) ==
  \A s \in Sweeps : \A r \in rows[s] : r[1] = q =>
    state[q] # "published" /\ r[2] = text[q] /\ item[s] # q

OnPage(q) == \A f \in fetched : f[1] = q => f[2] = remote[q]

Settled(q) == state[q] = "published" /\ text[q] # NoText => remote[q] = text[q]

AnswerInv(q) == AtWork(q) /\ Queued(q) /\ OnPage(q) /\ Settled(q)

TruthInv == \A q \in Questions : q \notin overlap => Alone(q) /\ AnswerInv(q)

LEMMA AtMostOne ==
  ASSUME NEW S, IsFiniteSet(S), Cardinality(S) <= 1
  PROVE  \A a, b \in S : a = b
<1> SUFFICES ASSUME NEW a \in S, NEW b \in S PROVE a = b
  OBVIOUS
<1>1. /\ IsFiniteSet(S \ {a})
      /\ Cardinality(S \ {a}) = Cardinality(S) - 1
  BY FS_RemoveElement
<1>2. Cardinality(S) \in Nat /\ Cardinality(S \ {a}) \in Nat
  BY <1>1, FS_CardinalityType
<1>3. Cardinality(S \ {a}) = 0
  BY <1>1, <1>2
<1>4. S \ {a} = {}
  BY <1>1, <1>3, FS_EmptySet
<1> QED BY <1>4

\* A step that adds no mark to overlap leaves at most one actor on the row.
LEMMA AloneAfter ==
  ASSUME Next, NEW q \in Items, q \notin overlap'
  PROVE  q \notin overlap /\ Alone(q)'
<1> DEFINE R == Reading(q)'
           n == IF Syncing(q)' THEN 1 ELSE 0
<1>1. q \notin overlap /\ ~(Cardinality(R) + n > 1)
  BY DEF Next
<1>2. IsFiniteSet(Procs)
  BY ReplyAssumption, FS_Union DEF Procs
<1>3. R \subseteq Procs
  BY DEF Reading, Procs
<1>4. IsFiniteSet(R) /\ Cardinality(R) \in Nat
  BY <1>2, <1>3, FS_Subset, FS_CardinalityType
<1>5. Syncing(q)' => n = 1
  OBVIOUS
<1>6. n \in {0, 1}
  OBVIOUS
<1> HIDE DEF n, R
<1>7. Cardinality(R) <= 1
  BY <1>1, <1>4, <1>6
<1>8. \A p, r \in R : p = r
  BY <1>4, <1>7, AtMostOne
<1>9. Syncing(q)' => R = {}
  <2> SUFFICES ASSUME Syncing(q)' PROVE Cardinality(R) = 0
    BY <1>4, FS_EmptySet
  <2> QED BY <1>1, <1>4, <1>5
<1> QED BY <1>1, <1>8, <1>9 DEF Alone, R

\* A step that leaves row q alone, or works on another.
LEMMA AnswerStill ==
  ASSUME NEW q \in Questions, AnswerInv(q),
         text'[q] = text[q], state'[q] = state[q], remote'[q] = remote[q],
         \A p \in Procs : item'[p] = q =>
           /\ item[p] = q /\ copy'[p] = copy[p]
           /\ pc'[p] = "accepted" => pc[p] = "accepted"
           /\ pc'[p] \in {"loaded", "calling"} => pc[p] \in {"loaded", "calling"},
         \A s \in Sweeps : rows'[s] \subseteq rows[s],
         fetched' \subseteq fetched
  PROVE  AnswerInv(q)'
<1>1. AtWork(q)'
  BY DEF AnswerInv, AtWork
<1>2. Queued(q)'
  BY DEF AnswerInv, Queued, Procs
<1>3. OnPage(q)' /\ Settled(q)'
  BY DEF AnswerInv, OnPage, Settled
<1> QED BY <1>1, <1>2, <1>3 DEF AnswerInv

\* Nobody else is at the row of the process at work on it.
LEMMA NobodyElse ==
  ASSUME TypeOK, NEW q \in Questions, Alone(q), AnswerInv(q),
         NEW p \in Procs, item[p] = q
  PROVE  /\ \A r \in Procs : item[r] = q => r = p
         /\ \A s \in Sweeps : \A r \in rows[s] : r[1] # q
         /\ \A f \in fetched : f[1] # q
<1>1. p \in Reading(q)
  BY DEF Reading
<1>2. \A f \in fetched : f[1] # q
  BY <1>1 DEF Alone, Syncing
<1>3. \A r \in Procs : item[r] = q => r = p
  BY <1>1 DEF Alone, Reading
<1>4. ASSUME NEW s \in Sweeps, NEW r \in rows[s], r[1] = q PROVE FALSE
  <2>1. s \in Reading(q)
    BY <1>4 DEF Reading
  <2>2. s = p
    BY <1>1, <2>1 DEF Alone
  <2> QED BY <1>4, <2>2 DEF AnswerInv, Queued
<1> QED BY <1>2, <1>3, <1>4

LEMMA AnswerRequest ==
  ASSUME TypeOK, NEW q \in Questions, Alone(q)', AnswerInv(q), Alone(q),
         NEW a \in Admins, Request(a)
  PROVE  AnswerInv(q)'
<1> USE AdminInProcs
<1> ItemsTypeOK /\ ProcTypeOK /\ q \in Items /\ q # NoItem
  BY TypeParts, ReplyAssumption DEF Items
<1>1. ASSUME NEW i \in Reviews, NEW t \in Texts \cup {NoText}, SetReviewReply(a, i, t)
      PROVE  AnswerInv(q)'
  <2>1. i # q /\ i \in Items
    BY ReplyAssumption DEF Items
  <2>2. text'[q] = text[q] /\ state'[q] = state[q] /\ remote'[q] = remote[q]
    BY <1>1, <2>1 DEF SetReviewReply, Save, ItemsTypeOK
  <2>3. \A p \in Procs : item'[p] = q =>
          item[p] = q /\ copy'[p] = copy[p] /\ pc'[p] = pc[p]
    BY <1>1, <2>1 DEF SetReviewReply, Take, proc, ProcTypeOK
  <2> QED BY <1>1, <2>2, <2>3, AnswerStill DEF SetReviewReply, sweep
<1>2. ASSUME NEW i \in Questions, NEW t \in Texts \cup {NoText},
             SetQuestionAnswer(a, i, t), i # q
      PROVE  AnswerInv(q)'
  <2>2. text'[q] = text[q] /\ state'[q] = state[q] /\ remote'[q] = remote[q]
    BY <1>2 DEF SetQuestionAnswer, Save, ItemsTypeOK
  <2>3. \A p \in Procs : item'[p] = q =>
          item[p] = q /\ copy'[p] = copy[p] /\ pc'[p] = pc[p]
    BY <1>2 DEF SetQuestionAnswer, Take, ProcTypeOK
  <2> QED BY <1>2, <2>2, <2>3, AnswerStill DEF SetQuestionAnswer, sweep
<1>3. ASSUME NEW t \in Texts \cup {NoText}, SetQuestionAnswer(a, q, t)
      PROVE  AnswerInv(q)'
  <2>1. /\ state' = [state EXCEPT ![q] = "pending"]
        /\ Take(a, q, "saved", NoText)
        /\ UNCHANGED <<remote, rows, fetched>>
    BY <1>3 DEF SetQuestionAnswer, sweep
  <2>2. /\ item'[a] = q /\ pc'[a] = "saved" /\ state'[q] = "pending"
        /\ \A p \in Procs : p # a => item'[p] = item[p] /\ pc'[p] = pc[p]
    BY <2>1 DEF Take, ProcTypeOK, ItemsTypeOK
  <2>3. a \in Reading(q)'
    BY <2>2 DEF Reading
  <2>4. \A p \in Procs : item'[p] = q => p = a
    BY <2>3 DEF Alone, Reading
  <2>5. ASSUME NEW s \in Sweeps, NEW r \in rows'[s] PROVE r[1] # q
    <3>1. r[1] = q => s \in Reading(q)'
      BY <2>5 DEF Reading
    <3>2. a # s
      BY ReplyAssumption
    <3> QED BY <2>3, <3>1, <3>2 DEF Alone
  <2>6. \A f \in fetched' : f[1] # q
    BY <2>3 DEF Alone, Syncing
  <2> QED BY <2>2, <2>4, <2>5, <2>6 DEF AnswerInv, AtWork, Queued, OnPage, Settled
<1>4. ASSUME NEW i \in Items, RetryPublish(a, i) PROVE AnswerInv(q)'
  <2>1. CASE i = q
    <3>1. /\ state[q] # "published" /\ Take(a, q, "loaded", text[q])
          /\ UNCHANGED <<text, state, remote, rows, fetched>>
      BY <1>4, <2>1 DEF RetryPublish, row, sweep
    <3>2. /\ item'[a] = q /\ pc'[a] = "loaded" /\ copy'[a] = text[q]
          /\ \A p \in Procs : p # a => item'[p] = item[p] /\ pc'[p] = pc[p]
                                       /\ copy'[p] = copy[p]
      BY <3>1 DEF Take, ProcTypeOK
    <3>3. a \notin Sweeps
      BY ReplyAssumption
    <3>4. AtWork(q)' /\ Queued(q)'
      BY <3>1, <3>2, <3>3 DEF AnswerInv, AtWork, Queued, Procs
    <3>5. OnPage(q)' /\ Settled(q)'
      BY <3>1 DEF AnswerInv, OnPage, Settled
    <3> QED BY <3>4, <3>5 DEF AnswerInv
  <2>2. CASE i # q
    <3>1. \A p \in Procs : item'[p] = q =>
            item[p] = q /\ copy'[p] = copy[p] /\ pc'[p] = pc[p]
      BY <1>4, <2>2 DEF RetryPublish, Take, ProcTypeOK
    <3> QED BY <1>4, <3>1, AnswerStill DEF RetryPublish, row, sweep
  <2> QED BY <2>1, <2>2
<1>5. CASE ReadBack(a)
  <2>1. /\ pc[a] = "saved" /\ Take(a, item[a], "loaded", text[item[a]])
        /\ UNCHANGED <<text, state, remote, rows, fetched>>
    BY <1>5 DEF ReadBack, row, sweep
  <2>2. /\ item' = item /\ pc'[a] = "loaded" /\ copy'[a] = text[item[a]]
        /\ \A p \in Procs : p # a => pc'[p] = pc[p] /\ copy'[p] = copy[p]
    BY <2>1 DEF Take, ProcTypeOK
  <2>3. AtWork(q)'
    BY <2>1, <2>2 DEF AnswerInv, AtWork
  <2>4. Queued(q)' /\ OnPage(q)' /\ Settled(q)'
    BY <2>1, <2>2 DEF AnswerInv, Queued, OnPage, Settled
  <2> QED BY <2>3, <2>4 DEF AnswerInv
<1>6. CASE RequestCancelled(a)
  <2>1. pc[a] # "idle" /\ Leave(a) /\ UNCHANGED <<text, state, rows, fetched>>
    BY <1>6 DEF RequestCancelled, row, sweep
  <2>5. remote' = remote \/ remote' = Shown(a)
    BY <1>6 DEF RequestCancelled
  <2>2. \A p \in Procs : item'[p] = q =>
          p # a /\ item[p] = q /\ copy'[p] = copy[p] /\ pc'[p] = pc[p]
    BY <2>1 DEF Leave, ProcTypeOK
  <2>3. CASE item[a] # q
    <3>1. remote'[q] = remote[q]
      BY <2>1, <2>3, <2>5, ShownKeeps
    <3> QED BY <2>1, <2>2, <3>1, AnswerStill
  <2>4. CASE item[a] = q
    BY <2>1, <2>2, <2>4, NobodyElse
    DEF AnswerInv, AtWork, Queued, OnPage, Settled
  <2> QED BY <2>3, <2>4
<1> QED BY <1>1, <1>2, <1>3, <1>4, <1>5, <1>6 DEF Request

LEMMA AnswerSweep ==
  ASSUME TypeOK, NEW q \in Questions, Alone(q), AnswerInv(q),
         NEW s \in Sweeps, Sweep(s)
  PROVE  AnswerInv(q)'
<1> USE AdminInProcs
<1> ItemsTypeOK /\ ProcTypeOK /\ SweepTypeOK /\ q \in Items /\ q # NoItem
  BY TypeParts, ReplyAssumption DEF Items
<1>1. CASE SweepEnds(s)
  BY <1>1, AnswerStill DEF SweepEnds, row, proc
<1>2. CASE RetryPendingReplies(s)
  <2>1. /\ UNCHANGED <<text, state, remote, item, pc, copy, fetched>>
        /\ \/ rows' = [rows EXCEPT ![s] = Queue(Reviews)]
           \/ rows' = [rows EXCEPT ![s] = {}]
    BY <1>2 DEF RetryPendingReplies, Load, row, proc
  <2>2. \A r \in Queue(Reviews) : r[1] # q
    BY ReplyAssumption DEF Queue
  <2>3. \A w \in Sweeps : \A r \in rows'[w] : r[1] = q => r \in rows[w]
    BY <2>1, <2>2 DEF SweepTypeOK
  <2>4. AtWork(q)' /\ Queued(q)'
    BY <2>1, <2>3 DEF AnswerInv, AtWork, Queued
  <2> QED BY <2>1, <2>4 DEF AnswerInv, OnPage, Settled
<1>3. CASE RetryPendingQuestionAnswers(s)
  <2>1. /\ UNCHANGED <<text, state, remote, item, pc, copy, fetched>>
        /\ \/ rows' = [rows EXCEPT ![s] = Queue(Questions)]
           \/ rows' = [rows EXCEPT ![s] = {}]
        /\ item[s] = NoItem
    BY <1>3 DEF RetryPendingQuestionAnswers, Load, row, proc, ProcTypeOK
  <2>2. ASSUME NEW r \in Queue(Questions), r[1] = q
        PROVE  r[2] = text[q] /\ state[q] # "published"
    <3>1. PICK i \in Questions : r = <<i, text[i]>> /\ NeedsPublish(i)
      BY DEF Queue
    <3>2. i = q /\ r[2] = text[i]
      BY <2>2, <3>1
    <3> QED BY <3>1, <3>2 DEF NeedsPublish
  <2>3. \A w \in Sweeps : \A r \in rows'[w] :
          r \in rows[w] \/ (w = s /\ r \in Queue(Questions))
    BY <2>1 DEF SweepTypeOK
  <2>4. Queued(q)'
    BY <2>1, <2>2, <2>3 DEF AnswerInv, Queued
  <2>5. AtWork(q)'
    BY <2>1 DEF AnswerInv, AtWork
  <2> QED BY <2>1, <2>4, <2>5 DEF AnswerInv, OnPage, Settled
<1>4. CASE TakeRow(s)
  <2>1. PICK r \in rows[s] : /\ Take(s, r[1], "loaded", r[2])
                             /\ rows' = [rows EXCEPT ![s] = @ \ {r}]
    BY <1>4 DEF TakeRow
  <2>2. UNCHANGED <<text, state, remote, fetched>>
    BY <1>4 DEF TakeRow, row
  <2>3. /\ \A w \in Sweeps : rows'[w] \subseteq rows[w]
        /\ r \notin rows'[s] /\ r = <<r[1], r[2]>>
        /\ \A e \in rows[s] : e = <<e[1], e[2]>>
    BY <2>1 DEF SweepTypeOK
  <2>4. /\ item'[s] = r[1] /\ pc'[s] = "loaded" /\ copy'[s] = r[2]
        /\ \A p \in Procs : p # s => item'[p] = item[p] /\ pc'[p] = pc[p]
                                     /\ copy'[p] = copy[p]
    BY <2>1 DEF Take, ProcTypeOK
  <2>5. CASE r[1] # q
    BY <2>2, <2>3, <2>4, <2>5, AnswerStill
  <2>6. CASE r[1] = q
    <3>1. r[2] = text[q] /\ state[q] # "published"
      BY <2>6 DEF AnswerInv, Queued
    <3>2. AtWork(q)'
      BY <2>2, <2>4, <2>6, <3>1 DEF AnswerInv, AtWork
    <3>3. \A e \in rows'[s] : e[1] # q
      BY <2>3, <2>6, <3>1 DEF AnswerInv, Queued
    <3>4. Queued(q)'
      BY <2>2, <2>3, <2>4, <3>3 DEF AnswerInv, Queued
    <3> QED BY <2>2, <3>2, <3>4 DEF AnswerInv, OnPage, Settled
  <2> QED BY <2>5, <2>6
<1> QED BY <1>1, <1>2, <1>3, <1>4 DEF Sweep

LEMMA AnswerAttempt ==
  ASSUME TypeOK, NEW q \in Questions, Alone(q), AnswerInv(q),
         NEW p \in Procs, Attempt(p)
  PROVE  AnswerInv(q)'
<1> ItemsTypeOK /\ ProcTypeOK /\ q \in Items /\ q # NoItem
  BY TypeParts, ReplyAssumption DEF Items
<1>1. CASE ReadSetting(p)
  <2>1. /\ pc[p] = "loaded" /\ UNCHANGED <<text, state, remote, item, copy, rows, fetched>>
        /\ \/ pc' = [pc EXCEPT ![p] = "calling"]
           \/ pc' = [pc EXCEPT ![p] = "refused"]
    BY <1>1 DEF ReadSetting, Goto, row, sweep
  <2>2. \A r \in Procs : /\ pc'[r] = "accepted" => pc[r] = "accepted"
                         /\ pc'[r] \in {"loaded", "calling"}
                              => pc[r] \in {"loaded", "calling"}
    BY <2>1 DEF ProcTypeOK
  <2> QED BY <2>1, <2>2, AnswerStill
<1>2. ASSUME CallSucceeds(p) \/ CallFails(p), item[p] # q PROVE AnswerInv(q)'
  <2>1. /\ pc[p] = "calling" /\ UNCHANGED <<text, state, item, copy, rows, fetched>>
        /\ remote' = remote \/ remote' = Shown(p)
        /\ \A r \in Procs : r # p => pc'[r] = pc[r]
    BY <1>2 DEF CallSucceeds, CallFails, Goto, row, sweep, ProcTypeOK
  <2>2. remote'[q] = remote[q]
    BY <1>2, <2>1, ShownKeeps
  <2> QED BY <1>2, <2>1, <2>2, AnswerStill
<1>3. ASSUME CallSucceeds(p) \/ CallFails(p), item[p] = q PROVE AnswerInv(q)'
  <2>1. /\ pc[p] = "calling" /\ UNCHANGED <<text, state, item, copy, rows, fetched>>
        /\ pc'[p] = "errored" \/ (pc'[p] = "accepted" /\ remote' = Shown(p))
        /\ \A r \in Procs : r # p => pc'[r] = pc[r]
    BY <1>3 DEF CallSucceeds, CallFails, Goto, row, sweep, ProcTypeOK
  <2>2. copy[p] = text[q] /\ state[q] # "published"
    BY <1>3, <2>1 DEF AnswerInv, AtWork
  <2>3. pc'[p] = "accepted" => remote'[q] = text[q]
    BY <1>3, <2>1, <2>2, ShownKeeps
  <2>4. AtWork(q)'
    BY <1>3, <2>1, <2>2, <2>3, NobodyElse DEF AtWork
  <2>5. Queued(q)' /\ OnPage(q)' /\ Settled(q)'
    BY <1>3, <2>1, <2>2, NobodyElse DEF Queued, OnPage, Settled
  <2> QED BY <2>4, <2>5 DEF AnswerInv
<1>4. CASE SetPublishState(p) \/ SetPublishStateFails(p)
  <2>1. /\ pc[p] # "idle" /\ Leave(p) /\ UNCHANGED <<text, remote, rows, fetched>>
        /\ \/ state' = state
           \/ state' = [state EXCEPT ![item[p]] = Outcome(p)]
        /\ Outcome(p) = "published" => pc[p] = "accepted"
    BY <1>4 DEF SetPublishState, SetPublishStateFails, row, sweep, Outcome
  <2>2. \A r \in Procs : item'[r] = q =>
          r # p /\ item[r] = q /\ copy'[r] = copy[r] /\ pc'[r] = pc[r]
    BY <2>1 DEF Leave, ProcTypeOK
  <2>3. CASE item[p] # q
    <3>1. state'[q] = state[q]
      BY <2>1, <2>3 DEF ItemsTypeOK
    <3> QED BY <2>1, <2>2, <3>1, AnswerStill
  <2>4. CASE item[p] = q
    <3>1. state'[q] = "published" => state[q] = "published" \/ pc[p] = "accepted"
      BY <2>1, <2>4 DEF ItemsTypeOK
    <3>2. AtWork(q)' /\ Queued(q)' /\ OnPage(q)'
      BY <2>1, <2>2, <2>4, NobodyElse DEF AtWork, Queued, OnPage
    <3>3. Settled(q)'
      BY <2>1, <2>4, <3>1 DEF AnswerInv, AtWork, Settled
    <3> QED BY <3>2, <3>3 DEF AnswerInv
  <2> QED BY <2>3, <2>4
<1> QED BY <1>1, <1>2, <1>3, <1>4 DEF Attempt

LEMMA AnswerOther ==
  ASSUME TypeOK, NEW q \in Questions, Alone(q), AnswerInv(q),
         TogglePublishing \/ ServerRestart \/ FetchQuestions \/ UpsertQuestion
  PROVE  AnswerInv(q)'
<1> ItemsTypeOK /\ q \in Items /\ q # NoItem
  BY TypeParts, ReplyAssumption DEF Items
<1>1. CASE TogglePublishing
  BY <1>1, AnswerStill DEF TogglePublishing, row, proc, sweep
<1>2. CASE ServerRestart
  <2>1. /\ \A p \in Procs : item'[p] = NoItem
        /\ \A s \in Sweeps : rows'[s] = {}
        /\ fetched' = {} /\ UNCHANGED <<text, state, remote>>
    BY <1>2 DEF ServerRestart, row
  <2> QED BY <2>1 DEF AnswerInv, AtWork, Queued, OnPage, Settled
<1>3. CASE FetchQuestions
  <2>1. UNCHANGED <<text, state, remote, item, pc, copy, rows>>
    BY <1>3 DEF FetchQuestions, row, proc, sweep
  <2>2. OnPage(q)'
    BY <1>3, <2>1 DEF FetchQuestions, Answered, OnPage
  <2> QED BY <2>1, <2>2 DEF AnswerInv, AtWork, Queued, Settled
<1>4. CASE UpsertQuestion
  <2>1. PICK r \in fetched : /\ text' = [text EXCEPT ![r[1]] = r[2]]
                             /\ state' = [state EXCEPT ![r[1]] = r[3]]
                             /\ fetched' = fetched \ {r}
    BY <1>4 DEF UpsertQuestion
  <2>2. UNCHANGED <<remote, item, pc, copy, rows>>
    BY <1>4 DEF UpsertQuestion, proc, sweep
  <2>3. CASE r[1] # q
    <3>1. text'[q] = text[q] /\ state'[q] = state[q]
      BY <2>1, <2>3 DEF ItemsTypeOK
    <3> QED BY <2>1, <2>2, <3>1, AnswerStill
  <2>4. CASE r[1] = q
    <3>1. Syncing(q) /\ Reading(q) = {}
      BY <2>4 DEF Syncing, Alone
    <3>2. /\ \A p \in Procs : item[p] # q
          /\ \A s \in Sweeps : \A e \in rows[s] : e[1] # q
      BY <3>1 DEF Reading
    <3>3. text'[q] = r[2] /\ remote[q] = r[2]
      BY <2>1, <2>4 DEF ItemsTypeOK, AnswerInv, OnPage
    <3>4. OnPage(q)'
      BY <2>1, <2>2 DEF AnswerInv, OnPage
    <3> QED BY <2>2, <3>2, <3>3, <3>4 DEF AnswerInv, AtWork, Queued, Settled
  <2> QED BY <2>3, <2>4
<1> QED BY <1>1, <1>2, <1>3, <1>4

LEMMA TruthStep == TypeOK /\ TruthInv /\ [Next]_vars => TruthInv'
<1> SUFFICES ASSUME TypeOK, TruthInv, [Next]_vars,
                    NEW q \in Questions, q \notin overlap'
             PROVE  Alone(q)' /\ AnswerInv(q)'
  BY DEF TruthInv
<1>1. CASE Next
  <2>1. q \notin overlap /\ Alone(q)'
    BY <1>1, AloneAfter DEF Items
  <2>2. Alone(q) /\ AnswerInv(q)
    BY <2>1 DEF TruthInv
  <2>3. AnswerInv(q)'
    BY <1>1, <2>1, <2>2, AnswerRequest, AnswerSweep, AnswerAttempt, AnswerOther
    DEF Next, Step
  <2> QED BY <2>1, <2>3
<1>2. CASE UNCHANGED vars
  <2>1. UNCHANGED <<text, state, remote, item, pc, copy, rows, fetched, overlap>>
    BY <1>2 DEF vars, row, proc, sweep
  <2>2. Alone(q) /\ AnswerInv(q)
    BY <2>1 DEF TruthInv
  <2>3. Alone(q)'
    BY <2>1, <2>2 DEF Alone, Reading, Syncing
  <2> QED BY <2>1, <2>2, <2>3 DEF AnswerInv, AtWork, Queued, OnPage, Settled
<1> QED BY <1>1, <1>2

\* An answer to a question on which no two actors worked at once is never
\* recorded as published while the marketplace shows another text, whatever is
\* refused, lost, cancelled or cut short: SetQuestionAnswer stores the text and
\* "pending" in one transaction, and only the call's own outcome changes it.
THEOREM AnswersTruthful == Spec => []AnswerStateTruthful
<1>1. Init => TruthInv
  <2> SUFFICES ASSUME Init, NEW q \in Questions PROVE Alone(q) /\ AnswerInv(q)
    BY DEF TruthInv
  <2>1. /\ \A p \in Procs : item[p] # q
        /\ \A s \in Sweeps : rows[s] = {}
        /\ fetched = {} /\ text[q] = NoText
    BY ReplyAssumption DEF Init, Items
  <2> QED BY <2>1
    DEF Alone, Reading, Syncing, AnswerInv, AtWork, Queued, OnPage, Settled
<1>2. TruthInv => AnswerStateTruthful
  BY DEF TruthInv, AnswerInv, Settled, AnswerStateTruthful, Truthful
<1> QED BY <1>1, <1>2, TruthStep, ReplyTypeCorrect, PTL DEF Spec

=============================================================================
