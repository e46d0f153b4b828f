------------------------ MODULE WidgetWriting_proofs ------------------------
(***************************************************************************)
(* Theorems about WidgetWriting, for every text, every configuration and   *)
(* every bound.                                                            *)
(***************************************************************************)
EXTENDS WidgetWriting, SequenceTheorems, TLAPS

-----------------------------------------------------------------------------
(* Type correctness, by what the steps leave alone: the page, the forms,     *)
(* what was sent, and the counters.                                          *)

Drafts == Fields \cup {Nothing}
Sections == [kind : {"none", "cta", "form", "done"}, text : Fields]
Modals == [kind : {"none", "form", "done"}, text : Fields]
Submissions == [text : Texts, media : Nat, limit : Nat]
Questioning == [expanded : BOOLEAN, text : Fields, sent : BOOLEAN]

PageOK ==
    /\ mounted \in BOOLEAN /\ config \in Configs
    /\ tab \in {"reviews", "questions"} /\ dialog \in BOOLEAN
    /\ service \in {"loading", "open", "closed", "failed"}

FormsOK == draft \in Drafts /\ inline \in Sections /\ modal \in Modals /\ done \in BOOLEAN

PickedOK == rated \in BOOLEAN /\ media \in 0 .. MaxFiles

SentOK == posted \in Seq(Submissions) /\ typed \in Drafts

QuestionsOK ==
    questions \in {"none", "loading", "loaded", "failed"} /\ asked \in Texts \cup {Nothing}

LEMMA TypeParts ==
    TypeOK <=> /\ PageOK /\ FormsOK /\ PickedOK /\ SentOK /\ QuestionsOK
               /\ asking \in Questioning /\ changes \in 0 .. MaxChanges
BY DEF TypeOK, PageOK, FormsOK, PickedOK, SentOK, QuestionsOK, Drafts, Sections, Modals,
       Submissions, Questioning

LEMMA TypePartsAfter ==
    PageOK' /\ FormsOK' /\ PickedOK' /\ SentOK' /\ QuestionsOK'
    /\ asking' \in Questioning /\ changes' \in 0 .. MaxChanges
        => TypeOK'
BY DEF TypeOK, PageOK, FormsOK, PickedOK, SentOK, QuestionsOK, Drafts, Sections, Modals,
       Submissions, Questioning

LEMMA NoFilesYet == 0 \in 0 .. MaxFiles /\ 0 \in 0 .. MaxChanges
BY WritingAssumption

LEMMA NoneTypes == None \in Sections /\ None \in Modals
BY DEF None, Node, Sections, Modals, Fields

\* What the operators on the draft and the forms return.
LEMMA SavedType ==
    ASSUME NEW d \in Drafts, NEW n \in Sections, NEW m \in Modals, NEW fd \in BOOLEAN
    PROVE  SaveFormDraft(d, n, m, fd) \in Drafts
BY DEF SaveFormDraft, Drafts, Sections, Modals

LEMMA RestoredType ==
    ASSUME NEW d \in Drafts
    PROVE  /\ \A n \in Sections : RestoreFormDraft(n, d) \in Sections
           /\ \A n \in Modals : RestoreFormDraft(n, d) \in Modals
BY DEF RestoreFormDraft, Drafts, Sections, Modals

LEMMA ModalType ==
    ASSUME NEW d \in Drafts, NEW fd \in BOOLEAN
    PROVE  RenderFormModal(fd, d) \in Modals
<1>1. Node("form", Empty) \in Modals /\ Node("done", Empty) \in Modals
  BY DEF Node, Modals, Fields
<1> QED BY <1>1, RestoredType DEF RenderFormModal

\* The section holds nothing, the button, the thanks or a form.
LEMMA SectionCases ==
    ASSUME NEW n, NEW m, NEW fd, NEW d, NEW restore
    PROVE  \/ RenderSubmission(n, m, fd, d, restore) = None
           \/ RenderSubmission(n, m, fd, d, restore) = Node("done", Empty)
              /\ fd /\ m.kind = "none"
           \/ RenderSubmission(n, m, fd, d, restore) = Node("cta", Empty)
           \/ RenderSubmission(n, m, fd, d, restore) = RestoreFormDraft(Node("form", Empty), d)
              /\ n.kind # "form" /\ ~(fd /\ m.kind = "none")
           \/ RenderSubmission(n, m, fd, d, restore) = RestoreFormDraft(n, d)
              /\ n.kind = "form" /\ restore /\ ~(fd /\ m.kind = "none")
           \/ RenderSubmission(n, m, fd, d, restore) = n
              /\ n.kind = "form" /\ ~restore /\ ~(fd /\ m.kind = "none")
BY DEF RenderSubmission

LEMMA SectionType ==
    ASSUME NEW n \in Sections, NEW m, NEW fd, NEW d \in Drafts, NEW restore
    PROVE  RenderSubmission(n, m, fd, d, restore) \in Sections
<1>1. Node("form", Empty) \in Sections /\ Node("done", Empty) \in Sections
      /\ Node("cta", Empty) \in Sections
  BY DEF Node, Sections, Fields
<1> QED BY <1>1, NoneTypes, RestoredType, SectionCases

LEMMA QuestionNodeType ==
    ASSUME NEW a \in Questioning
    PROVE  QuestionNode(a) \in Questioning
BY DEF QuestionNode, Questioning, Fields

LEMMA RenderType ==
    ASSUME NEW n \in Sections, NEW m \in Modals, NEW fd \in BOOLEAN, NEW d \in Drafts,
           NEW a \in Questioning, Render(n, m, fd, d, a)
    PROVE  FormsOK' /\ asking' \in Questioning
<1>1. modal' = m /\ done' = fd
  BY DEF Render
<1>2. asking' \in Questioning
  BY QuestionNodeType DEF Render
<1>3. CASE tab' = "reviews" /\ ~dialog'
  <2>1. draft' = SaveFormDraft(d, n, m, fd) /\ inline' = RenderSubmission(n, m, fd, draft', FALSE)
    BY <1>3 DEF Render
  <2>2. draft' \in Drafts
    BY <2>1, SavedType
  <2>3. inline' \in Sections
    BY <2>1, <2>2, SectionType
  <2> QED BY <1>1, <1>2, <2>2, <2>3 DEF FormsOK
<1>4. CASE ~(tab' = "reviews" /\ ~dialog')
  <2>1. draft' = d /\ inline' = n
    BY <1>4 DEF Render
  <2> QED BY <1>1, <1>2, <2>1 DEF FormsOK
<1> QED BY <1>3, <1>4

LEMMA RenderedType ==
    ASSUME FormsOK, asking \in Questioning, Rendered
    PROVE  FormsOK' /\ asking' \in Questioning
BY RenderType DEF FormsOK, Rendered

LEMMA TypeInit == Init => TypeOK
<1> SUFFICES ASSUME Init PROVE TypeOK
  OBVIOUS
<1>1. 0 \in 0 .. MaxFiles /\ 0 \in 0 .. MaxChanges
  BY NoFilesYet
<1>2. PageOK /\ FormsOK /\ PickedOK /\ QuestionsOK
  BY <1>1, NoneTypes DEF Init, PageOK, FormsOK, PickedOK, QuestionsOK, Drafts
<1>3. SentOK
  BY DEF Init, SentOK, Drafts
<1>4. asking \in Questioning
  BY DEF Init, Questioning, Fields
<1> QED BY <1>1, <1>2, <1>3, <1>4, TypeParts DEF Init

LEMMA MoreChanges ==
    ASSUME changes \in 0 .. MaxChanges, Change PROVE changes' \in 0 .. MaxChanges
BY WritingAssumption DEF Change

LEMMA ClosedType ==
    ASSUME FormsOK, asking \in Questioning, NEW fd \in BOOLEAN, NEW again,
           ClosedModal(fd, again)
    PROVE  FormsOK' /\ asking' \in Questioning
<1> DEFINE saved == SaveFormDraft(draft, inline, modal, fd)
           n     == RenderSubmission(inline, None, FALSE, saved, TRUE)
<1>1. saved \in Drafts
  BY SavedType DEF FormsOK
<1>2. n \in Sections
  <2> HIDE DEF saved
  <2> QED BY <1>1, SectionType DEF FormsOK
<1>3. \/ Render(n, None, FALSE, saved, asking)
      \/ modal' = None /\ done' = FALSE /\ draft' = saved /\ inline' = n /\ asking' = asking
  BY DEF ClosedModal
<1> HIDE DEF saved, n
<1>4. CASE Render(n, None, FALSE, saved, asking)
  BY <1>1, <1>2, <1>4, NoneTypes, RenderType
<1>5. CASE modal' = None /\ done' = FALSE /\ draft' = saved /\ inline' = n /\ asking' = asking
  BY <1>1, <1>2, <1>5, NoneTypes DEF FormsOK
<1> QED BY <1>3, <1>4, <1>5

\* The steps of the reader in the review form.
LEMMA FormType ==
    ASSUME TypeOK, \/ \E t \in Fields : Type(t)
                   \/ Rate \/ Attach \/ Detach
                   \/ OpenFormModal \/ CloseFormModal \/ FormDone \/ FormAgain \/ SubmitReview
    PROVE  TypeOK'
<1>0. /\ PageOK /\ FormsOK /\ PickedOK /\ SentOK /\ QuestionsOK
      /\ asking \in Questioning /\ changes \in 0 .. MaxChanges
  BY TypeParts
<1>1. ASSUME UNCHANGED <<mounted, config, tab, dialog, service, questions, asked, changes>>
      PROVE  PageOK' /\ QuestionsOK' /\ changes' \in 0 .. MaxChanges
  BY <1>0, <1>1 DEF PageOK, QuestionsOK
<1>2. ASSUME StillForm, UNCHANGED changes
      PROVE  PageOK' /\ QuestionsOK' /\ asking' \in Questioning /\ changes' \in 0 .. MaxChanges
  BY <1>0, <1>1, <1>2 DEF StillForm, qa
<1>3. ASSUME NEW t \in Fields, Type(t) PROVE TypeOK'
  <2>1. FormsOK'
    <3>1. CASE modal # None
      BY <1>0, <1>3, <3>1 DEF Type, FormsOK, Modals
    <3>2. CASE modal = None
      BY <1>0, <1>3, <3>2 DEF Type, FormsOK, Sections
    <3> QED BY <3>1, <3>2
  <2>2. PickedOK' /\ SentOK'
    BY <1>0, <1>3 DEF Type, PickedOK, SentOK, Drafts
  <2> QED BY <1>2, <1>3, <2>1, <2>2, TypePartsAfter DEF Type
<1>4. ASSUME Rate \/ Attach \/ Detach PROVE TypeOK'
  <2>1. PickedOK'
    <3>1. CASE Rate
      BY <1>0, <3>1 DEF Rate, PickedOK
    <3>2. CASE Attach
      <4>1. config.maxMedia \in Nat /\ MaxFiles \in Nat
        BY <1>0, WritingAssumption DEF PageOK
      <4> QED BY <1>0, <3>2, <4>1 DEF Attach, PickedOK, MediaLimit, Least
    <3>3. CASE Detach
      BY <1>0, <3>3, WritingAssumption DEF Detach, PickedOK
    <3> QED BY <1>4, <3>1, <3>2, <3>3
  <2>2. FormsOK' /\ SentOK'
    BY <1>0, <1>4 DEF Rate, Attach, Detach, FormsOK, SentOK
  <2>3. StillForm /\ UNCHANGED changes
    BY <1>4 DEF Rate, Attach, Detach
  <2> QED BY <1>2, <2>1, <2>2, <2>3, TypePartsAfter
<1>5. CASE OpenFormModal
  <2> DEFINE saved == SaveFormDraft(draft, inline, modal, done)
  <2>1. saved \in Drafts
    BY <1>0, SavedType DEF FormsOK
  <2>2. draft' = saved /\ modal' = RenderFormModal(done, saved) /\ UNCHANGED <<inline, done>>
    BY <1>5 DEF OpenFormModal
  <2> HIDE DEF saved
  <2>3. FormsOK'
    BY <1>0, <2>1, <2>2, ModalType DEF FormsOK
  <2>4. PickedOK' /\ SentOK'
    BY <1>0, <1>5 DEF OpenFormModal, PickedOK, SentOK
  <2> QED BY <1>2, <1>5, <2>3, <2>4, TypePartsAfter DEF OpenFormModal
<1>6. CASE CloseFormModal
  <2>1. FormsOK' /\ asking' \in Questioning
    BY <1>0, <1>6, ClosedType DEF CloseFormModal, FormsOK
  <2>2. PickedOK' /\ SentOK'
    BY <1>0, <1>6 DEF CloseFormModal, PickedOK, SentOK
  <2> QED BY <1>1, <1>6, <2>1, <2>2, TypePartsAfter DEF CloseFormModal, StillPage
<1>7. CASE FormDone
  <2>1. ClosedModal(FALSE, TRUE) \/ Render(inline, modal, FALSE, draft, asking)
    BY <1>7 DEF FormDone
  <2>2. FormsOK' /\ asking' \in Questioning
    BY <1>0, <2>1, ClosedType, RenderType DEF FormsOK
  <2>3. PickedOK' /\ SentOK'
    BY <1>0, <1>7 DEF FormDone, PickedOK, SentOK
  <2> QED BY <1>1, <1>7, <2>2, <2>3, TypePartsAfter DEF FormDone, StillPage
<1>8. CASE FormAgain
  <2>1. FormsOK' /\ asking' \in Questioning
    <3>1. Nothing \in Drafts
      BY DEF Drafts
    <3>2. CASE modal # None
      BY <1>0, <1>8, <3>1, <3>2, ModalType DEF FormAgain, FormsOK
    <3>3. CASE modal = None
      BY <1>0, <1>8, <3>1, <3>3, RenderType DEF FormAgain, FormsOK
    <3> QED BY <3>2, <3>3
  <2>2. PickedOK' /\ SentOK'
    BY <1>0, <1>8, NoFilesYet DEF FormAgain, PickedOK, SentOK
  <2> QED BY <1>1, <1>8, <2>1, <2>2, TypePartsAfter DEF FormAgain, StillPage
<1>9. CASE SubmitReview
  <2>1. MediaLimit(config) \in Nat /\ media \in Nat
    BY <1>0, WritingAssumption DEF PageOK, PickedOK, MediaLimit, Least
  <2> DEFINE sent == [text |-> Reached.text, media |-> media, limit |-> MediaLimit(config)]
  <2>2. sent \in Submissions
    BY <1>9, <2>1 DEF SubmitReview, Submissions
  <2>3. SentOK'
    <3>1. posted' = Append(posted, sent) /\ typed' = typed
      BY <1>9 DEF SubmitReview
    <3> HIDE DEF sent
    <3> QED BY <1>0, <2>2, <3>1, AppendProperties DEF SentOK
  <2>4. FormsOK' /\ PickedOK'
    BY <1>0, <1>9 DEF SubmitReview, FormsOK, PickedOK, form
  <2> QED BY <1>2, <1>9, <2>3, <2>4, TypePartsAfter DEF SubmitReview
<1> QED BY <1>3, <1>4, <1>5, <1>6, <1>7, <1>8, <1>9

\* The service's answers.
LEMMA AnswerType ==
    ASSUME TypeOK, Answers PROVE TypeOK'
<1>0. /\ PageOK /\ FormsOK /\ PickedOK /\ SentOK /\ QuestionsOK
      /\ asking \in Questioning /\ changes \in 0 .. MaxChanges
  BY TypeParts
<1>1. ASSUME NEW s \in {"open", "closed", "failed"}, ServiceAnswers(s) PROVE TypeOK'
  <2>1. FormsOK' /\ asking' \in Questioning
    BY <1>0, <1>1, RenderedType DEF ServiceAnswers
  <2>2. PageOK' /\ PickedOK' /\ SentOK' /\ QuestionsOK' /\ changes' \in 0 .. MaxChanges
    BY <1>0, <1>1 DEF ServiceAnswers, PageOK, PickedOK, SentOK, QuestionsOK
  <2> QED BY <2>1, <2>2, TypePartsAfter
<1>2. ASSUME NEW ok \in BOOLEAN, SubmissionAnswered(ok) PROVE TypeOK'
  <2>1. PageOK' /\ QuestionsOK' /\ changes' \in 0 .. MaxChanges
    BY <1>0, <1>2 DEF SubmissionAnswered, PageOK, QuestionsOK
  <2>2. posted' \in Seq(Submissions)
    BY <1>0, <1>2, HeadTailProperties DEF SubmissionAnswered, SentOK
  <2>3. CASE ~mounted \/ ~ok
    <3>1. UNCHANGED <<form, typed, asking>>
      BY <1>2, <2>3 DEF SubmissionAnswered
    <3>2. FormsOK' /\ PickedOK' /\ asking' \in Questioning /\ SentOK'
      BY <1>0, <2>2, <3>1 DEF FormsOK, PickedOK, SentOK, form
    <3> QED BY <2>1, <3>2, TypePartsAfter
  <2>4. CASE mounted /\ ok
    <3>1. typed' = Nothing /\ rated' = FALSE /\ media' = 0
      BY <1>2, <2>4 DEF SubmissionAnswered
    <3>2. PickedOK' /\ SentOK'
      BY <2>2, <3>1, NoFilesYet DEF PickedOK, SentOK, Drafts
    <3>3. FormsOK' /\ asking' \in Questioning
      <4>1. Nothing \in Drafts
        BY DEF Drafts
      <4>2. CASE modal # None
        <5>1. draft' = Nothing /\ done' = TRUE /\ modal' = RenderFormModal(TRUE, Nothing)
              /\ UNCHANGED <<inline, asking>>
          BY <1>2, <2>4, <4>2 DEF SubmissionAnswered
        <5> QED BY <1>0, <4>1, <5>1, ModalType DEF FormsOK
      <4>3. CASE modal = None
        <5>1. Render(inline, modal, TRUE, Nothing, asking)
          BY <1>2, <2>4, <4>3 DEF SubmissionAnswered
        <5> QED BY <1>0, <4>1, <5>1, RenderType DEF FormsOK
      <4> QED BY <4>2, <4>3
    <3> QED BY <2>1, <3>2, <3>3, TypePartsAfter
  <2> QED BY <2>3, <2>4
<1>3. ASSUME NEW ok \in BOOLEAN, QuestionsAnswer(ok) PROVE TypeOK'
  <2>1. FormsOK' /\ asking' \in Questioning
    BY <1>0, <1>3, RenderedType DEF QuestionsAnswer
  <2>2. PageOK' /\ PickedOK' /\ SentOK' /\ QuestionsOK' /\ changes' \in 0 .. MaxChanges
    BY <1>0, <1>3 DEF QuestionsAnswer, PageOK, PickedOK, SentOK, QuestionsOK
  <2> QED BY <2>1, <2>2, TypePartsAfter
<1>4. ASSUME NEW ok \in BOOLEAN, QuestionAnswered(ok) PROVE TypeOK'
  <2> DEFINE folded == [asking EXCEPT !.expanded = FALSE, !.sent = TRUE]
  <2>1. folded \in Questioning
    BY <1>0 DEF Questioning
  <2>2. \/ Render(inline, modal, done, draft, folded)
        \/ UNCHANGED <<draft, inline, modal, done, asking>>
    BY <1>4 DEF QuestionAnswered
  <2>3. FormsOK' /\ asking' \in Questioning
    <3> HIDE DEF folded
    <3> QED BY <1>0, <2>1, <2>2, RenderType DEF FormsOK
  <2>4. PageOK' /\ PickedOK' /\ SentOK' /\ QuestionsOK' /\ changes' \in 0 .. MaxChanges
    BY <1>0, <1>4 DEF QuestionAnswered, PageOK, PickedOK, SentOK, QuestionsOK
  <2> QED BY <2>3, <2>4, TypePartsAfter
<1> QED BY <1>1, <1>2, <1>3, <1>4 DEF Answers

\* The page, the tabs and the question form.
LEMMA PageType ==
    ASSUME TypeOK, \/ SwitchTab \/ AllReviews \/ OtherRender \/ Destroy
                   \/ \E c \in Configs : UpdateConfig(c)
                   \/ \E t \in Fields : TypeQuestion(t)
                   \/ SubmitQuestion \/ ToggleQuestionForm
    PROVE  TypeOK'
<1>0. /\ PageOK /\ FormsOK /\ PickedOK /\ SentOK /\ QuestionsOK
      /\ asking \in Questioning /\ changes \in 0 .. MaxChanges
  BY TypeParts
<1>1. CASE SwitchTab
  <2>1. FormsOK' /\ asking' \in Questioning
    BY <1>0, <1>1, RenderedType DEF SwitchTab
  <2>2. PageOK' /\ PickedOK' /\ SentOK' /\ QuestionsOK' /\ changes' \in 0 .. MaxChanges
    BY <1>0, <1>1, MoreChanges DEF SwitchTab, PageOK, PickedOK, SentOK, QuestionsOK
  <2> QED BY <2>1, <2>2, TypePartsAfter
<1>2. CASE AllReviews
  <2>1. FormsOK' /\ asking' \in Questioning
    <3>1. Rendered \/ UNCHANGED <<draft, inline, modal, done, asking>>
      BY <1>2 DEF AllReviews
    <3> QED BY <1>0, <3>1, RenderedType DEF FormsOK
  <2>2. PageOK' /\ PickedOK' /\ SentOK' /\ QuestionsOK' /\ changes' \in 0 .. MaxChanges
    BY <1>0, <1>2 DEF AllReviews, PageOK, PickedOK, SentOK, QuestionsOK
  <2> QED BY <2>1, <2>2, TypePartsAfter
<1>3. CASE OtherRender
  <2>1. FormsOK' /\ asking' \in Questioning
    BY <1>0, <1>3, RenderedType DEF OtherRender
  <2>2. PageOK' /\ PickedOK' /\ SentOK' /\ QuestionsOK' /\ changes' \in 0 .. MaxChanges
    BY <1>0, <1>3 DEF OtherRender, PageOK, PickedOK, SentOK, QuestionsOK
  <2> QED BY <2>1, <2>2, TypePartsAfter
<1>4. CASE Destroy
  <2>1. FormsOK' /\ asking' \in Questioning
    BY <1>0, <1>4, NoneTypes, QuestionNodeType DEF Destroy, FormsOK
  <2>2. PageOK' /\ PickedOK' /\ SentOK' /\ QuestionsOK' /\ changes' \in 0 .. MaxChanges
    BY <1>0, <1>4, NoFilesYet DEF Destroy, PageOK, PickedOK, SentOK, QuestionsOK
  <2> QED BY <2>1, <2>2, TypePartsAfter
<1>5. ASSUME NEW c \in Configs, UpdateConfig(c) PROVE TypeOK'
  <2> DEFINE saved == SaveFormDraft(draft, inline, modal, done)
  <2>1. saved \in Drafts
    BY <1>0, SavedType DEF FormsOK
  <2>2. /\ draft' = saved /\ done' = done
        /\ inline' \in {RenderSubmission(None, None, done, saved, FALSE), None}
        /\ modal' \in {RenderFormModal(done, saved), None}
        /\ asking' = QuestionNode(asking)
    BY <1>5 DEF UpdateConfig
  <2> HIDE DEF saved
  <2>3. FormsOK' /\ asking' \in Questioning
    BY <1>0, <2>1, <2>2, NoneTypes, SectionType, ModalType, QuestionNodeType DEF FormsOK
  <2>4. PageOK' /\ PickedOK' /\ SentOK' /\ QuestionsOK' /\ changes' \in 0 .. MaxChanges
    BY <1>0, <1>5, MoreChanges DEF UpdateConfig, PageOK, PickedOK, SentOK, QuestionsOK
  <2> QED BY <2>3, <2>4, TypePartsAfter
<1>6. ASSUME StillAsking
      PROVE  PageOK' /\ FormsOK' /\ PickedOK' /\ SentOK' /\ changes' \in 0 .. MaxChanges
  BY <1>0, <1>6 DEF StillAsking, PageOK, FormsOK, PickedOK, SentOK, form
<1>7. ASSUME NEW t \in Fields, TypeQuestion(t) PROVE TypeOK'
  <2>1. asking' \in Questioning /\ QuestionsOK'
    BY <1>0, <1>7 DEF TypeQuestion, Questioning, StillAsking, QuestionsOK
  <2> QED BY <1>6, <1>7, <2>1, TypePartsAfter DEF TypeQuestion
<1>8. CASE SubmitQuestion
  <2>1. asking' \in Questioning /\ QuestionsOK'
    BY <1>0, <1>8 DEF SubmitQuestion, Questioning, StillAsking, QuestionsOK
  <2> QED BY <1>6, <1>8, <2>1, TypePartsAfter DEF SubmitQuestion
<1>9. CASE ToggleQuestionForm
  <2> DEFINE toggled == [asking EXCEPT !.expanded = ~@]
  <2>1. toggled \in Questioning
    BY <1>0 DEF Questioning
  <2>2. Render(inline, modal, done, draft, toggled)
    BY <1>9 DEF ToggleQuestionForm
  <2>3. FormsOK' /\ asking' \in Questioning
    <3> HIDE DEF toggled
    <3> QED BY <1>0, <2>1, <2>2, RenderType DEF FormsOK
  <2>4. PageOK' /\ PickedOK' /\ SentOK' /\ QuestionsOK' /\ changes' \in 0 .. MaxChanges
    BY <1>0, <1>9 DEF ToggleQuestionForm, PageOK, PickedOK, SentOK, QuestionsOK
  <2> QED BY <2>3, <2>4, TypePartsAfter
<1> QED BY <1>1, <1>2, <1>3, <1>4, <1>5, <1>7, <1>8, <1>9

LEMMA TypeStep == TypeOK /\ [Next]_vars => TypeOK'
<1> SUFFICES ASSUME TypeOK, [Next]_vars PROVE TypeOK'
  OBVIOUS
<1>1. CASE UNCHANGED vars
  BY <1>1 DEF TypeOK, vars, form, qa
<1> QED
  BY <1>1, FormType, AnswerType, PageType DEF Next, Reader

\* The widget's forms keep their types whatever is typed, sent and configured.
THEOREM TypeCorrect == Spec => []TypeOK
<1> QED BY TypeInit, TypeStep, PTL DEF Spec

-----------------------------------------------------------------------------
(* What is on its way keeps the limits of the moment it was sent.            *)

LEMMA PostedStep ==
    [Next]_vars => \/ posted' = posted
                   \/ SubmitReview
                   \/ posted # <<>> /\ posted' = Tail(posted)
BY DEF Next, vars, Reader, Answers, Type, TypeQuestion, Rate, Attach, Detach, OpenFormModal,
       CloseFormModal, FormDone, FormAgain, SubmitQuestion, ToggleQuestionForm, SwitchTab,
       AllReviews, ServiceAnswers, SubmissionAnswered, QuestionsAnswer, QuestionAnswered,
       OtherRender, UpdateConfig, Destroy, StillAsking

LEMMA FitStep ==
    ASSUME TypeOK, AttachmentsFit, [Next]_vars
    PROVE  AttachmentsFit'
<1>0. posted \in Seq(Submissions)
  BY TypeParts DEF SentOK
<1>1. CASE posted' = posted
  BY <1>1 DEF AttachmentsFit
<1>2. CASE SubmitReview
  <2> DEFINE sent == [text |-> Reached.text, media |-> media, limit |-> MediaLimit(config)]
  <2>1. posted = <<>> /\ posted' = Append(posted, sent) /\ Submittable
    BY <1>2 DEF SubmitReview
  <2>2. sent.media <= sent.limit
    BY <2>1 DEF Submittable
  <2> HIDE DEF sent
  <2>3. posted' = <<sent>>
    BY <2>1
  <2> QED BY <2>2, <2>3 DEF AttachmentsFit
<1>3. CASE posted # <<>> /\ posted' = Tail(posted)
  <2>1. Len(posted') = Len(posted) - 1 /\ \A i \in 1 .. Len(posted') : posted'[i] = posted[i + 1]
    BY <1>0, <1>3, HeadTailProperties
  <2>2. ASSUME NEW i \in 1 .. Len(posted') PROVE posted'[i].media <= posted'[i].limit
    <3>1. i + 1 \in 1 .. Len(posted)
      BY <1>0, <2>1, LenProperties
    <3> QED BY <2>1, <3>1 DEF AttachmentsFit
  <2> QED BY <2>2 DEF AttachmentsFit
<1> QED BY <1>1, <1>2, <1>3, PostedStep

\* Every submission fits the limits it was sent under, though the shop may have
\* lowered its own between the picking and the sending.
THEOREM SubmissionsFit == Spec => []WritingInv
<1>1. Init => AttachmentsFit
  BY DEF Init, AttachmentsFit
<1>2. Spec => []AttachmentsFit
  BY <1>1, FitStep, TypeCorrect, PTL DEF Spec
<1>3. TypeOK /\ AttachmentsFit => WritingInv
  BY DEF WritingInv
<1> QED BY <1>2, <1>3, TypeCorrect, PTL

-----------------------------------------------------------------------------
(* The draft.  What the reader typed is in the form before him, and after a  *)
(* thanks there is nothing to keep: an open modal thanks exactly while       *)
(* formDone is set, and without a modal so does the page.                    *)

ModalShape(m, fd) == m = None \/ m.kind = IF fd THEN "done" ELSE "form"

KeptIn(n, m, d) ==
    IF m # None THEN m.text ELSE IF n.kind = "form" THEN n.text ELSE d

DraftInv ==
    /\ done => typed = Nothing
    /\ ModalShape(modal, done)
    /\ modal = None /\ inline.kind = "done" => done
    /\ DraftKept

LEMMA KeptHere == Kept = KeptIn(inline, modal, draft)
BY DEF Kept, KeptIn

LEMMA KeptAfter == Kept' = KeptIn(inline', modal', draft')
BY DEF Kept, KeptIn

LEMMA DraftInit == Init => DraftInv
BY DEF Init, DraftInv, ModalShape, DraftKept, None, Node

LEMMA NoneIs == None.kind = "none" /\ None.text = Empty
BY DEF None, Node

LEMMA NodeIs ==
    ASSUME NEW k, NEW t
    PROVE  Node(k, t).kind = k /\ Node(k, t).text = t
BY DEF Node

\* A restored form holds the draft.
LEMMA RestoredIs ==
    ASSUME NEW n \in Sections \cup Modals, NEW d \in Drafts
    PROVE  /\ RestoreFormDraft(n, d).kind = n.kind
           /\ d # Nothing => RestoreFormDraft(n, d).text = d
BY DEF RestoreFormDraft, Sections, Modals

\* Before a thanks, the form before the reader is the one that is saved.
LEMMA SavedIs ==
    ASSUME NEW d \in Drafts, NEW n \in Sections, NEW m \in Modals, ModalShape(m, FALSE)
    PROVE  SaveFormDraft(d, n, m, FALSE) = KeptIn(n, m, d)
BY NoneIs DEF SaveFormDraft, KeptIn, ModalShape

\* The modal built from a draft.
LEMMA ModalIs ==
    ASSUME NEW d \in Drafts, NEW fd \in BOOLEAN
    PROVE  /\ ModalShape(RenderFormModal(fd, d), fd)
           /\ RenderFormModal(fd, d) # None
           /\ ~fd /\ d # Nothing => RenderFormModal(fd, d).text = d
<1>1. Node("form", Empty) \in Modals
  BY DEF Node, Modals, Fields
<1> QED BY <1>1, NodeIs, NoneIs, RestoredIs DEF RenderFormModal, ModalShape

\* The section built over a draft: no thanks before its time, and the draft is
\* in the form or aside.
LEMMA SectionIs ==
    ASSUME NEW n \in Sections, NEW m \in Modals, NEW fd \in BOOLEAN, NEW d \in Drafts, NEW restore
    PROVE  LET s == RenderSubmission(n, m, fd, d, restore)
           IN  /\ s.kind = "done" => fd
               /\ ~fd /\ s.kind = "form" /\ d # Nothing /\ (n.kind = "form" => restore \/ d = n.text)
                    => s.text = d
<1> DEFINE s == RenderSubmission(n, m, fd, d, restore)
<1>1. Node("form", Empty) \in Sections
  BY DEF Node, Sections, Fields
<1>2. \/ s = None \/ s = Node("cta", Empty)
      \/ s = Node("done", Empty) /\ fd
      \/ s = RestoreFormDraft(Node("form", Empty), d)
      \/ s = RestoreFormDraft(n, d) /\ n.kind = "form"
      \/ s = n /\ n.kind = "form" /\ ~restore
  BY SectionCases
<1> HIDE DEF s
<1>3. s.kind = "done" => fd
  BY <1>1, <1>2, NodeIs, NoneIs, RestoredIs
<1>4. ASSUME ~fd, s.kind = "form", d # Nothing, n.kind = "form" => restore \/ d = n.text
      PROVE  s.text = d
  BY <1>1, <1>2, <1>4, NodeIs, NoneIs, RestoredIs
<1> QED BY <1>3, <1>4 DEF s

\* A render keeps the modal, and what is kept outside it.
LEMMA RenderKeeps ==
    ASSUME NEW n \in Sections, NEW m \in Modals, NEW fd \in BOOLEAN, NEW d \in Drafts, NEW a,
           Render(n, m, fd, d, a), ModalShape(m, fd)
    PROVE  /\ modal' = m /\ done' = fd
           /\ inline'.kind = "done" => fd \/ (inline' = n /\ ~(tab' = "reviews" /\ ~dialog'))
           /\ ~fd /\ KeptIn(n, m, d) # Nothing => Kept' = KeptIn(n, m, d)
<1>1. modal' = m /\ done' = fd
  BY DEF Render
<1>2. CASE tab' = "reviews" /\ ~dialog'
  <2>1. draft' = SaveFormDraft(d, n, m, fd) /\ inline' = RenderSubmission(n, m, fd, draft', FALSE)
    BY <1>2 DEF Render
  <2>2. draft' \in Drafts
    BY <2>1, SavedType
  <2>3. inline'.kind = "done" => fd
    BY <2>1, <2>2, SectionIs
  <2>4. ASSUME ~fd, KeptIn(n, m, d) # Nothing PROVE Kept' = KeptIn(n, m, d)
    <3>1. draft' = KeptIn(n, m, d)
      BY <2>1, <2>4, SavedIs
    <3>2. CASE m # None
      BY <1>1, <3>2, KeptAfter DEF KeptIn
    <3>3. CASE m = None
      <4>1. n.kind = "form" => draft' = n.text
        BY <3>1, <3>3 DEF KeptIn
      <4>2. inline'.kind = "form" => inline'.text = draft'
        BY <2>1, <2>2, <2>4, <3>1, <4>1, SectionIs
      <4>3. Kept' = draft'
        BY <1>1, <3>3, <4>2, KeptAfter DEF KeptIn
      <4> QED BY <3>1, <4>3
    <3> QED BY <3>2, <3>3
  <2> QED BY <1>1, <2>3, <2>4
<1>3. CASE ~(tab' = "reviews" /\ ~dialog')
  <2>1. draft' = d /\ inline' = n
    BY <1>3 DEF Render
  <2> QED BY <1>1, <1>3, <2>1, KeptAfter DEF KeptIn
<1> QED BY <1>2, <1>3

\* Closing the modal puts its form's text back into the page, or aside.
LEMMA ClosedKeeps ==
    ASSUME FormsOK, asking \in Questioning, NEW fd \in BOOLEAN, NEW again,
           ClosedModal(fd, again)
    PROVE  /\ modal' = None /\ done' = FALSE /\ inline'.kind # "done"
           /\ ~fd /\ modal.kind = "form" /\ modal.text # Nothing => Kept' = modal.text
<1> DEFINE saved == SaveFormDraft(draft, inline, modal, fd)
           n     == RenderSubmission(inline, None, FALSE, saved, TRUE)
<1>1. saved \in Drafts /\ n \in Sections
  <2>1. saved \in Drafts
    BY SavedType DEF FormsOK
  <2> HIDE DEF saved
  <2> QED BY <2>1, SectionType DEF FormsOK
<1>2. \/ Render(n, None, FALSE, saved, asking)
      \/ modal' = None /\ done' = FALSE /\ draft' = saved /\ inline' = n
  BY DEF ClosedModal
<1>3. ~fd /\ modal.kind = "form" => saved = modal.text
  BY DEF SaveFormDraft
<1>4. /\ n.kind # "done"
      /\ saved # Nothing /\ n.kind = "form" => n.text = saved
  <2> HIDE DEF saved
  <2> QED BY <1>1, NoneTypes, SectionIs DEF FormsOK
<1>5. saved # Nothing => KeptIn(n, None, saved) = saved
  BY <1>4 DEF KeptIn
<1> HIDE DEF saved, n
<1>6. CASE Render(n, None, FALSE, saved, asking)
  <2>1. ModalShape(None, FALSE)
    BY DEF ModalShape
  <2>2. /\ modal' = None /\ done' = FALSE
        /\ inline'.kind = "done" => inline' = n
        /\ KeptIn(n, None, saved) # Nothing => Kept' = KeptIn(n, None, saved)
    BY <1>1, <1>6, <2>1, NoneTypes, RenderKeeps
  <2> QED BY <1>3, <1>4, <1>5, <2>2
<1>7. CASE modal' = None /\ done' = FALSE /\ draft' = saved /\ inline' = n
  BY <1>3, <1>4, <1>5, <1>7, KeptAfter
<1> QED BY <1>2, <1>6, <1>7

\* A render that leaves the form to the operators keeps the whole invariant.
LEMMA RenderedDraft ==
    ASSUME TypeOK, DraftInv, NEW a, Render(inline, modal, done, draft, a),
           mounted' => mounted, typed' = typed
    PROVE  DraftInv'
<1>1. /\ inline \in Sections /\ modal \in Modals /\ done \in BOOLEAN /\ draft \in Drafts
  BY TypeParts DEF FormsOK
<1>2. ModalShape(modal, done)
  BY DEF DraftInv
<1>3. /\ modal' = modal /\ done' = done
      /\ inline'.kind = "done" => done \/ inline' = inline
      /\ ~done /\ KeptIn(inline, modal, draft) # Nothing => Kept' = KeptIn(inline, modal, draft)
  BY <1>1, <1>2, RenderKeeps
<1>4. DraftKept'
  <2>1. SUFFICES ASSUME mounted', typed' # Nothing PROVE Kept' = typed'
    BY DEF DraftKept
  <2>2. ~done /\ Kept = typed
    BY <2>1 DEF DraftInv, DraftKept
  <2> QED BY <1>3, <2>1, <2>2, KeptHere
<1> QED BY <1>2, <1>3, <1>4 DEF DraftInv, ModalShape

\* A step that touches nothing of the forms.
LEMMA SameDraft ==
    ASSUME DraftInv, UNCHANGED <<draft, inline, modal, done>>, mounted' => mounted, typed' = typed
    PROVE  DraftInv'
<1>1. Kept' = Kept
  BY DEF Kept
<1> QED BY <1>1 DEF DraftInv, DraftKept, ModalShape

LEMMA DraftStep ==
    ASSUME TypeOK, DraftInv, [Next]_vars
    PROVE  DraftInv'
<1>0. /\ inline \in Sections /\ modal \in Modals /\ done \in BOOLEAN /\ draft \in Drafts
      /\ typed \in Drafts /\ asking \in Questioning /\ FormsOK
  BY TypeParts DEF FormsOK, SentOK
<1>s. ModalShape(modal, done)
  BY DEF DraftInv
<1>k. mounted /\ typed # Nothing => ~done /\ KeptIn(inline, modal, draft) = typed
  BY KeptHere DEF DraftInv, DraftKept
<1>1. CASE UNCHANGED vars
  BY <1>1, SameDraft DEF vars, form
<1>2. ASSUME NEW t \in Fields, Type(t) PROVE DraftInv'
  <2>1. Nothing \notin Fields
    BY WritingAssumption DEF Fields
  <2>2. CASE modal # None
    <3>1. /\ modal' = [modal EXCEPT !.text = t]
          /\ inline' = inline /\ draft' = draft /\ done' = done
          /\ typed' = IF done THEN typed ELSE t
          /\ modal.kind = "form"
      BY <1>2, <2>2 DEF Type, Writing, Reached
    <3>2. modal'.kind = "form" /\ modal'.text = t /\ modal' # None
      BY <1>0, <3>1, NoneIs DEF Modals
    <3> QED BY <1>s, <2>2, <3>1, <3>2, KeptAfter DEF DraftInv, DraftKept, ModalShape, KeptIn
  <2>3. CASE modal = None
    <3>1. /\ inline' = [inline EXCEPT !.text = t]
          /\ modal' = modal /\ draft' = draft /\ done' = done
          /\ typed' = IF done THEN typed ELSE t
          /\ inline.kind = "form"
      BY <1>2, <2>3, NoneIs DEF Type, Writing, Reached
    <3>2. inline'.kind = "form" /\ inline'.text = t
      BY <1>0, <3>1 DEF Sections
    <3> QED BY <1>s, <2>3, <3>1, <3>2, KeptAfter DEF DraftInv, DraftKept, ModalShape, KeptIn
  <2> QED BY <2>2, <2>3
<1>3. CASE Rate \/ Attach \/ Detach \/ SubmitReview
  <2>1. UNCHANGED <<draft, inline, modal, done, mounted, typed>>
    BY <1>3 DEF Rate, Attach, Detach, SubmitReview, StillForm, form
  <2> QED BY <2>1, SameDraft
<1>4. CASE OpenFormModal
  <2> DEFINE saved == SaveFormDraft(draft, inline, modal, done)
  <2>1. /\ modal = None /\ draft' = saved /\ modal' = RenderFormModal(done, saved)
        /\ UNCHANGED <<inline, done, mounted, typed>>
    BY <1>4 DEF OpenFormModal, StillForm
  <2>2. saved \in Drafts
    BY <1>0, SavedType
  <2>3. ~done => saved = KeptIn(inline, modal, draft)
    BY <1>0, <1>s, SavedIs
  <2> HIDE DEF saved
  <2>4. ModalShape(modal', done') /\ modal' # None
        /\ (~done /\ saved # Nothing => modal'.text = saved)
    BY <1>0, <2>1, <2>2, ModalIs
  <2>5. DraftKept'
    BY <1>k, <2>1, <2>3, <2>4, KeptAfter DEF DraftKept, KeptIn
  <2> QED BY <2>1, <2>4, <2>5 DEF DraftInv
<1>5. CASE CloseFormModal
  <2>1. ClosedModal(done, TRUE) \/ ClosedModal(done, FALSE)
    BY <1>5 DEF CloseFormModal
  <2>2. modal # None /\ UNCHANGED <<mounted, typed>>
    BY <1>5 DEF CloseFormModal, StillPage
  <2>3. /\ modal' = None /\ done' = FALSE /\ inline'.kind # "done"
        /\ ~done /\ modal.kind = "form" /\ modal.text # Nothing => Kept' = modal.text
    BY <1>0, <2>1, ClosedKeeps
  <2>4. DraftKept'
    BY <1>s, <1>k, <2>2, <2>3 DEF DraftKept, KeptIn, ModalShape
  <2> QED BY <2>3, <2>4 DEF DraftInv, ModalShape
<1>6. CASE FormDone
  <2>1. /\ UNCHANGED <<mounted, typed, tab, dialog>> /\ mounted /\ Reached.kind = "done"
    BY <1>6 DEF FormDone, StillPage
  <2>2. typed = Nothing
    <3>1. done
      BY <1>s, <2>1, NoneIs DEF Reached, ModalShape, DraftInv
    <3> QED BY <3>1 DEF DraftInv
  <2>3. CASE modal # None
    <3>1. ClosedModal(FALSE, TRUE)
      BY <1>6, <2>3 DEF FormDone
    <3>2. modal' = None /\ done' = FALSE /\ inline'.kind # "done"
      BY <1>0, <3>1, ClosedKeeps
    <3> QED BY <2>1, <2>2, <3>2 DEF DraftInv, DraftKept, ModalShape
  <2>4. CASE modal = None
    <3>1. Render(inline, modal, FALSE, draft, asking) /\ ModalShape(modal, FALSE)
      BY <1>6, <2>4 DEF FormDone, ModalShape
    <3>2. tab' = "reviews" /\ ~dialog'
      BY <2>1, <2>4, NoneIs DEF Reached
    <3>3. modal' = modal /\ done' = FALSE /\ inline'.kind # "done"
      BY <1>0, <3>1, <3>2, RenderKeeps
    <3> QED BY <2>1, <2>2, <3>1, <3>3 DEF DraftInv, DraftKept
  <2> QED BY <2>3, <2>4
<1>7. CASE FormAgain
  <2>1. /\ UNCHANGED <<mounted, typed, tab, dialog>> /\ mounted /\ Reached.kind = "done"
    BY <1>7 DEF FormAgain, StillPage
  <2>2. typed = Nothing
    <3>1. done
      BY <1>s, <2>1, NoneIs DEF Reached, ModalShape, DraftInv
    <3> QED BY <3>1 DEF DraftInv
  <2>3. Nothing \in Drafts
    BY DEF Drafts
  <2>4. CASE modal # None
    <3>1. done' = FALSE /\ modal' = RenderFormModal(FALSE, Nothing)
      BY <1>7, <2>4 DEF FormAgain
    <3>2. ModalShape(modal', done') /\ modal' # None
      BY <2>3, <3>1, ModalIs
    <3> QED BY <2>1, <2>2, <3>1, <3>2 DEF DraftInv, DraftKept
  <2>5. CASE modal = None
    <3>1. Render(inline, modal, FALSE, Nothing, asking) /\ ModalShape(modal, FALSE)
      BY <1>7, <2>5 DEF FormAgain, ModalShape
    <3>2. tab' = "reviews" /\ ~dialog'
      BY <2>1, <2>5, NoneIs DEF Reached
    <3>3. modal' = modal /\ done' = FALSE /\ inline'.kind # "done"
      BY <1>0, <2>3, <3>1, <3>2, RenderKeeps
    <3> QED BY <2>1, <2>2, <3>1, <3>3 DEF DraftInv, DraftKept
  <2> QED BY <2>4, <2>5
<1>8. ASSUME NEW ok \in BOOLEAN, SubmissionAnswered(ok) PROVE DraftInv'
  <2>1. CASE ~mounted \/ ~ok
    BY <1>8, <2>1, SameDraft DEF SubmissionAnswered, form
  <2>2. CASE mounted /\ ok /\ modal # None
    <3>1. /\ typed' = Nothing /\ done' = TRUE
          /\ modal' = RenderFormModal(TRUE, Nothing)
      BY <1>8, <2>2 DEF SubmissionAnswered
    <3>2. ModalShape(modal', done') /\ modal' # None
      BY <3>1, ModalIs DEF Drafts
    <3> QED BY <3>1, <3>2 DEF DraftInv, DraftKept
  <2>3. CASE mounted /\ ok /\ modal = None
    <3>1. typed' = Nothing /\ modal' = modal /\ done' = TRUE
      BY <1>8, <2>3 DEF SubmissionAnswered, Render
    <3> QED BY <2>3, <3>1 DEF DraftInv, DraftKept, ModalShape
  <2> QED BY <2>1, <2>2, <2>3
<1>9. ASSUME NEW c \in Configs, UpdateConfig(c) PROVE DraftInv'
  <2> DEFINE saved == SaveFormDraft(draft, inline, modal, done)
  <2>1. /\ draft' = saved /\ done' = done /\ UNCHANGED <<mounted, typed>>
        /\ inline' \in {RenderSubmission(None, None, done, saved, FALSE), None}
        /\ modal' = RenderFormModal(done, saved) \/ modal' = None
    BY <1>9 DEF UpdateConfig
  <2>2. saved \in Drafts
    BY <1>0, SavedType
  <2>3. ~done => saved = KeptIn(inline, modal, draft)
    BY <1>0, <1>s, SavedIs
  <2> HIDE DEF saved
  <2>4. /\ ModalShape(modal', done')
        /\ modal' # None /\ ~done /\ saved # Nothing => modal'.text = saved
    BY <1>0, <2>1, <2>2, ModalIs DEF ModalShape
  <2>5. /\ inline'.kind = "done" => done
        /\ ~done /\ inline'.kind = "form" /\ saved # Nothing => inline'.text = saved
    <3>1. LET s == RenderSubmission(None, None, done, saved, FALSE)
          IN  /\ s.kind = "done" => done
              /\ ~done /\ s.kind = "form" /\ saved # Nothing => s.text = saved
      BY <1>0, <2>2, NoneTypes, NoneIs, SectionIs
    <3>2. CASE inline' = None
      BY <3>2, NoneIs
    <3>3. CASE inline' = RenderSubmission(None, None, done, saved, FALSE)
      BY <3>1, <3>3
    <3> QED BY <2>1, <3>2, <3>3
  <2>6. DraftKept'
    BY <1>k, <2>1, <2>3, <2>4, <2>5, KeptAfter DEF DraftKept, KeptIn
  <2> QED BY <2>1, <2>4, <2>5, <2>6 DEF DraftInv
<1>10. CASE Destroy
  <2>1. ~mounted' /\ modal' = None /\ inline' = None /\ done' = done /\ typed' = typed
    BY <1>10 DEF Destroy
  <2> QED BY <2>1, NoneIs DEF DraftInv, DraftKept, ModalShape
<1>11. ASSUME \/ \E s \in {"open", "closed", "failed"} : ServiceAnswers(s)
              \/ OtherRender \/ SwitchTab \/ ToggleQuestionForm
              \/ \E ok \in BOOLEAN : QuestionsAnswer(ok)
       PROVE  DraftInv'
  <2>1. UNCHANGED <<mounted, typed>> /\ \E a : Render(inline, modal, done, draft, a)
    BY <1>11 DEF ServiceAnswers, OtherRender, SwitchTab, ToggleQuestionForm, QuestionsAnswer,
       Rendered
  <2> QED BY <2>1, RenderedDraft
<1>12. ASSUME AllReviews \/ \E ok \in BOOLEAN : QuestionAnswered(ok) PROVE DraftInv'
  <2>1. /\ UNCHANGED <<mounted, typed>>
        /\ \/ \E a : Render(inline, modal, done, draft, a)
           \/ UNCHANGED <<draft, inline, modal, done>>
    BY <1>12 DEF AllReviews, QuestionAnswered, Rendered
  <2> QED BY <2>1, RenderedDraft, SameDraft
<1>13. ASSUME SubmitQuestion \/ \E t \in Fields : TypeQuestion(t) PROVE DraftInv'
  <2>1. UNCHANGED <<draft, inline, modal, done, mounted, typed>>
    BY <1>13 DEF SubmitQuestion, TypeQuestion, StillAsking, form
  <2> QED BY <2>1, SameDraft
<1> QED
  BY <1>1, <1>2, <1>3, <1>4, <1>5, <1>6, <1>7, <1>8, <1>9, <1>10, <1>11, <1>12, <1>13
     DEF Next, Reader, Answers

\* What the reader typed is in the form before him, in the other one, or in the
\* draft the next one is built from.
THEOREM DraftNotLost == Spec => []DraftKept
<1>1. Spec => []DraftInv
  BY TypeCorrect, DraftInit, DraftStep, PTL DEF Spec
<1>2. DraftInv => DraftKept
  BY DEF DraftInv
<1> QED BY <1>1, <1>2, PTL

=============================================================================
