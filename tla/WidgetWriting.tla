---------------------------- MODULE WidgetWriting ----------------------------
(***************************************************************************)
(* Writing in the mounted widget                                            *)
(* (src/web/reviews-widget/reviews-widget.js): the review form, which may   *)
(* stand in the page and in a modal at once, the draft that carries what    *)
(* was typed from one to the other and over every render, the submission    *)
(* with its attachments, and the questions tab with its own form.           *)
(*                                                                          *)
(* A form of the document is what the reader sees: its text lives in the    *)
(* node, and dies with it unless it was saved.  One text stands for all the *)
(* fields of a form.  The product page and the real service are modelled:   *)
(* a preview only leaves the request out.                                   *)
(***************************************************************************)
EXTENDS Naturals, Sequences

CONSTANTS
    Texts,          \* what a reader may write
    Empty,          \* an empty field
    Nothing,        \* no saved value
    Configs,        \* configurations the widget is given
    MaxFiles,       \* the service's limit of attachments
    MaxChanges      \* bound on the changes of the configuration and of the tab

ASSUME WritingAssumption ==
    /\ Empty \notin Texts /\ Nothing \notin Texts /\ Empty # Nothing
    /\ Configs \subseteq [form : BOOLEAN, mode : {"inline", "button"},
                          cta : {"header", "section", "both"},
                          questions : BOOLEAN, maxMedia : Nat]
    /\ MaxFiles \in Nat /\ MaxChanges \in Nat

VARIABLES
    mounted,        \* not destroyed
    config,
    tab,            \* activeTab
    dialog,         \* the "all reviews" dialog is open
    service,        \* the submission configuration: loading, open, closed, failed
    draft,          \* formDraft
    inline,         \* what the form section holds
    modal,          \* what the modal holds while it is open
    done,           \* formDone
    rated,          \* formRating
    media,          \* how many attachments
    posted,         \* submissions on their way, oldest first
    typed,          \* what the reader typed last and has not sent
    questions,      \* the list: none, loading, loaded, failed
    asking,         \* questionForm, and what its node holds
    asked,          \* the question on its way
    changes

form == <<draft, inline, modal, done, rated, media>>
qa == <<questions, asking, asked>>
vars == <<mounted, config, tab, dialog, service, form, posted, typed, qa, changes>>

Change == changes < MaxChanges /\ changes' = changes + 1

Fields == Texts \cup {Empty}
Node(kind, text) == [kind |-> kind, text |-> text]
None == Node("none", Empty)

Least(a, b) == IF a <= b THEN a ELSE b

-----------------------------------------------------------------------------
(* The draft *)

CanSubmit(c, s) == c.form /\ s = "open"

\* Mutant: the draft is always read from the page.
SaveFromPage(d, n, m, fd) == IF ~fd /\ n.kind = "form" THEN n.text ELSE d

\* The form the reader has before him is the one to save: the modal's while
\* it is open.
SaveFormDraft(d, n, m, fd) ==
    LET shown == IF m.kind = "none" THEN n ELSE m
    IN  IF ~fd /\ shown.kind = "form" THEN shown.text ELSE d

\* A form node keeps what it has when nothing was saved.
RestoreFormDraft(n, d) == IF d = Nothing THEN n ELSE [n EXCEPT !.text = d]

RenderFormModal(fd, d) ==
    IF fd THEN Node("done", Empty) ELSE RestoreFormDraft(Node("form", Empty), d)

\* renderSubmission, after the draft was saved as d.  A form that is there
\* stays, restored only when the modal has just been closed over it.
RenderSubmission(n, m, fd, d, restore) ==
    CASE ~CanSubmit(config', service') \/ config'.cta = "header" -> None
      [] CanSubmit(config', service') /\ config'.cta # "header" ->
           IF fd /\ m.kind = "none" THEN Node("done", Empty)
           ELSE IF config'.mode = "button" THEN Node("cta", Empty)
           ELSE IF n.kind # "form" THEN RestoreFormDraft(Node("form", Empty), d)
           ELSE IF restore THEN RestoreFormDraft(n, d) ELSE n

\* The question form is built anew by every render of its tab.
QuestionNode(a) == [a EXCEPT !.text = Empty]

\* render, after the handler made these of the page's form, the modal, formDone
\* and the draft: the questions tab and the dialog leave the form as it is.
Render(n, m, fd, d, a) ==
    /\ modal' = m /\ done' = fd
    /\ IF tab' = "reviews" /\ ~dialog'
       THEN /\ draft' = SaveFormDraft(d, n, m, fd)
            /\ inline' = RenderSubmission(n, m, fd, draft', FALSE)
       ELSE draft' = d /\ inline' = n
    /\ asking' = IF tab' = "questions" THEN QuestionNode(a) ELSE a

\* A handler that changes nothing of the form itself.
Rendered == Render(inline, modal, done, draft, asking)

-----------------------------------------------------------------------------
(* Mounting, the service's configuration, other renders *)

Init ==
    /\ mounted = TRUE
    /\ config \in Configs
    /\ tab = "reviews"
    /\ dialog = FALSE
    /\ service = "loading"
    /\ draft = Nothing
    /\ inline = None /\ modal = None
    /\ done = FALSE /\ rated = FALSE /\ media = 0
    /\ posted = <<>>
    /\ typed = Nothing
    /\ questions = "none"
    /\ asking = [expanded |-> FALSE, text |-> Empty, sent |-> FALSE]
    /\ asked = Nothing
    /\ changes = 0

ServiceAnswers(s) ==
    /\ mounted /\ service = "loading"
    /\ service' = s
    /\ UNCHANGED <<mounted, config, tab, dialog, rated, media, posted, typed, questions,
                   asked, changes>>
    /\ Rendered

\* Reviews arrive, are filtered, paged: everything else that renders.
OtherRender ==
    /\ mounted
    /\ UNCHANGED <<mounted, config, tab, dialog, service, rated, media, posted, typed,
                   questions, asked, changes>>
    /\ Rendered

\* The dialog over the page; closing it puts the page back without a render.
AllReviews ==
    /\ mounted /\ modal = None /\ tab = "reviews"
    /\ dialog' = ~dialog
    /\ UNCHANGED <<mounted, config, tab, service, rated, media, posted, typed, questions,
                   asked, changes>>
    /\ IF dialog THEN UNCHANGED <<draft, inline, modal, done, asking>> ELSE Rendered

\* handle.updateConfig saves the draft, builds the shell again and reopens the
\* modal.
UpdateConfig(c) ==
    LET saved == SaveFormDraft(draft, inline, modal, done)
    IN  /\ Change
        /\ mounted
        /\ config' = c
        /\ tab' = IF c.questions THEN tab ELSE "reviews"
        /\ dialog' = FALSE
        /\ UNCHANGED <<mounted, service, rated, media, posted, typed, questions, asked>>
        /\ draft' = saved
        /\ done' = done
        /\ inline' = IF tab' = "reviews" THEN RenderSubmission(None, None, done, saved, FALSE)
                                         ELSE None
        /\ modal' = IF modal # None /\ CanSubmit(c, service)
                    THEN RenderFormModal(done, saved) ELSE None
        /\ asking' = QuestionNode(asking)

Destroy ==
    /\ mounted
    /\ mounted' = FALSE
    /\ media' = 0
    /\ inline' = None /\ modal' = None /\ dialog' = FALSE
    /\ asking' = QuestionNode(asking)
    /\ UNCHANGED <<config, tab, service, draft, done, rated, posted, typed, questions, asked,
                   changes>>

-----------------------------------------------------------------------------
(* The reader and the form *)

\* The form the reader can reach.
Reached ==
    IF modal # None THEN modal
    ELSE IF tab = "reviews" /\ ~dialog THEN inline ELSE None

Writing == mounted /\ Reached.kind = "form"

StillForm == UNCHANGED <<mounted, config, tab, dialog, service, qa>>

\* A form the widget has already given thanks for, but not yet replaced, is
\* written in vain: the dialog kept the render away.
Type(t) ==
    /\ Writing /\ t # Reached.text
    /\ typed' = IF done THEN typed ELSE t
    /\ IF modal # None THEN modal' = [modal EXCEPT !.text = t] /\ UNCHANGED inline
                       ELSE inline' = [inline EXCEPT !.text = t] /\ UNCHANGED modal
    /\ StillForm /\ UNCHANGED <<draft, done, rated, media, posted, changes>>

Rate ==
    /\ Writing /\ ~rated
    /\ rated' = TRUE
    /\ StillForm /\ UNCHANGED <<draft, inline, modal, done, media, posted, typed, changes>>

MediaLimit(c) == Least(c.maxMedia, MaxFiles)

\* A file is taken up to the limit; a thumbnail's button drops it.
Attach ==
    /\ Writing /\ media < MediaLimit(config)
    /\ media' = media + 1
    /\ StillForm /\ UNCHANGED <<draft, inline, modal, done, rated, posted, typed, changes>>

Detach ==
    /\ Writing /\ media > 0
    /\ media' = media - 1
    /\ StillForm /\ UNCHANGED <<draft, inline, modal, done, rated, posted, typed, changes>>

\* The header's button, or the section's in button mode.
OpenFormModal ==
    LET saved == SaveFormDraft(draft, inline, modal, done)
    IN  /\ mounted /\ modal = None /\ ~dialog
        /\ CanSubmit(config, service)
        /\ config.cta \in {"header", "both"} \/ (inline.kind = "cta" /\ tab = "reviews")
        /\ draft' = saved
        /\ modal' = RenderFormModal(done, saved)
        /\ StillForm /\ UNCHANGED <<inline, done, rated, media, posted, typed, changes>>

\* closeFormModal under this formDone; most of its callers render again.
ClosedModal(fd, again) ==
    LET saved == SaveFormDraft(draft, inline, modal, fd)
        n     == RenderSubmission(inline, None, FALSE, saved, TRUE)
    IN  IF again
        THEN Render(n, None, FALSE, saved, asking)
        ELSE /\ modal' = None /\ done' = FALSE
             /\ draft' = saved /\ inline' = n
             /\ UNCHANGED asking

StillPage == UNCHANGED <<mounted, config, tab, dialog, service, questions, asked, changes>>

CloseFormModal ==
    /\ mounted /\ modal # None
    /\ StillPage /\ UNCHANGED <<rated, media, posted, typed>>
    /\ \E again \in BOOLEAN : ClosedModal(done, again)

\* "Done" under a thanks, in the modal or in the page.
FormDone ==
    /\ mounted /\ Reached.kind = "done"
    /\ StillPage /\ UNCHANGED <<rated, media, posted, typed>>
    /\ IF modal # None THEN ClosedModal(FALSE, TRUE)
                       ELSE Render(inline, modal, FALSE, draft, asking)

FormAgain ==
    /\ mounted /\ Reached.kind = "done"
    /\ rated' = FALSE /\ media' = 0
    /\ StillPage /\ UNCHANGED <<posted, typed>>
    /\ IF modal # None
       THEN /\ draft' = Nothing /\ done' = FALSE
            /\ modal' = RenderFormModal(FALSE, Nothing)
            /\ UNCHANGED <<inline, asking>>
       ELSE Render(inline, modal, FALSE, Nothing, asking)

-----------------------------------------------------------------------------
(* Submission *)

\* Mutant: only the picker of files knows the limit.
AnySubmission == rated

Submittable == rated /\ media <= MediaLimit(config)

\* submitReview up to its await.
SubmitReview ==
    /\ Writing /\ CanSubmit(config, service)
    /\ Reached.text \in Texts /\ Submittable
    /\ posted = <<>>
    /\ posted' = Append(posted, [text |-> Reached.text, media |-> media, limit |-> MediaLimit(config)])
    /\ StillForm /\ UNCHANGED <<form, typed, changes>>

\* The rest of it.  The answer thanks in the modal or in the page, and with it
\* goes what was typed since.
SubmissionAnswered(ok) ==
    /\ posted # <<>>
    /\ posted' = Tail(posted)
    /\ UNCHANGED <<mounted, config, tab, dialog, service, questions, asked, changes>>
    /\ IF ~mounted \/ ~ok
       THEN UNCHANGED <<form, typed, asking>>
       ELSE /\ typed' = Nothing
            /\ rated' = FALSE /\ media' = 0
            /\ IF modal # None
               THEN /\ draft' = Nothing /\ done' = TRUE
                    /\ modal' = RenderFormModal(TRUE, Nothing)
                    /\ UNCHANGED <<inline, asking>>
               ELSE Render(inline, modal, TRUE, Nothing, asking)

-----------------------------------------------------------------------------
(* Questions *)

\* The list is asked for once, when the tab is first shown.
SwitchTab ==
    /\ Change
    /\ mounted /\ config.questions /\ modal = None /\ ~dialog
    /\ tab' = IF tab = "reviews" THEN "questions" ELSE "reviews"
    /\ questions' = IF tab' = "questions" /\ questions = "none" THEN "loading" ELSE questions
    /\ UNCHANGED <<mounted, config, dialog, service, rated, media, posted, typed, asked>>
    /\ Rendered

QuestionsAnswer(ok) ==
    /\ mounted /\ questions = "loading"
    /\ questions' = IF ok THEN "loaded" ELSE "failed"
    /\ UNCHANGED <<mounted, config, tab, dialog, service, rated, media, posted, typed, asked,
                   changes>>
    /\ Rendered

Asking == mounted /\ tab = "questions" /\ modal = None

StillAsking ==
    UNCHANGED <<mounted, config, tab, dialog, service, form, posted, typed, questions, changes>>

ToggleQuestionForm ==
    /\ Asking
    /\ UNCHANGED <<mounted, config, tab, dialog, service, rated, media, posted, typed,
                   questions, asked, changes>>
    /\ Render(inline, modal, done, draft, [asking EXCEPT !.expanded = ~@])

TypeQuestion(t) ==
    /\ Asking /\ asking.expanded /\ t # asking.text
    /\ asking' = [asking EXCEPT !.text = t]
    /\ StillAsking /\ UNCHANGED asked

SubmitQuestion ==
    /\ Asking /\ asking.expanded /\ asking.text \in Texts
    /\ asked = Nothing
    /\ asked' = asking.text
    /\ asking' = [asking EXCEPT !.sent = FALSE]
    /\ StillAsking

\* An accepted question folds its form; a refused one is told in the form as
\* it stands.
QuestionAnswered(ok) ==
    /\ asked # Nothing
    /\ asked' = Nothing
    /\ UNCHANGED <<mounted, config, tab, dialog, service, rated, media, posted, typed,
                   questions, changes>>
    /\ IF mounted /\ ok
       THEN Render(inline, modal, done, draft,
                   [asking EXCEPT !.expanded = FALSE, !.sent = TRUE])
       ELSE UNCHANGED <<draft, inline, modal, done, asking>>

-----------------------------------------------------------------------------

Reader ==
    \/ \E t \in Fields : Type(t) \/ TypeQuestion(t)
    \/ Rate \/ Attach \/ Detach
    \/ OpenFormModal \/ CloseFormModal \/ FormDone \/ FormAgain
    \/ SubmitReview \/ SubmitQuestion \/ ToggleQuestionForm
    \/ SwitchTab \/ AllReviews

Answers ==
    \/ \E s \in {"open", "closed", "failed"} : ServiceAnswers(s)
    \/ \E ok \in BOOLEAN : SubmissionAnswered(ok) \/ QuestionsAnswer(ok) \/ QuestionAnswered(ok)

Next ==
    \/ Reader \/ Answers \/ OtherRender
    \/ \E c \in Configs : UpdateConfig(c)
    \/ Destroy

Spec == Init /\ [][Next]_vars

-----------------------------------------------------------------------------
(* Properties *)

\* Every variable has its type, and no more files are attached than the
\* service takes.
TypeOK ==
    /\ mounted \in BOOLEAN /\ config \in Configs
    /\ tab \in {"reviews", "questions"} /\ dialog \in BOOLEAN
    /\ service \in {"loading", "open", "closed", "failed"}
    /\ draft \in Fields \cup {Nothing}
    /\ inline \in [kind : {"none", "cta", "form", "done"}, text : Fields]
    /\ modal \in [kind : {"none", "form", "done"}, text : Fields]
    /\ done \in BOOLEAN /\ rated \in BOOLEAN /\ media \in 0 .. MaxFiles
    /\ posted \in Seq([text : Texts, media : Nat, limit : Nat])
    /\ typed \in Fields \cup {Nothing}
    /\ questions \in {"none", "loading", "loaded", "failed"}
    /\ asking \in [expanded : BOOLEAN, text : Fields, sent : BOOLEAN]
    /\ asked \in Texts \cup {Nothing}
    /\ changes \in 0 .. MaxChanges

\* Where the next render, the other form or the next configuration will find
\* what the reader typed.
Kept == IF modal # None THEN modal.text
        ELSE IF inline.kind = "form" THEN inline.text ELSE draft

\* What the reader typed into a form, in the page or in the modal, is not lost
\* by anything but its acceptance: neither by a render, nor by the other form,
\* nor by a configuration that takes the form away for a while.
DraftKept == mounted /\ typed # Nothing => Kept = typed

\* No submission carries more attachments than the shop and the service allow,
\* though the shop's limit may fall after they were picked.
AttachmentsFit == \A i \in 1 .. Len(posted) : posted[i].media <= posted[i].limit

\* The forms are well typed and what is on its way keeps both limits.
WritingInv == TypeOK /\ AttachmentsFit

=============================================================================
