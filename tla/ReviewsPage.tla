---------------------------- MODULE ReviewsPage ----------------------------
(* The moderation page of the admin application (Reviews.tsx): a filtered and  *)
(* paged list, drafts of edits and replies, a selection for the bulk bar, and  *)
(* the reviews pinned on one article.  Every write is followed by a load with  *)
(* the filters of the render it was clicked in; nothing tells a late answer    *)
(* from a fresh one.  The four selects are one `filter`, the six fields of a   *)
(* draft one `text`.                                                           *)
EXTENDS Naturals, FiniteSets, Sequences, SequencesExt

CONSTANTS
    GivenReviews, \* the reviews at the beginning: id -> fields, newest first
    Site,         \* the reviews left on the site itself
    ArticleOf,    \* the article of each review
    Hits,         \* the reviews each search text finds
    FilterValues, \* the values of the selects in use
    Terms,        \* the texts typed into the search box
    Articles,     \* the articles typed into the article box
    Blank,        \* spaces
    Texts,        \* the texts of reviews and replies
    MediaOf,      \* how many pictures a review has
    FailedReplies,\* the reviews whose reply a marketplace refused
    PageSize,     \* PAGE_SIZE
    Nil, Failed,  \* no answer yet; the request failed
    MaxActs,      \* bound: what the admin does
    MaxCalls,     \* bound: requests on their way
    MaxFaults     \* bound: requests that fail

VARIABLES
    stored,       \* the server: the reviews it has
    pins,         \* the server: the reviews pinned on each article
    query,        \* filter, search and article in force
    boxes,        \* what is typed into the two boxes
    timer,        \* the debounce of the boxes is armed
    offset,
    rows, total,  \* data
    selected, articlePins, replyDrafts, editDrafts, publishing,
    viewer,       \* mediaViewer
    calls,        \* requests on their way, oldest first
    typed,        \* history: drafts touched since the rows came
    blind,        \* history: rows ticked while a list was on its way
    doubt,        \* history: answers crossed or failed since the last load of its own
    acts, faults

backend == <<stored, pins>>
search == <<query, boxes, timer, offset>>
table == <<rows, total, replyDrafts, editDrafts, typed>>
marks == <<selected, blind>>
counters == <<acts, faults>>
reviewsVars ==
    <<stored, pins, query, boxes, timer, offset, rows, total, selected, articlePins,
      replyDrafts, editDrafts, publishing, viewer, calls, typed, blind, doubt, acts, faults>>

Ids == DOMAIN GivenReviews
Fields == {"status", "visible", "pinned", "text", "reply"}
Reviews == [status : {"pending", "approved", "rejected", "deleted", "imported"},
            visible : BOOLEAN, pinned : BOOLEAN, text : Texts, reply : Texts]
Listings == [rows : Seq([id : Ids, review : Reviews]), total : Nat]

ASSUME PageAssumption ==
    /\ Ids \subseteq Nat /\ IsFiniteSet(Ids)
    /\ "" \in FilterValues
    /\ GivenReviews \in [Ids -> Reviews] /\ MediaOf \in [Ids -> Nat]
    /\ PageSize \in Nat \ {0} /\ MaxCalls \in Nat \ {0}

\* Neither no answer nor a failure is taken for an answer.
ASSUME FailedAssumption ==
    /\ Nil # "ok" /\ Failed \notin {Nil, "ok"} /\ Failed \notin Listings
    /\ \A ids \in SUBSET Ids : Failed # ids

-----------------------------------------------------------------------------
(* What the server does with its reviews, `db` *)

\* applyReviewFilters: the deleted ones are listed only when asked for.
Passes(r, f) ==
    CASE f = "deleted" -> r.status = "deleted"
      [] f = "hidden"  -> r.status # "deleted" /\ ~r.visible
      [] f = "all"     -> TRUE
      [] f = ""        -> r.status # "deleted"

Matches(db, id, q) ==
    /\ Passes(db[id], q.filter)
    /\ q.search = "" \/ id \in Hits[q.search]
    /\ q.article = "" \/ ArticleOf[id] = q.article

\* The pinned first, then the newest.
Before(db, a, b) ==
    IF db[a].pinned # db[b].pinned THEN db[a].pinned ELSE a < b

\* A set of reviews in that order.
Ordered(db, set) ==
    CHOOSE s \in [1 .. Cardinality(set) -> set] :
        \A i, j \in 1 .. Cardinality(set) : i < j => Before(db, s[i], s[j])

\* ListReviewsWithCount: one page and the number of all.
Listing(db, q, from) ==
    LET found == Ordered(db, {id \in DOMAIN db : Matches(db, id, q)})
        last  == IF from + PageSize < Len(found) THEN from + PageSize ELSE Len(found)
        page  == SubSeq(found, from + 1, last)
    IN  [rows  |-> [i \in DOMAIN page |-> [id |-> page[i], review |-> db[page[i]]]],
         total |-> Len(found)]

\* SetReviewStatus moves the visibility with the decision.
Changed(review, change) ==
    LET new == [f \in Fields |-> IF f \in DOMAIN change THEN change[f] ELSE review[f]]
    IN  IF "status" \notin DOMAIN change THEN new
        ELSE CASE change.status = "approved" -> [new EXCEPT !.visible = TRUE]
               [] change.status \in {"rejected", "pending"} -> [new EXCEPT !.visible = FALSE]
               [] OTHER -> new

\* The handlers of the writes: ids that are gone are passed over.
Written(db, call) ==
    CASE call.kind = "purge" -> [id \in DOMAIN db \ call.ids |-> db[id]]
      [] call.kind = "write" -> [id \in DOMAIN db |->
             IF id \in call.ids THEN Changed(db[id], call.change) ELSE db[id]]
      [] OTHER -> db

PinsOf(a) == IF a = "" THEN {} ELSE pins[a]

-----------------------------------------------------------------------------
(* Requests *)

Call(kind, q, from, ids, change) ==
    [kind |-> kind, query |-> q, offset |-> from, ids |-> ids, change |-> change,
     answer |-> Nil]
NoChange == [x \in {} |-> Nil]
ListCall(q, from) == Call("list", q, from, {}, NoChange)
PinsCall(q) == Call("pins", q, 0, {}, NoChange)

UnderWay(kinds) == \E i \in DOMAIN calls : calls[i].kind \in kinds

Send(rest, call) == calls' = Append(rest, call)

\* load: the selection goes before the answer is there.
LoadList(rest, q, from) ==
    /\ Send(rest, ListCall(q, from))
    /\ selected' = {}
    /\ blind' = {}
    /\ doubt' = (rest # <<>> \/ <<q, from>> # <<query', offset'>>)

\* Mutant: the page of the list is not among what the effect watches.
Unwatched ==
    IF query' # query
    THEN LoadList(calls, query', offset')
    ELSE UNCHANGED <<calls, marks, doubt>>

\* The effect of the list: it runs when what it depends on has changed.
Watched ==
    IF query' # query \/ offset' # offset
    THEN LoadList(calls, query', offset')
    ELSE UNCHANGED <<calls, marks, doubt>>

-----------------------------------------------------------------------------
(* The page *)

NoRows == [id \in {} |-> ""]
NoQuery == [filter |-> "", search |-> "", article |-> ""]
EmptyBoxes == [search |-> "", article |-> ""]
Trim(text) == IF text = Blank THEN "" ELSE text

ReviewsInit ==
    /\ stored = GivenReviews
    /\ pins \in [Articles -> SUBSET Ids]
    /\ query = NoQuery
    /\ boxes = EmptyBoxes
    /\ timer = TRUE
    /\ offset = 0
    /\ rows = <<>>
    /\ total = 0
    /\ selected = {}
    /\ articlePins = {}
    /\ replyDrafts = NoRows
    /\ editDrafts = NoRows
    /\ publishing = FALSE
    /\ viewer = Nil
    /\ calls = <<ListCall(NoQuery, 0)>>
    /\ typed = {}
    /\ blind = {}
    /\ doubt = FALSE
    /\ acts = 0
    /\ faults = 0

OnPage == {rows[i].id : i \in DOMAIN rows}
Row(id) == rows[CHOOSE i \in DOMAIN rows : rows[i].id = id].review

\* The viewer covers the page.
Act ==
    /\ viewer = Nil
    /\ acts < MaxActs
    /\ Len(calls) < MaxCalls
    /\ acts' = acts + 1
    /\ UNCHANGED faults

StillPage == UNCHANGED <<backend, table, articlePins, publishing, viewer>>

\* resetTo: a filter narrows the list from its first page.
SetFilter ==
    /\ Act
    /\ \E f \in FilterValues \ {query.filter} : query' = [query EXCEPT !.filter = f]
    /\ offset' = 0
    /\ Watched
    /\ UNCHANGED <<boxes, timer>>
    /\ StillPage

\* Every keystroke in a box starts the debounce again.
TypeSearch ==
    /\ Act
    /\ \E text \in (Terms \cup {"", Blank}) \ {boxes.search} :
        boxes' = [boxes EXCEPT !.search = text]
    /\ timer' = TRUE
    /\ UNCHANGED <<query, offset, calls, marks, doubt>>
    /\ StillPage

TypeArticle ==
    /\ Act
    /\ \E text \in (Articles \cup {"", Blank}) \ {boxes.article} :
        boxes' = [boxes EXCEPT !.article = text]
    /\ timer' = TRUE
    /\ UNCHANGED <<query, offset, calls, marks, doubt>>
    /\ StillPage

Searched == [query EXCEPT !.search = Trim(boxes.search), !.article = Trim(boxes.article)]

\* The debounce is over: it also takes the list back to its first page.
Debounce ==
    /\ timer
    /\ Len(calls) < MaxCalls
    /\ timer' = FALSE
    /\ query' = Searched
    /\ offset' = 0
    /\ Watched
    /\ UNCHANGED <<boxes, viewer, counters>>
    /\ StillPage

\* runSearch, on Enter: the same search again is a load of its own on the first
\* page; the debounce stays armed.
RunSearch ==
    /\ Act
    /\ query' = Searched
    /\ offset' = 0
    /\ IF offset = 0 /\ query' = query THEN LoadList(calls, query', 0) ELSE Watched
    /\ UNCHANGED <<boxes, timer>>
    /\ StillPage

\* clearSearch and clearArticle: the box, the query and the page at once; the
\* change of the box arms the debounce.
Clear ==
    /\ Act
    /\ \E box \in {"search", "article"} :
        /\ boxes[box] # ""
        /\ boxes' = [boxes EXCEPT ![box] = ""]
        /\ query' = [query EXCEPT ![box] = ""]
    /\ timer' = TRUE
    /\ offset' = 0
    /\ Watched
    /\ StillPage

\* The pager goes by the total of the rows on the page.
TurnPage ==
    /\ Act
    /\ total > 0
    /\ UNCHANGED <<query, boxes, timer>>
    /\ \/ /\ offset > 0
          /\ offset' = IF offset > PageSize THEN offset - PageSize ELSE 0
       \/ /\ offset + PageSize < total
          /\ offset' = offset + PageSize
    /\ Watched
    /\ StillPage

-----------------------------------------------------------------------------
(* Drafts and the selection *)

TypeDraft ==
    /\ Act
    /\ \E id \in OnPage, text \in Texts :
        /\ typed' = typed \cup {id}
        /\ \/ /\ id \in Site /\ Row(id).status # "deleted"
              /\ editDrafts' = [editDrafts EXCEPT ![id] = text]
              /\ UNCHANGED replyDrafts
           \/ /\ replyDrafts' = [replyDrafts EXCEPT ![id] = text]
              /\ UNCHANGED editDrafts
    /\ UNCHANGED <<backend, search, rows, total, marks, articlePins,
                   publishing, viewer, calls, doubt>>

\* Rows ticked while a list is on its way: what stays ticked may not be on it.
Ticked(ids) ==
    /\ selected' = ids
    /\ blind' = IF UnderWay({"list"}) THEN blind \cup ids ELSE blind

\* toggleOne
ToggleOne ==
    /\ Act
    /\ \E id \in OnPage :
        Ticked(IF id \in selected THEN selected \ {id} ELSE selected \cup {id})
    /\ UNCHANGED <<search, calls, doubt>>
    /\ StillPage

\* toggleAllOnPage: all of the page or nothing.
ToggleAllOnPage ==
    /\ Act
    /\ Ticked(IF OnPage \subseteq selected THEN {} ELSE OnPage)
    /\ UNCHANGED <<search, calls, doubt>>
    /\ StillPage

ClearSelection ==
    /\ Act
    /\ selected # {}
    /\ Ticked({})
    /\ UNCHANGED <<search, calls, doubt>>
    /\ StillPage

-----------------------------------------------------------------------------
(* Writes *)

\* apiWrite: the write carries the filters of this render for the load after it.
Write(kind, ids, change) ==
    /\ Send(calls, Call(kind, query, offset, ids, change))
    /\ doubt' = (doubt \/ calls # <<>>)
    /\ UNCHANGED <<search, marks>>
    /\ StillPage

\* moderate, from the buttons of a row: show or hide, pin or unpin.
Moderate ==
    /\ Act
    /\ \E id \in OnPage :
        /\ Row(id).status # "deleted"
        /\ \/ Write("write", {id}, [visible |-> ~Row(id).visible])
           \/ Write("write", {id}, [pinned |-> ~Row(id).pinned])

\* saveReviewEdits: the draft, with a decision while the review waits for one.
SaveReviewEdits ==
    /\ Act
    /\ \E id \in OnPage \cap Site :
        /\ Row(id).status # "deleted"
        /\ \/ Write("write", {id}, [text |-> editDrafts[id]])
           \/ /\ Row(id).status = "pending"
              /\ \E decision \in {"approved", "rejected"} :
                  Write("write", {id}, [text |-> editDrafts[id], status |-> decision])

\* deleteReview, restoreReview and purgeReview: a restored review is an
\* imported one, whatever it was.
RemoveReview ==
    /\ Act
    /\ \E id \in OnPage :
        \/ /\ Row(id).status # "deleted"
           /\ Write("write", {id}, [status |-> "deleted"])
        \/ /\ Row(id).status = "deleted"
           /\ Write("write", {id}, [status |-> "imported"])
        \/ /\ Row(id).status = "deleted" \/ id \in Site
           /\ Write("purge", {id}, NoChange)

\* saveReply, and retryPublish which only has the marketplace asked again.
SaveReply ==
    /\ Act
    /\ \E id \in OnPage :
        \/ Write("write", {id}, [reply |-> replyDrafts[id]])
        \/ /\ id \in FailedReplies
           /\ Write("retry", {id}, NoChange)

\* bulkModerate: everything selected, shown or not.
BulkModerate ==
    /\ Act
    /\ selected # {}
    /\ \E change \in {[visible |-> FALSE], [visible |-> TRUE], [status |-> "approved"],
                      [status |-> "deleted"], [pinned |-> TRUE]} :
        Write("write", selected, change)

\* toggleArticlePin: the whole list of the article is replaced by this page's.
ToggleArticlePin ==
    /\ Act
    /\ query.article # ""
    /\ \E id \in OnPage :
        /\ Row(id).status # "deleted"
        /\ Write("put", IF id \in articlePins THEN articlePins \ {id}
                        ELSE articlePins \cup {id}, NoChange)

\* publishChanges: one at a time, and the button comes back whatever happens.
PublishChanges ==
    /\ Act
    /\ ~publishing
    /\ publishing' = TRUE
    /\ UNCHANGED <<backend, search, table, marks, articlePins, viewer, calls, doubt>>

ExportAnswers ==
    /\ publishing
    /\ publishing' = FALSE
    /\ UNCHANGED <<backend, search, table, marks, articlePins, viewer, calls, doubt, counters>>

-----------------------------------------------------------------------------
(* Answers *)

Answer(call) ==
    CASE call.kind = "list" -> Listing(stored, call.query, call.offset)
      [] call.kind = "pins" -> PinsOf(call.query.article)
      [] OTHER -> "ok"

StillApp == UNCHANGED <<search, table, marks, articlePins, publishing, viewer, acts>>

\* The server does what it is asked; its answer may be lost on the way.
ServeCall ==
    /\ \E i \in DOMAIN calls :
        /\ calls[i].answer = Nil
        /\ stored' = Written(stored, calls[i])
        /\ pins' = IF calls[i].kind = "put"
                   THEN [pins EXCEPT ![calls[i].query.article] = calls[i].ids] ELSE pins
        /\ \/ /\ calls' = [calls EXCEPT ![i].answer = Answer(calls[i])]
              /\ UNCHANGED <<faults, doubt>>
           \/ /\ faults < MaxFaults
              /\ faults' = faults + 1
              /\ calls' = [calls EXCEPT ![i].answer = Failed]
              /\ doubt' = TRUE
    /\ StillApp

\* It does not reach the server, or is refused.
RefuseCall ==
    /\ \E i \in DOMAIN calls :
        /\ calls[i].answer = Nil
        /\ calls' = [calls EXCEPT ![i].answer = Failed]
    /\ faults < MaxFaults
    /\ faults' = faults + 1
    /\ doubt' = TRUE
    /\ UNCHANGED backend
    /\ StillApp

\* Mutant: what was typed into the drafts is kept, as is everything else there.
KeptDrafts(answer, field, old) ==
    [id \in {answer.rows[i].id : i \in DOMAIN answer.rows} |->
        IF id \in DOMAIN old THEN old[id]
        ELSE answer.rows[CHOOSE i \in DOMAIN answer.rows : answer.rows[i].id = id].review[field]]

\* The drafts of a list are the reviews it brought.
Drafted(answer, field, old) ==
    [id \in {answer.rows[i].id : i \in DOMAIN answer.rows} |->
        answer.rows[CHOOSE i \in DOMAIN answer.rows : answer.rows[i].id = id].review[field]]

\* Mutant: the pins are read once, not after every list.
NoPins(rest, q) ==
    /\ calls' = rest
    /\ UNCHANGED articlePins

\* loadPins: without an article nothing is pinned.
LoadPins(rest, q) ==
    IF q.article = ""
    THEN articlePins' = {} /\ calls' = rest
    ELSE Send(rest, PinsCall(q)) /\ UNCHANGED articlePins

ListAnswers(call, rest) ==
    /\ call.kind = "list"
    /\ call.answer # Failed
    /\ rows' = call.answer.rows
    /\ total' = call.answer.total
    /\ replyDrafts' = Drafted(call.answer, "reply", replyDrafts)
    /\ editDrafts' = Drafted(call.answer, "text", editDrafts)
    /\ typed' = {}
    /\ LoadPins(rest, call.query)
    /\ UNCHANGED <<marks, doubt>>

PinsAnswer(call, rest) ==
    /\ call.answer # Failed
    /\ \/ call.kind = "pins" /\ articlePins' = call.answer
       \/ call.kind = "put" /\ articlePins' = call.ids
    /\ calls' = rest
    /\ UNCHANGED <<table, marks, doubt>>

\* A write that went through is followed by a load.
WriteAnswers(call, rest) ==
    /\ call.kind \in {"write", "purge", "retry"}
    /\ call.answer # Failed
    /\ LoadList(rest, call.query, call.offset)
    /\ UNCHANGED <<table, articlePins>>

\* A toast and nothing else.
FailureAnswers(call, rest) ==
    /\ call.answer = Failed
    /\ calls' = rest
    /\ UNCHANGED <<table, marks, articlePins, doubt>>

CallEnds ==
    /\ UNCHANGED <<backend, search, publishing, viewer, counters>>
    /\ \E i \in DOMAIN calls :
        /\ calls[i].answer # Nil
        /\ \/ ListAnswers(calls[i], RemoveAt(calls, i))
           \/ PinsAnswer(calls[i], RemoveAt(calls, i))
           \/ WriteAnswers(calls[i], RemoveAt(calls, i))
           \/ FailureAnswers(calls[i], RemoveAt(calls, i))

-----------------------------------------------------------------------------
(* The viewer of the pictures *)

OpenMedia ==
    /\ Act
    /\ \E id \in OnPage : \E i \in 0 .. MediaOf[id] - 1 :
        viewer' = [count |-> MediaOf[id], index |-> i]
    /\ UNCHANGED <<backend, search, table, marks, articlePins, publishing, calls, doubt>>

StillViewer == UNCHANGED <<backend, search, table, marks, articlePins, publishing, calls, doubt,
                           counters>>

\* shiftMedia, by the arrows on the screen or the keyboard: around both ends of
\* the pictures the review had when the viewer was opened.
ShiftMedia ==
    /\ viewer # Nil
    /\ \E d \in {1, viewer.count - 1} :
        viewer' = [viewer EXCEPT !.index = (@ + d) % viewer.count]
    /\ StillViewer

CloseMedia ==
    /\ viewer # Nil
    /\ viewer' = Nil
    /\ StillViewer

-----------------------------------------------------------------------------

Admin ==
    \/ SetFilter \/ TypeSearch \/ TypeArticle \/ RunSearch \/ Clear \/ TurnPage
    \/ TypeDraft \/ ToggleOne \/ ToggleAllOnPage \/ ClearSelection
    \/ Moderate \/ SaveReviewEdits \/ RemoveReview \/ SaveReply \/ BulkModerate
    \/ ToggleArticlePin \/ PublishChanges \/ OpenMedia \/ ShiftMedia \/ CloseMedia

ReviewsNext == Admin \/ Debounce \/ ServeCall \/ RefuseCall \/ CallEnds \/ ExportAnswers

ReviewsSpec == ReviewsInit /\ [][ReviewsNext]_reviewsVars

-----------------------------------------------------------------------------
(* Properties *)

\* The type of the state; the viewer stands on one of its pictures.
TableOK ==
    /\ DOMAIN stored \subseteq Ids
    /\ \A id \in DOMAIN stored : stored[id] \in Reviews
    /\ pins \in [Articles -> SUBSET Ids]
    /\ query \in [filter : FilterValues, search : Terms \cup {""}, article : Articles \cup {""}]
    /\ boxes \in [search : Terms \cup {"", Blank}, article : Articles \cup {"", Blank}]
    /\ timer \in BOOLEAN /\ publishing \in BOOLEAN /\ doubt \in BOOLEAN
    /\ offset \in Nat /\ total \in 0 .. Cardinality(Ids)
    /\ Len(rows) <= PageSize
    /\ \A i \in DOMAIN rows : rows[i].id \in Ids /\ rows[i].review \in Reviews
    /\ selected \subseteq Ids /\ articlePins \subseteq Ids
    /\ DOMAIN replyDrafts = OnPage /\ DOMAIN editDrafts = OnPage
    /\ typed \subseteq Ids /\ blind \subseteq Ids
    /\ viewer = Nil \/ viewer.index \in 0 .. viewer.count - 1
    /\ Len(calls) <= MaxCalls

\* When nothing is on its way the table holds what the server lists for the
\* filters, the search and the page in force, whatever was clicked, typed and
\* saved, unless answers crossed or failed since the last load that was sent
\* alone (load has no notion of a late answer).
RowsAreTheQuerys ==
    calls = <<>> /\ ~doubt =>
        [rows |-> rows, total |-> total] = Listing(stored, query, offset)

\* Putting a review on the page of an article, or taking it off, replaces the
\* whole list of the article: when it is the only request on its way it changes
\* that review's place and nobody else's.
OnePinAtATime ==
    \A i \in DOMAIN calls :
        Len(calls) = 1 /\ ~doubt /\ calls[i].kind = "put" /\ calls[i].answer = Nil =>
            \E id \in Ids : \/ calls[i].ids = pins[calls[i].query.article] \cup {id}
                            \/ calls[i].ids = pins[calls[i].query.article] \ {id}

\* The bulk bar acts on rows that are on the page, except those ticked while a
\* list was on its way (they stay ticked whatever it brings).
SelectionShown == selected \subseteq OnPage \cup blind

\* What is saved from a row nobody typed in is what the row shows: a draft never
\* outlives the review it was made from.
DraftsFollowRows ==
    \A id \in OnPage \ typed :
        editDrafts[id] = Row(id).text /\ replyDrafts[id] = Row(id).reply

\* Once the debounce is over the search in force is the one in the boxes, in
\* whatever order they were typed in, cleared or sent with Enter.
SearchSettles == ~timer => query.search = Trim(boxes.search) /\ query.article = Trim(boxes.article)

\* The parts of the page agree: selection and drafts with the rows, the search
\* in force with the boxes.
PageAgrees == TableOK /\ SelectionShown /\ DraftsFollowRows /\ SearchSettles

=============================================================================
