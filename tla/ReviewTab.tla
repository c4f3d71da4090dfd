----------------------------- MODULE ReviewTab -----------------------------
(***************************************************************************)
(* One browser tab in review mode, and the pages, viewer states and panel  *)
(* fragments the server gives it, while the document is edited and other   *)
(* clients change the sidecar.                                             *)
(*                                                                         *)
(* The tab learns what it knows from reads at different moments: the page  *)
(* (the document's text, then the panel), the viewer state (the digest and *)
(* source map of a selection, then the revision sent as If-Match), and the *)
(* panel fragment each form's answer brings.  The reviewer can have        *)
(* several forms under way; web/src/review-htmx.ts keeps the kind and the  *)
(* method of "the" request in two variables of the page, which the         *)
(* document panel's requests overwrite too.                                *)
(*                                                                         *)
(* A mutation is one step of the server here: module ReviewServer has what *)
(* falls between its reads and its save.  The revisions of the sidecar are *)
(* the positions in history, as no revision recurs (RevisionSpentOnce).    *)
(***************************************************************************)
EXTENDS Annotation

CONSTANTS
    InitialReview,  \* the annotations an earlier session left
    MaxRevision,    \* bound: revisions of the sidecar
    MaxComments,    \* bound: comments the reviewer types
    MaxRequests,    \* bound: requests the tab is asked for, searches included
    MaxEdits        \* bound: edits of the document

ASSUME TabBoundsAssumption ==
    /\ MaxRevision \in Nat \ {0} /\ MaxComments \in Nat
    /\ MaxRequests \in Nat \ {0} /\ MaxEdits \in Nat

VARIABLES
    document,   \* the current content of the document
    history,    \* the sidecar's revisions so far
    edits,      \* how often the document was edited
    opening,    \* what the tab waits for before review mode starts
    page,       \* the content whose text is on screen
    shown,      \* the panel fragment in the page
    selecting,  \* the content the selection controller measures in
    known,      \* the revision of the tab's viewer state
    form,       \* what the page's own controls hold
    marks,      \* requestMutationKind and requestMethod
    requests,   \* the tab's requests under way
    refreshes,  \* calls of handlePanelChanged that wait for a viewer state
    searching,  \* the document panel has requests that have not gone out yet
    sent,       \* how many requests the tab has been asked for
    waited,     \* ghost: the reviewer only ever acted on a quiet tab
    missed      \* ghost: the viewer state after the last mutation did not arrive

vars == <<document, history, edits, opening, page, shown, selecting, known, form, marks,
          requests, refreshes, searching, sent, waited, missed>>

worldVars == <<document, history, edits>>
pageVars == <<opening, page, selecting>>

NoSelection == [document |-> "none"]
Selections == [document: Documents, range: Ranges, seen: Quotes \union {NoText}]
Current == history[Len(history)]
NoComment == 0
PageLevel == 0      \* where a form of the page stands, instead of one of a card
NoMarks == [kind |-> "none", method |-> "none"]

\* An annotation as the panel and the forms see it; seen is a ghost, the text on
\* the reviewer's screen when its source was selected.
Cards == [comment: 0..MaxComments, status: Statuses, source: Sources \union {NoSource},
          needsReattachment: BOOLEAN, seen: Quotes \union {NoText}]

CardValid(card) == card.source # NoSource => ~card.needsReattachment

IsReview(r) ==
    /\ DOMAIN r \subseteq Int \ {PageLevel}
    /\ r \in [DOMAIN r -> Cards]
    /\ \A id \in DOMAIN r : CardValid(r[id])

\* A comment made here gets the number of the revision it is stored in.
ASSUME InitialReviewAssumption ==
    /\ IsReview(InitialReview)
    /\ \A id \in DOMAIN InitialReview :
          id < 0 /\ InitialReview[id].comment = NoComment /\ InitialReview[id].seen = NoText

-----------------------------------------------------------------------------
(***************************************************************************)
(* The panel: newAnnotationPanelView and what a card offers                *)
(***************************************************************************)

Inactive(status) == status \in {"closed", "rejected"}

CardsShown(review, showInactive) ==
    {id \in DOMAIN review : showInactive \/ ~Inactive(review[id].status)}

\* What anchorAnnotations finds; a comment whose selection could not be verified
\* is stale until it is attached.
AnchorStale(d, card) ==
    \/ card.needsReattachment
    \/ card.source # NoSource /\ AnchorState(d, card.source) = "stale"

CanReattach(d, card) ==
    (card.source # NoSource \/ card.needsReattachment) /\ AnchorStale(d, card)

CanQuickClose(card) == card.status = "applied"

LifecycleActions ==
    {<<"acknowledged", "agent">>, <<"applied", "agent">>, <<"rejected", "agent">>,
     <<"closed", "reviewer">>, <<"needs_changes", "reviewer">>, <<"open", "reviewer">>}

\* Mutant of Offered: the quick close stands on every card that is not closed.
OfferedAlways(card) ==
    {<<"closed", "reviewer">>} \union
    {action \in LifecycleActions : ValidateTransition(card.status, action[1], action[2])}

\* The moves of the quick-close form and of the lifecycle menu.
Offered(card) ==
    (IF CanQuickClose(card) THEN {<<"closed", "reviewer">>} ELSE {})
      \union {action \in LifecycleActions :
                 /\ ValidateTransition(card.status, action[1], action[2])
                 /\ ~(CanQuickClose(card) /\ action[1] = "closed")}

\* What the server renders a fragment from: one read of the document and of the
\* sidecar.
Content(showInactive) ==
    [revision |-> Len(history), document |-> document, showInactive |-> showInactive]

\* A fragment in the page is a DOM node of its own, and has a number.
Fragment(n, by, content) == [number |-> n, by |-> by, content |-> content]

-----------------------------------------------------------------------------
(***************************************************************************)
(* Opening the page                                                        *)
(***************************************************************************)

Init ==
    /\ document \in Documents
    /\ history = <<InitialReview>>
    /\ edits = 0
    /\ opening = "document"
    /\ page = document
    /\ shown = Fragment(0, "page", Content(FALSE))
    /\ selecting = document
    /\ known = 1
    /\ form = [comment |-> NoComment, selection |-> NoSelection, showInactive |-> FALSE]
    /\ marks = NoMarks
    /\ requests = {}
    /\ refreshes = {}
    /\ searching \in BOOLEAN   \* a scope to restore
    /\ sent = IF searching THEN 1 ELSE 0
    /\ waited = TRUE
    /\ missed = FALSE

controlVars == <<form, marks, requests, refreshes, searching, sent, waited, missed>>

\* renderDocument reads the source; renderPage reads the panel last.
RenderDocument ==
    /\ opening = "document"
    /\ opening' = "panel"
    /\ page' = document
    /\ UNCHANGED <<worldVars, shown, selecting, known, controlVars>>

RenderPanel ==
    /\ opening = "panel"
    /\ opening' = "source"
    /\ shown' = Fragment(0, "page", Content(FALSE))
    /\ UNCHANGED <<worldVars, page, selecting, known, controlVars>>

\* handleViewerState takes the digest and the source map from its first read, and
\* the annotations and their revision from a second one.
LoadSource ==
    /\ opening = "source"
    /\ opening' = "annotations"
    /\ selecting' = document
    /\ UNCHANGED <<worldVars, page, shown, known, controlVars>>

LoadAnnotations ==
    /\ opening = "annotations"
    /\ opening' = "ready"
    /\ known' = Len(history)
    /\ UNCHANGED <<worldVars, page, shown, selecting, controlVars>>

Open == RenderDocument \/ RenderPanel \/ LoadSource \/ LoadAnnotations

-----------------------------------------------------------------------------
(***************************************************************************)
(* The reviewer                                                            *)
(***************************************************************************)

NothingUnderWay == requests = {} /\ refreshes = {}

Quiet == NothingUnderWay /\ ~searching

Acts ==
    /\ opening = "ready"
    /\ waited' = (waited /\ Quiet)
    /\ UNCHANGED <<worldVars, pageVars, shown, known, refreshes, missed>>

\* The byte offsets come from the viewer state's source map; the text is the one
\* in the page.
Selected(r) == [document |-> selecting, range |-> r, seen |-> Text[page][r]]

Select(r) ==
    /\ Acts
    /\ CanSelect(page, r) /\ CanSelect(selecting, r)
    /\ form' = [form EXCEPT !.selection = Selected(r)]
    /\ UNCHANGED <<marks, requests, searching, sent>>

\* The comments the reviewer writes are numbered; the newest replaces the text.
Type(n) ==
    /\ Acts
    /\ n \in (form.comment + 1)..MaxComments
    /\ form' = [form EXCEPT !.comment = n]
    /\ UNCHANGED <<marks, requests, searching, sent>>

\* The reviewer types into the document search or changes its scope.  What an
\* announced mutation makes the document panel ask for is not counted.
SearchDocuments ==
    /\ Acts
    /\ sent < MaxRequests
    /\ sent' = sent + 1
    /\ searching' = TRUE
    /\ UNCHANGED <<form, marks, requests>>

Element(name, id) == [name |-> name, id |-> id]

\* A form has one request at a time, the next waits for it; a form that was swapped
\* out with its fragment is not the one that stands in its place.
IsFree(element) ==
    \A q \in requests : q.element = element => element.id # PageLevel /\ q.target # shown.number

NoAnswer == [status |-> 0]

\* A mutation carries the revision of the viewer state.  The target is resolved when
\* the request is sent.
Request(element, input) ==
    [number |-> sent + 1, element |-> element, input |-> input, ifMatch |-> known,
     target |-> shown.number, seen |-> shown.content, answer |-> NoAnswer]

\* htmx:configRequest: every request sets the marks.
SendRequest(kind, method, element, input) ==
    /\ Acts
    /\ sent < MaxRequests
    /\ IsFree(element)
    /\ sent' = sent + 1
    /\ marks' = [kind |-> kind, method |-> method]
    /\ requests' = requests \union {Request(element, input)}
    /\ UNCHANGED searching

SubmitCreate ==
    /\ form.comment # NoComment
    /\ SendRequest("create", "post", Element("create", PageLevel),
                   [comment |-> form.comment, selection |-> form.selection])
    /\ UNCHANGED form

ShownReview == history[shown.content.revision]
ShownCards == CardsShown(ShownReview, shown.content.showInactive)

SubmitReply(id) ==
    /\ SendRequest("other", "post", Element("reply", id), [id |-> id])
    /\ UNCHANGED form

SubmitMove(id) ==
    /\ \E action \in Offered(ShownReview[id]) :
          SendRequest("other", "post", Element("move", id),
                      [id |-> id, to |-> action[1], role |-> action[2]])
    /\ UNCHANGED form

SubmitReattach(id) ==
    /\ CanReattach(shown.content.document, ShownReview[id])
    /\ form.selection # NoSelection
    /\ SendRequest("reattach", "post", Element("reattach", id),
                   [id |-> id, selection |-> form.selection])
    /\ UNCHANGED form

\* The "Show closed and rejected" box reads the panel anew.
ToggleInactive ==
    /\ form' = [form EXCEPT !.showInactive = ~@]
    /\ SendRequest("none", "get", Element("view", PageLevel),
                   [showInactive |-> ~form.showInactive])

Reviewer ==
    \/ \E r \in Ranges : Select(r)
    \/ \E n \in 1..MaxComments : Type(n)
    \/ SubmitCreate
    \/ \E id \in ShownCards : SubmitReply(id) \/ SubmitMove(id) \/ SubmitReattach(id)
    \/ ToggleInactive
    \/ SearchDocuments

\* A GET of the document panel: sent when the typing stops, when the one before it
\* has ended, or when the catalog read after a mutation has come.  Its own answer is
\* not for the annotation panel, and leaves the marks.
SearchGoesOut ==
    /\ opening = "ready"
    /\ searching
    /\ searching' \in BOOLEAN
    /\ marks' = [kind |-> "none", method |-> "get"]
    /\ UNCHANGED <<worldVars, pageVars, shown, known, form, requests, refreshes, sent,
                   waited, missed>>

-----------------------------------------------------------------------------
(***************************************************************************)
(* The server answers                                                      *)
(***************************************************************************)

Card(comment, status, source, needsReattachment, seen) ==
    [comment |-> comment, status |-> status, source |-> source,
     needsReattachment |-> needsReattachment, seen |-> seen]

\* Mutant of Created: the digest of the selection is not compared.
CreatedUnchecked(input) ==
    IF input.selection # NoSelection
    THEN Card(input.comment, "open", NewSource(document, input.selection.range), FALSE,
              input.selection.seen)
    ELSE Card(input.comment, "open", NoSource, FALSE, NoText)

Created(input) ==
    IF input.selection # NoSelection /\ input.selection.document = document
    THEN Card(input.comment, "open", NewSource(document, input.selection.range), FALSE,
              input.selection.seen)
    ELSE Card(input.comment, "open", NoSource, input.selection # NoSelection, NoText)

\* Mutant of Reattached: the comment is still marked as having no selection.
ReattachedMarked(card, selection) ==
    Card(card.comment, card.status, NewSource(document, selection.range),
         card.needsReattachment, selection.seen)

Reattached(card, selection) ==
    Card(card.comment, card.status, NewSource(document, selection.range), FALSE, selection.seen)

\* What a mutation makes of the sidecar; the panel does not tell replies apart.
Successor(name, input) ==
    CASE name = "create" ->
           [id \in DOMAIN Current \union {Len(history) + 1} |->
               IF id \in DOMAIN Current THEN Current[id] ELSE Created(input)]
      [] name = "move" -> [Current EXCEPT ![input.id].status = input.to]
      [] name = "reattach" -> [Current EXCEPT ![input.id] = Reattached(@, input.selection)]
      [] name = "reply" -> Current

\* What turns a mutation away before its revision is looked at; 200 when nothing does.
Refusal(name, input) ==
    CASE name = "move" /\ ~ValidateTransition(Current[input.id].status, input.to, input.role) -> 422
      [] name = "reattach" /\ input.selection.document # document -> 409
      [] /\ name = "reattach"
         /\ Current[input.id].source = NoSource
         /\ ~Current[input.id].needsReattachment -> 409
      [] /\ name = "reattach"
         /\ Current[input.id].source # NoSource
         /\ AnchorState(document, Current[input.id].source) # "stale" -> 409
      [] OTHER -> 200

NoContent == [revision |-> 0]

Answer(q, status, content) ==
    requests' = (requests \ {q}) \union {[q EXCEPT !.answer = [status |-> status, content |-> content]]}

\* handleAnnotationPanel
ServeRead(q) ==
    /\ q.answer = NoAnswer
    /\ q.element.name = "view"
    /\ Answer(q, 200, Content(q.input.showInactive))
    /\ UNCHANGED history

\* The form handlers; a refusal is answered with a fragment RenderFeedback makes.
ServeMutation(q) ==
    /\ q.answer = NoAnswer
    /\ q.element.name # "view"
    /\ IF Refusal(q.element.name, q.input) # 200
       THEN Answer(q, Refusal(q.element.name, q.input), NoContent) /\ UNCHANGED history
       ELSE IF q.ifMatch # Len(history)
       THEN Answer(q, 409, NoContent) /\ UNCHANGED history
       ELSE /\ Len(history) < MaxRevision
            /\ history' = Append(history, Successor(q.element.name, q.input))
            /\ Answer(q, 200, [revision |-> Len(history) + 1, document |-> document,
                               showInactive |-> FALSE])

\* An internal error; after the save, when the rename could not be made durable.
ServeFails(q) ==
    /\ q.answer = NoAnswer
    /\ Answer(q, 500, NoContent)
    /\ \/ UNCHANGED history
       \/ /\ q.element.name # "view"
          /\ Refusal(q.element.name, q.input) = 200
          /\ q.ifMatch = Len(history) /\ Len(history) < MaxRevision
          /\ history' = Append(history, Successor(q.element.name, q.input))

\* renderAnnotationPanelFeedback reads the document and the sidecar once more.
RenderFeedback(q) ==
    /\ q.answer.status \in {409, 422} /\ q.answer.content = NoContent
    /\ Answer(q, q.answer.status, Content(FALSE))
    /\ UNCHANGED history

Server(q) ==
    /\ ServeRead(q) \/ ServeMutation(q) \/ ServeFails(q) \/ RenderFeedback(q)
    /\ UNCHANGED <<document, edits, pageVars, shown, known, form, marks, refreshes,
                   searching, sent, waited, missed>>

-----------------------------------------------------------------------------
(***************************************************************************)
(* The tab hears of it                                                     *)
(***************************************************************************)

\* The connection fails: htmx reports it, and nothing listens.
Lose(q) ==
    /\ requests' = requests \ {q}
    /\ UNCHANGED <<worldVars, pageVars, shown, known, form, marks, refreshes, searching, sent,
                   waited, missed>>

HasContent(q) == q.answer # NoAnswer /\ q.answer.content # NoContent

\* Mutant of Attached: the panel is looked up again when the answer comes.
AttachedByName(q) == TRUE

\* outerHTML replaces the element the request was sent for, if it still stands.
Attached(q) == q.target = shown.number

\* A fragment that finds its target gone is dropped, but the count that comes with
\* it is swapped in, and that raises htmx:afterSwap for the panel too.  A refusal
\* is swapped by htmx:beforeSwap, which a detached target does not raise.
Swapped(q) == HasContent(q) /\ Attached(q)
AfterSwap(q) == HasContent(q) /\ (Attached(q) \/ q.answer.status = 200)

\* Mutant of Refreshes: a conflict is not followed by a new viewer state.
RefreshesAfterSuccess(q) == marks.method = "post" /\ q.answer.status = 200

\* handlePanelChanged awaits a viewer state when the marks say it was a mutation.
Refreshes(q) == marks.method = "post"

Verb(q) == IF q.element.name = "view" THEN "get" ELSE "post"

Receive(q) ==
    /\ HasContent(q) \/ q.answer.status = 500
    /\ requests' = requests \ {q}
    /\ shown' = IF Swapped(q)
                THEN Fragment(shown.number + 1, Verb(q), q.answer.content)
                ELSE shown
    /\ IF AfterSwap(q)
       THEN /\ marks' = NoMarks
            /\ refreshes' = refreshes \union
                  (IF Refreshes(q)
                   THEN {[number |-> q.number, kind |-> marks.kind,
                          successful |-> q.answer.status = 200, revision |-> 0]}
                   ELSE {})
       ELSE UNCHANGED <<marks, refreshes>>
    /\ UNCHANGED <<worldVars, pageVars, known, form, searching, sent, waited, missed>>

\* refreshViewerState: the server reads the annotations, the answer comes later.
FetchState(f) ==
    /\ f.revision = 0
    /\ refreshes' = (refreshes \ {f}) \union {[f EXCEPT !.revision = Len(history)]}
    /\ UNCHANGED <<worldVars, pageVars, shown, known, form, marks, requests, searching, sent,
                   waited, missed>>

\* Mutant of FormAfter: finishCreate whatever came of the request.
FormAfterAnyAnswer(f) ==
    [comment |-> IF f.kind = "create" THEN NoComment ELSE form.comment,
     selection |-> IF f.kind \in {"create", "reattach"} THEN NoSelection ELSE form.selection,
     showInactive |-> FALSE]

\* finishCreate clears the comment and the selection, a reattachment the selection.
FormAfter(f) ==
    [comment |-> IF f.successful /\ f.kind = "create" THEN NoComment ELSE form.comment,
     selection |-> IF f.successful /\ f.kind \in {"create", "reattach"}
                   THEN NoSelection ELSE form.selection,
     showInactive |-> FALSE]

\* The rest of handlePanelChanged.  The selection controller keeps the document it
\* was made with: the new viewer state's digest is not looked at.  A success is
\* announced to the document panel.
DeliverState(f) ==
    /\ f.revision # 0
    /\ known' = f.revision
    /\ form' = FormAfter(f)
    /\ refreshes' = refreshes \ {f}
    /\ searching' = (searching \/ f.successful)
    /\ missed' = FALSE
    /\ UNCHANGED <<worldVars, pageVars, shown, marks, requests, sent, waited>>

LoseState(f) ==
    /\ refreshes' = refreshes \ {f}
    /\ missed' = TRUE
    /\ UNCHANGED <<worldVars, pageVars, shown, known, form, marks, requests, searching, sent,
                   waited>>

-----------------------------------------------------------------------------
(***************************************************************************)
(* An editor, the agent and other tabs                                     *)
(***************************************************************************)

EditDocument(d) ==
    /\ edits < MaxEdits
    /\ edits' = edits + 1
    /\ d # document
    /\ document' = d
    /\ UNCHANGED <<history, pageVars, shown, known, controlVars>>

OtherSaves ==
    /\ Len(history) < MaxRevision
    /\ \/ history' = Append(history, Current)
       \/ \E id \in DOMAIN Current, action \in LifecycleActions :
             /\ ValidateTransition(Current[id].status, action[1], action[2])
             /\ history' = Append(history, [Current EXCEPT ![id].status = action[1]])
    /\ UNCHANGED <<document, edits, pageVars, shown, known, controlVars>>

Next ==
    \/ Open
    \/ Reviewer
    \/ SearchGoesOut
    \/ \E q \in requests : Server(q) \/ Receive(q) \/ Lose(q)
    \/ \E f \in refreshes : FetchState(f) \/ DeliverState(f) \/ LoseState(f)
    \/ \E d \in Documents : EditDocument(d)
    \/ OtherSaves

Spec == Init /\ [][Next]_vars

-----------------------------------------------------------------------------
(***************************************************************************)
(* Properties                                                              *)
(***************************************************************************)

Revisions == 1..MaxRevision
Contents == [revision: Revisions, document: Documents, showInactive: BOOLEAN]
Elements == [name: {"create", "reply", "move", "reattach", "view"}, id: Int]
CommentInputs == [comment: 1..MaxComments, selection: Selections \union {NoSelection}]
TargetInputs == [id: Int] \union [id: Int, to: Statuses, role: Roles]
                  \union [id: Int, selection: Selections]
Inputs == CommentInputs \union TargetInputs \union [showInactive: BOOLEAN]
Answers == {NoAnswer} \union [status: {200, 409, 422, 500}, content: Contents \union {NoContent}]

\* The sidecar stays one the loader accepts whatever forms are sent, and everything
\* the tab holds refers to revisions there are.
TypeOK ==
    /\ document \in Documents /\ page \in Documents /\ selecting \in Documents
    /\ Len(history) \in Revisions
    /\ \A i \in 1..Len(history) : IsReview(history[i])
    /\ opening \in {"document", "panel", "source", "annotations", "ready"}
    /\ shown \in [number: Nat, by: {"page", "get", "post"}, content: Contents]
    /\ shown.content.revision <= Len(history)
    /\ known \in 1..Len(history)
    /\ form \in [comment: 0..MaxComments, selection: Selections \union {NoSelection},
                 showInactive: BOOLEAN]
    /\ marks \in [kind: {"none", "create", "reattach", "other"}, method: {"none", "get", "post"}]
    /\ requests \subseteq [number: 1..MaxRequests, element: Elements, input: Inputs,
                           ifMatch: Revisions, target: Nat, seen: Contents,
                           answer: Answers]
    /\ refreshes \subseteq [number: 1..MaxRequests, kind: {"none", "create", "reattach", "other"},
                            successful: BOOLEAN, revision: 0..MaxRevision]
    /\ edits \in 0..MaxEdits
    /\ searching \in BOOLEAN /\ sent \in 0..MaxRequests /\ waited \in BOOLEAN /\ missed \in BOOLEAN

\* However the answers of several forms overtake each other, the panel never shows
\* an older sidecar than the one it replaces: an answer rendered before the one on
\* screen finds its target gone.
PanelNeverGoesBack == [][shown.content.revision <= shown'.content.revision]_vars

\* docs/designs/annotations.md promises that a conflict keeps the comment in the
\* form.  It does for a reviewer who lets the page settle before acting again: the
\* text is dropped only when a revision of the sidecar has it.
WaitingKeepsDraft ==
    [][/\ waited
       /\ form.comment # NoComment /\ form'.comment = NoComment
       => \E i \in 1..Len(history) : \E id \in DOMAIN history[i] :
             history[i][id].comment = form.comment]_vars

\* For a reviewer who waits until the page is quiet, the document panel included:
\* once a mutation's answer, a refusal's included, is on screen and its viewer state
\* has come, that is no older than the panel, and trying again cannot fail for what
\* the reviewer can see.
RetryCarriesPanelRevision ==
    opening = "ready" /\ waited /\ NothingUnderWay /\ ~missed /\ shown.by = "post"
      => shown.content.revision <= known

\* The panel and the handlers decide separately what a card allows.  What the panel
\* offers is accepted as long as neither the sidecar nor the document has changed.
OffersAreAccepted ==
    [][\A q \in requests, r \in requests' :
          /\ q.number = r.number /\ q.answer = NoAnswer /\ r.answer # NoAnswer
          /\ q.element.name \in {"move", "reply", "reattach"}
          /\ q.seen.revision = Len(history) /\ q.ifMatch = Len(history)
          /\ q.seen.document = document
          /\ q.element.name = "reattach" => q.input.selection.document = document
          => r.answer.status \in {200, 500}]_vars

\* If the viewer state was read from the content the page shows, the quote a comment
\* is attached to is the text the reviewer saw when selecting it, although offsets
\* and digest come from one read and the text from another.
SeenIsQuoted ==
    page = selecting =>
       \A id \in DOMAIN Current :
          Current[id].source # NoSource /\ Current[id].seen # NoText
            => Current[id].source.quote = Current[id].seen

=============================================================================
