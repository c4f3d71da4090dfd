-------------------------- MODULE DocumentCatalog --------------------------
(***************************************************************************)
(* The comparison base of a server, the pages and document panels computed *)
(* against it, and one browser tab that shows them.                        *)
(*                                                                         *)
(* A page and a panel are made of several reads: the base, Git's list of   *)
(* changed files, then one sidecar after the other; another tab may select *)
(* a base and anybody may save a sidecar between two of them.  In the tab  *)
(* (web/src/document-search.ts) typing, scope boxes, a timer, annotation   *)
(* updates and the restored scope all ask for the panel, one request runs  *)
(* at a time, and every answer replaces the panel with its input field.    *)
(***************************************************************************)
EXTENDS Integers, FiniteSets

CONSTANTS
    Documents,  \* the documents of the catalog
    Paths,      \* what Git may list as changed, the documents among it
    Watched,    \* one of them: sidecars are counted one by one, so one stands for all
    Commits,    \* the commits a tab may ask for as the comparison base
    Listed,     \* those that Git lists
    Configured, \* the commit resolved at startup
    Differs,    \* Differs[c]: the paths that are changed against c
    PastScopes, \* what an earlier visit may have left in the browser's storage
    MaxTurns,   \* bound: selections of a base
    MaxTexts,   \* bound: texts typed into the field
    MaxActs     \* bound: what the user of the tab does

ASSUME CatalogAssumption ==
    /\ Watched \in Documents /\ Documents \subseteq Paths
    /\ Listed \subseteq Commits
    /\ PastScopes \subseteq {"all", "changed", "open-comments", "none", "legacy"}
    /\ Configured \in Commits
    /\ Differs \in [Commits -> SUBSET Paths]

ASSUME CatalogBoundsAssumption ==
    MaxTurns \in Nat /\ MaxTexts \in Nat /\ MaxActs \in Nat

VARIABLES
    base,       \* the comparison base and, a ghost, which selection made it
    selects,    \* the commits the tab has posted and waits for
    saves,      \* how often the tab saved the watched sidecar
    load,       \* the page the tab is waiting for
    page,       \* the bases the parts of the page on screen come from
    panel,      \* the document panel on screen
    place,      \* the document of the page (context.path)
    scope,      \* context.scope
    stored,     \* the scope in the browser's storage, or the changed-only flag of old
    boxes,      \* the scope the boxes of the panel show
    field,      \* the text in the panel's field; 0 is the empty one
    timer,      \* the search timer, with the input element it will read
    running,    \* the panel request under way
    queued,     \* context.queuedRequest
    restoring,  \* how far the scope of the new page has been restored
    reviews,    \* saves of the tab whose answer handlePanelChanged has not dealt with
    updates,    \* handlers of annotations-updated that wait for the catalog
    announced,  \* ghost: the tab's saves when it last announced one
    acts,       \* what the user has done so far
    failed,     \* ghost: the last panel request, or restoring, failed
    crossed,    \* ghost: a navigation ended while a panel request ran
    hasty       \* ghost: the panel was asked for before the scope was restored

serverVars == <<base, selects, saves>>
pageVars == <<load, page, place>>
scopeVars == <<scope, stored, boxes>>
requestVars == <<running, queued, crossed, hasty>>
reviewVars == <<reviews, announced>>
waitVars == <<restoring, updates, reviewVars>>
vars == <<serverVars, pageVars, panel, scopeVars, field, timer, requestVars, waitVars,
          acts, failed>>

Scopes == {"all", "changed", "open-comments"}
Texts == 0..MaxTexts
NoText == 0
None == [phase |-> "none", kind |-> "none"]
NoTimer == [input |-> "none", text |-> NoText]
NotRead == -1

Base(commit, turn) == [commit |-> commit, turn |-> turn]
NoBase == Base(Configured, 0)    \* before a read has captured one
GitFailed == [known |-> FALSE, paths |-> {}]

\* One read of the catalog by the server: for the whole page, for the document of a
\* followed link, or for the panel.
Reading(kind, at, query, s) ==
    [phase |-> "asked", kind |-> kind, place |-> at, query |-> query, scope |-> s,
     base |-> NoBase, rows |-> NoBase, changedOf |-> NoBase, control |-> NoBase,
     changed |-> GitFailed, counted |-> NotRead]

\* The scope a page is rendered with asks for changed paths of any kind, the one the
\* tab resolves for changed documents.
InitialScope(changed) == IF changed.paths # {} THEN "changed" ELSE "all"

ResolveScope(saved, changed) ==
    CASE saved \in Scopes -> saved
      [] saved = "legacy" \/ (saved = "none" /\ changed.paths \intersect Documents # {}) -> "changed"
      [] OTHER -> "all"

\* The box for changed files is missing while they cannot be listed.
BoxesOf(s, changed) == IF s = "changed" /\ ~changed.known THEN "all" ELSE s

Init ==
    /\ base = NoBase
    /\ selects = {}
    /\ saves = 0
    /\ place \in Documents
    /\ load = Reading("page", place, NoText, "all")
    /\ page = [rows |-> base, changedOf |-> base, label |-> base, control |-> base]
    /\ panel = [query |-> NoText, scope |-> "all", place |-> place, changed |-> GitFailed,
                counted |-> saves]
    /\ scope = "all" /\ boxes = "all"
    /\ stored \in PastScopes
    /\ field = NoText
    /\ timer = NoTimer
    /\ running = None /\ queued = None
    /\ restoring = "done"
    /\ updates = 0 /\ reviews = 0 /\ announced = 0
    /\ acts = 0
    /\ failed = FALSE /\ crossed = FALSE /\ hasty = FALSE

tabVars == <<panel, scopeVars, field, timer, requestVars, waitVars, failed>>

-----------------------------------------------------------------------------
(***************************************************************************)
(* The comparison controller                                               *)
(***************************************************************************)

\* Mutant of ContainsCommit: any commit will do.
ContainsAnyCommit(c) == TRUE

ContainsCommit(c) == c \in Listed

\* selectCommit lists the commits anew and exchanges the base under the lock.
SelectCommit(c) ==
    /\ ContainsCommit(c)
    /\ base.turn < MaxTurns
    /\ base' = Base(c, base.turn + 1)

OtherSelects(c) ==
    /\ SelectCommit(c)
    /\ UNCHANGED <<selects, saves, pageVars, tabVars, acts>>

\* The answer to the form of a page makes the tab load its page again.  Nothing
\* changes when Git fails or no longer lists the commit.
ServeSelect(c) ==
    /\ \/ /\ SelectCommit(c)
          /\ load' = Reading("page", place, NoText, "all")
       \/ UNCHANGED <<base, load>>
    /\ selects' = selects \ {c}
    /\ UNCHANGED <<saves, page, place, tabVars, acts>>

-----------------------------------------------------------------------------
(***************************************************************************)
(* Reading the catalog: renderPage and readDocumentCatalogState            *)
(***************************************************************************)

\* Mutant of BaseOf: the base is read again where it is needed.
CurrentBase(r) == base

\* activeComparison captured the base for the whole request.
BaseOf(r) == r.base

ChangedPaths(b) == [known |-> TRUE, paths |-> Differs[b.commit]]

CaptureBase(r) == [r EXCEPT !.phase = "changed", !.base = base]

\* A page first shows the document's rows; a failing Git leaves the rest usable.
ReadChanged(r, changed) ==
    [r EXCEPT !.phase = "counts", !.rows = BaseOf(r), !.changedOf = BaseOf(r), !.changed = changed]

\* documentOpenCommentCounts loads one sidecar after the other.
ReadCount(r) ==
    [r EXCEPT !.phase = IF r.kind = "panel" THEN "read" ELSE "control", !.counted = saves]

\* The control of a page names the base of the moment it is rendered.
Render(r) == [r EXCEPT !.phase = "read", !.control = base]

\* What a read can become in a step of the server.
Reads(r) ==
    CASE r.phase = "asked"   -> {CaptureBase(r)}
      [] r.phase = "changed" -> {ReadChanged(r, ChangedPaths(BaseOf(r))), ReadChanged(r, GitFailed)}
      [] r.phase = "counts"  -> {ReadCount(r)}
      [] r.phase = "control" -> {Render(r)}
      [] OTHER               -> {}

\* A document that is gone or a sidecar that cannot be loaded fails the request.
Fails(r) == IF r.phase = "counts" THEN {[r EXCEPT !.phase = "failed"]} ELSE {}

ServeLoad ==
    /\ load' \in Reads(load) \union Fails(load)
    /\ UNCHANGED <<serverVars, page, place, tabVars, acts>>

ServePanel ==
    /\ running' \in Reads(running) \union Fails(running)
    /\ UNCHANGED <<serverVars, pageVars, panel, scopeVars, field, timer, queued, crossed,
                   hasty, waitVars, acts, failed>>

-----------------------------------------------------------------------------
(***************************************************************************)
(* The page arrives                                                        *)
(***************************************************************************)

\* While the browser loads a page the one before it does nothing any more.
Usable == load.kind # "page"

PageOf(r) == [rows |-> r.rows, changedOf |-> r.changedOf, label |-> BaseOf(r), control |-> r.control]

\* bindDocumentSearch starts anew and goes to fetch the catalog.  A page with a scope
\* to restore hides its panel until that is done (layout-bootstrap.ts).
ShowPage ==
    /\ load.phase = "read" /\ load.kind = "page"
    /\ load' = None
    /\ page' = PageOf(load)
    /\ panel' = [query |-> NoText, scope |-> InitialScope(load.changed), place |-> load.place,
                 changed |-> load.changed, counted |-> load.counted]
    /\ scope' = "all"
    /\ boxes' = InitialScope(load.changed)
    /\ field' = NoText
    /\ timer' = NoTimer
    /\ running' = None /\ queued' = None /\ crossed' = FALSE /\ hasty' = FALSE
    /\ restoring' = IF stored \in Scopes THEN "hidden" ELSE "shown"
    /\ updates' = 0 /\ reviews' = 0
    /\ failed' = FALSE
    /\ UNCHANGED <<serverVars, place, stored, announced, acts>>

\* A followed link exchanges the document only; the panel stays, its links are
\* rewritten for the new place (handleViewerNavigation).
ShowDocument ==
    /\ load.phase = "read" /\ load.kind = "document"
    /\ load' = None
    /\ page' = PageOf(load)
    /\ place' = load.place
    /\ panel' = [panel EXCEPT !.place = load.place]
    /\ crossed' = (running # None)
    /\ UNCHANGED <<serverVars, scopeVars, field, timer, running, queued, hasty, waitVars, acts,
                   failed>>

DocumentFails ==
    /\ load.phase = "failed" /\ load.kind = "document"
    /\ load' = None
    /\ UNCHANGED <<serverVars, page, place, tabVars, acts>>

-----------------------------------------------------------------------------
(***************************************************************************)
(* Asking for the panel                                                    *)
(***************************************************************************)

Asked(query, s) == [phase |-> "queued", query |-> query, scope |-> s]
Sent(request) == Reading("panel", place, request.query, request.scope)

\* Mutants of Queue: a request made while one runs is dropped; the one that waits stays.
QueueDropped(request) == None
QueueOldest(request) == IF queued = None THEN request ELSE queued

Queue(request) == request

Unrestored == restoring \in {"shown", "hidden"}

Request(query, s) ==
    IF running = None
    THEN /\ running' = Sent(Asked(query, s))
         /\ queued' = None
         /\ crossed' = FALSE
    ELSE /\ queued' = Queue(Asked(query, s))
         /\ UNCHANGED <<running, crossed>>

RequestPanel(query, s) == Request(query, s) /\ hasty' = Unrestored

\* The finally block of sendNextDocumentRequest.
SendNext ==
    /\ running' = IF queued = None THEN None ELSE Sent(queued)
    /\ queued' = None
    /\ crossed' = (crossed /\ queued = None)
    /\ restoring' = IF restoring = "asked" THEN "done" ELSE restoring
    /\ UNCHANGED hasty

\* Mutant of Ended: a request that failed is still taken to be running.
EndedWell(r) == r.phase = "read"

Ended(r) == r.phase \in {"read", "failed"}

\* The answer replaces the panel and with it the field; a timer goes on with the
\* input element it was set for.
ShowPanel ==
    /\ Usable
    /\ Ended(running) /\ running.phase = "read"
    /\ panel' = [query |-> running.query, scope |-> running.scope, place |-> running.place,
                 changed |-> running.changed, counted |-> running.counted]
    /\ boxes' = BoxesOf(running.scope, running.changed)
    /\ field' = running.query
    /\ timer' = IF timer.input = "shown" THEN [input |-> "replaced", text |-> field] ELSE timer
    /\ failed' = FALSE
    /\ SendNext
    /\ UNCHANGED <<serverVars, pageVars, scope, stored, updates, reviewVars, acts>>

PanelFails ==
    /\ Usable
    /\ Ended(running) /\ running.phase = "failed"
    /\ failed' = TRUE
    /\ SendNext
    /\ UNCHANGED <<serverVars, pageVars, panel, scopeVars, field, timer, updates, reviewVars, acts>>

\* refreshDocumentCatalog for a new page: the scope comes from the storage or from the
\* catalog that was fetched.
RestoreScope(changed) ==
    LET s == ResolveScope(stored, changed)
    IN  /\ Usable /\ Unrestored
        /\ scope' = s
        /\ IF s # boxes
           THEN /\ boxes' = BoxesOf(s, panel.changed)
                /\ restoring' = IF running = None /\ restoring = "hidden" THEN "asked" ELSE "done"
                /\ Request(NoText, s) /\ hasty' = FALSE
           ELSE /\ restoring' = "done"
                /\ UNCHANGED <<boxes, requestVars>>
        /\ UNCHANGED <<serverVars, pageVars, panel, stored, field, timer, updates, reviewVars,
                       acts, failed>>

RestoreFails ==
    /\ Usable /\ Unrestored
    /\ restoring' = "done"
    /\ failed' = TRUE
    /\ UNCHANGED <<serverVars, pageVars, panel, scopeVars, field, timer, requestVars,
                   updates, reviewVars, acts>>

TimerFires ==
    /\ Usable
    /\ timer # NoTimer
    /\ timer' = NoTimer
    /\ RequestPanel(IF timer.input = "shown" THEN field ELSE timer.text, scope)
    /\ UNCHANGED <<serverVars, pageVars, panel, scopeVars, field, waitVars, acts, failed>>

\* handlePanelChanged tells of the save once it has a new viewer state.
Announce ==
    /\ Usable
    /\ reviews > 0
    /\ reviews' = reviews - 1
    /\ updates' = updates + 1
    /\ announced' = saves
    /\ UNCHANGED <<serverVars, pageVars, panel, scopeVars, field, timer, requestVars, restoring,
                   acts, failed>>

\* It says nothing when the viewer state fails, when another request has overwritten
\* the marks, or when the answer is an error although the sidecar was renamed.
SaveGoesUnannounced ==
    /\ Usable
    /\ reviews > 0
    /\ reviews' = reviews - 1
    /\ UNCHANGED <<serverVars, pageVars, panel, scopeVars, field, timer, requestVars, restoring,
                   updates, announced, acts, failed>>

\* handleAnnotationsUpdated goes on once the catalog was fetched, or was not.
UpdateGoesOn ==
    /\ Usable
    /\ updates > 0
    /\ updates' = updates - 1
    /\ timer' = NoTimer
    /\ RequestPanel(field, scope)
    /\ UNCHANGED <<serverVars, pageVars, panel, scopeVars, field, restoring, reviewVars, acts,
                   failed>>

-----------------------------------------------------------------------------
(***************************************************************************)
(* The user of the tab                                                     *)
(***************************************************************************)

Acts ==
    /\ acts < MaxActs
    /\ acts' = acts + 1
    /\ Usable
    /\ UNCHANGED base

\* The field and the boxes can be used while the panel is visible.
UsesPanel == Acts /\ restoring \notin {"hidden", "asked"}

Type(text) ==
    /\ UsesPanel
    /\ text # field
    /\ field' = text
    /\ timer' = [input |-> "shown", text |-> NoText]
    /\ UNCHANGED <<selects, saves, pageVars, panel, scopeVars, requestVars, waitVars, failed>>

\* Escape empties the field and searches at once.
Clear ==
    /\ UsesPanel
    /\ field' = NoText
    /\ timer' = NoTimer
    /\ RequestPanel(NoText, scope)
    /\ UNCHANGED <<selects, saves, pageVars, panel, scopeVars, waitVars, failed>>

\* A box that is ticked replaces the other; unticked, all documents are asked for.
Tick(s) ==
    /\ UsesPanel
    /\ s = "changed" => panel.changed.known
    /\ boxes' = IF boxes = s THEN "all" ELSE s
    /\ scope' = boxes'
    /\ stored' = boxes'
    /\ RequestPanel(field, boxes')
    /\ UNCHANGED <<selects, saves, pageVars, panel, field, timer, waitVars, failed>>

Follow(d) ==
    /\ Acts
    /\ load = None
    /\ load' = Reading("document", d, NoText, "all")
    /\ UNCHANGED <<selects, saves, page, place, tabVars>>

SelectBase(c) ==
    /\ Acts
    /\ selects' = selects \union {c}
    /\ UNCHANGED <<saves, pageVars, tabVars>>

\* A form of the review panel saves an annotation of the document.  Saves of others
\* are not told to the tab: they can only make a count newer.
SaveAnnotation ==
    /\ Acts
    /\ saves' = IF place = Watched THEN saves + 1 ELSE saves
    /\ reviews' = reviews + 1
    /\ UNCHANGED <<selects, pageVars, panel, scopeVars, field, timer, requestVars, restoring,
                   updates, announced, failed>>

User ==
    \/ \E text \in Texts : Type(text)
    \/ Clear
    \/ \E s \in {"changed", "open-comments"} : Tick(s)
    \/ \E d \in Documents : Follow(d)
    \/ \E c \in Listed : SelectBase(c)
    \/ SaveAnnotation

Arrives ==
    \/ ShowPage \/ ShowDocument \/ DocumentFails
    \/ ShowPanel \/ PanelFails
    \/ \E changed \in {ChangedPaths(base), GitFailed} : RestoreScope(changed)
    \/ RestoreFails
    \/ TimerFires \/ Announce \/ SaveGoesUnannounced \/ UpdateGoesOn

Next ==
    \/ \E c \in Commits : OtherSelects(c)
    \/ \E c \in selects : ServeSelect(c)
    \/ ServeLoad \/ ServePanel
    \/ Arrives
    \/ User

\* The server answers every request (Git is run with a time limit) and the browser
\* delivers answers and timers; nobody has to do anything.
Fairness ==
    /\ WF_vars(ServeLoad) /\ WF_vars(ServePanel)
    /\ WF_vars(\E c \in selects : ServeSelect(c))
    /\ WF_vars(Arrives)

Spec == Init /\ [][Next]_vars /\ Fairness

-----------------------------------------------------------------------------
(***************************************************************************)
(* Properties                                                              *)
(***************************************************************************)

Bases == {NoBase} \union [commit: Listed, turn: 1..MaxTurns]
Changes == [known: BOOLEAN, paths: SUBSET Paths]
Counts == {NotRead} \union 0..MaxActs
Readings == [phase: {"asked", "changed", "counts", "control", "read", "failed"},
             kind: {"page", "document", "panel"}, place: Documents, query: Texts, scope: Scopes,
             base: Bases, rows: Bases, changedOf: Bases, control: Bases,
             changed: Changes, counted: Counts]

\* A base is always the configured commit or one that Git listed when it was
\* selected (comparison.go: "Selection never accepts an arbitrary revision").
TypeOK ==
    /\ base \in Bases
    /\ selects \subseteq Commits
    /\ saves \in 0..MaxActs
    /\ load \in Readings \union {None}
    /\ page \in [rows: Bases, changedOf: Bases, label: Bases, control: Bases]
    /\ panel \in [query: Texts, scope: Scopes, place: Documents, changed: Changes, counted: Counts]
    /\ place \in Documents
    /\ scope \in Scopes /\ boxes \in Scopes /\ stored \in Scopes \union {"none", "legacy"}
    /\ field \in Texts
    /\ timer \in [input: {"none", "shown", "replaced"}, text: Texts]
    /\ running \in Readings \union {None}
    /\ queued \in [phase: {"queued"}, query: Texts, scope: Scopes] \union {None}
    /\ restoring \in {"shown", "hidden", "asked", "done"} /\ failed \in BOOLEAN /\ crossed \in BOOLEAN
    /\ hasty \in BOOLEAN
    /\ updates \in Nat /\ reviews \in Nat /\ announced \in 0..saves
    /\ acts \in 0..MaxActs

\* "changed-path and file-diff work share a base that a concurrent selection cannot
\* alter mid-request" (server.go): the rows, the changed marks and the commit a page
\* names are of one base.  The control may offer a later one, never an earlier one.
PageShowsOneBase ==
    /\ page.rows = page.changedOf
    /\ page.changedOf = page.label
    /\ page.label.turn <= page.control.turn

Settled ==
    /\ load = None /\ running = None /\ queued = None /\ timer = NoTimer
    /\ restoring = "done" /\ updates = 0

\* Requests are dropped for newer ones, and every answer overwrites the field: once
\* nothing is under way and the last read worked, the panel is the answer to what its
\* field and boxes say, and for the document of the page unless a request was under
\* way when that changed.
SettledPanelMatches ==
    Settled /\ ~failed /\ ~hasty =>
       /\ panel.query = field
       /\ panel.scope = scope
       /\ boxes = BoxesOf(scope, panel.changed)
       /\ ~crossed => panel.place = place

\* The counts of a settled panel are no older than the saves the tab has announced,
\* although the panel asked for before it may have read them earlier and arrived later.
CountsCatchUp == Settled /\ ~failed => announced <= panel.counted

\* When the user stops, all requests come to an end, those that fail included.
PanelSettles == []<>((Settled /\ reviews = 0) \/ load.phase = "failed")

=============================================================================
