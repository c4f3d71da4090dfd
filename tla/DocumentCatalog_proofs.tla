----------------------- MODULE DocumentCatalog_proofs -----------------------
(***************************************************************************)
(* What a page and a settled document panel show, for any documents,       *)
(* commits and bounds: the invariant relates every read under way to the   *)
(* base and the saves it has seen, and the newest request to what the tab  *)
(* wants to see.                                                           *)
(***************************************************************************)
EXTENDS DocumentCatalog, TLAPS

\* A read under way knows one base, and its parts are of that base.
ReadFits(r) ==
    /\ r.base.turn <= base.turn
    /\ r.phase \in {"counts", "control", "read"} => r.rows = r.base /\ r.changedOf = r.base
    /\ r.phase = "read" /\ r.kind # "panel" => r.base.turn <= r.control.turn
    /\ r.phase \in {"control", "read"} => r.counted # NotRead
    /\ ~r.changed.known => r.changed.paths = {}

LoadFits ==
    load # None => /\ load.kind \in {"page", "document"}
                   /\ ReadFits(load)
                   /\ load.kind = "page" => load.place = place /\ load.counted \in {NotRead, saves}

ReadInv ==
    /\ TypeOK
    /\ LoadFits
    /\ running # None => running.kind = "panel" /\ ReadFits(running)
    /\ saves <= acts
    /\ PageShowsOneBase

-----------------------------------------------------------------------------
(* Reads *)

LEMMA NothingIsNoReading ==
    /\ None \notin Readings
    /\ \A r \in Readings : r # None
  BY DEF None, Readings

LEMMA Bounds == MaxTurns \in Nat /\ MaxTexts \in Nat /\ MaxActs \in Nat
  BY CatalogBoundsAssumption

LEMMA BaseTurns == NoBase \in Bases /\ \A b \in Bases : b.turn \in Nat
  BY Bounds DEF Bases, NoBase, Base

\* A new read has seen nothing.
LEMMA NewReading ==
    ASSUME NEW kind \in {"page", "document", "panel"}, NEW d \in Documents,
           NEW query \in Texts, NEW s \in Scopes, base \in Bases
    PROVE  LET r == Reading(kind, d, query, s) IN
           /\ r \in Readings /\ r # None
           /\ r.kind = kind /\ r.place = d /\ r.query = query /\ r.scope = s
           /\ r.counted = NotRead /\ r.phase = "asked"
           /\ ReadFits(r)
  <1> DEFINE r == Reading(kind, d, query, s)
  <1>1. /\ NoBase \in Bases /\ NotRead \in Counts /\ GitFailed \in Changes
        /\ NoBase.turn = 0 /\ base.turn \in Nat
    BY BaseTurns DEF Counts, NotRead, GitFailed, Changes, NoBase, Base
  <1>2. r \in Readings
    BY <1>1 DEF Reading, Readings
  <1>3. r # None
    BY <1>2, NothingIsNoReading
  <1>4. ReadFits(r)
    BY <1>1 DEF ReadFits, Reading, GitFailed
  <1> QED
    BY <1>2, <1>3, <1>4 DEF Reading

\* A step of a read keeps what was asked and counts what was saved by now.
LEMMA ReadStep ==
    ASSUME NEW r \in Readings, ReadFits(r), NEW s \in Reads(r) \union Fails(r),
           base \in Bases, saves \in 0..MaxActs
    PROVE  /\ s \in Readings /\ ReadFits(s)
           /\ s.kind = r.kind /\ s.place = r.place /\ s.query = r.query /\ s.scope = r.scope
           /\ s.counted = r.counted \/ s.counted = saves
  <1>0. /\ base.turn \in Nat /\ r.base.turn \in Nat /\ saves # NotRead /\ saves \in Counts
        /\ r.base \in Bases
    BY BaseTurns, Bounds DEF Readings, NotRead, Counts
  <1>1. CASE r.phase = "asked" /\ s = CaptureBase(r)
    <2>1. s \in Readings
      BY <1>1 DEF CaptureBase, Readings
    <2>2. /\ s.phase = "changed" /\ s.base = base /\ s.changed = r.changed
          /\ s.kind = r.kind /\ s.place = r.place /\ s.query = r.query /\ s.scope = r.scope
          /\ s.counted = r.counted
      BY <1>1 DEF CaptureBase, Readings
    <2>3. ReadFits(s)
      BY <1>0, <2>2 DEF ReadFits
    <2> QED
      BY <2>1, <2>2, <2>3
  <1>2. CASE r.phase = "changed" /\ \E changed \in {ChangedPaths(BaseOf(r)), GitFailed} :
                 s = ReadChanged(r, changed)
    <2>1. PICK changed \in {ChangedPaths(BaseOf(r)), GitFailed} : s = ReadChanged(r, changed)
      BY <1>2
    <2>2. r.base.commit \in Commits
      BY <1>0, CatalogAssumption DEF Bases, NoBase, Base
    <2>3. Differs[r.base.commit] \in SUBSET Paths
      BY <2>2, CatalogAssumption
    <2>4. CASE changed = GitFailed
      BY <1>0, <1>2, <2>1, <2>4 DEF ReadChanged, Readings, ReadFits, BaseOf, GitFailed, Changes
    <2>5. CASE changed = ChangedPaths(r.base)
      BY <1>0, <1>2, <2>1, <2>3, <2>5
      DEF ReadChanged, Readings, ReadFits, BaseOf, ChangedPaths, Changes
    <2> QED
      BY <2>1, <2>4, <2>5 DEF BaseOf
  <1>3. CASE r.phase = "counts" /\ s = ReadCount(r)
    BY <1>0, <1>3 DEF ReadCount, Readings, ReadFits
  <1>4. CASE r.phase = "control" /\ s = Render(r)
    BY <1>0, <1>4 DEF Render, Readings, ReadFits
  <1>5. CASE r.phase = "counts" /\ s = [r EXCEPT !.phase = "failed"]
    BY <1>0, <1>5 DEF Readings, ReadFits
  <1>6. s \in Fails(r) => r.phase = "counts" /\ s = [r EXCEPT !.phase = "failed"]
    BY DEF Fails
  <1>7. \/ r.phase = "asked" /\ s = CaptureBase(r)
        \/ r.phase = "changed" /\ s \in {ReadChanged(r, ChangedPaths(BaseOf(r))), ReadChanged(r, GitFailed)}
        \/ r.phase = "counts" /\ s = ReadCount(r)
        \/ r.phase = "control" /\ s = Render(r)
        \/ s \in Fails(r)
    BY Zenon DEF Reads
  <1> QED
    BY <1>1, <1>2, <1>3, <1>4, <1>5, <1>6, <1>7

-----------------------------------------------------------------------------
(* The parts of the invariant, and what leaves each of them alone *)

RequestTypes == [phase: {"queued"}, query: Texts, scope: Scopes] \union {None}

\* The request under way is a read for the panel.
RunFits == running # None => running.kind = "panel" /\ ReadFits(running)

\* What only the tab changes when it handles its panel.
TabTypeOK ==
    /\ panel \in [query: Texts, scope: Scopes, place: Documents, changed: Changes, counted: Counts]
    /\ scope \in Scopes /\ boxes \in Scopes /\ stored \in Scopes \union {"none", "legacy"}
    /\ field \in Texts
    /\ timer \in [input: {"none", "shown", "replaced"}, text: Texts]
    /\ running \in Readings \union {None} /\ queued \in RequestTypes
    /\ restoring \in {"shown", "hidden", "asked", "done"}
    /\ failed \in BOOLEAN /\ crossed \in BOOLEAN /\ hasty \in BOOLEAN
    /\ updates \in Nat /\ reviews \in Nat /\ announced \in 0..saves

ServerTypeOK ==
    /\ base \in Bases
    /\ selects \subseteq Commits
    /\ saves \in 0..MaxActs /\ saves <= acts
    /\ acts \in 0..MaxActs

PageFits ==
    /\ load \in Readings \union {None}
    /\ place \in Documents
    /\ page \in [rows: Bases, changedOf: Bases, label: Bases, control: Bases]
    /\ LoadFits
    /\ PageShowsOneBase

LEMMA ReadInvParts ==
    ReadInv <=> ServerTypeOK /\ PageFits /\ TabTypeOK /\ RunFits
  BY DEF ReadInv, TypeOK, ServerTypeOK, PageFits, TabTypeOK, RunFits, RequestTypes

LEMMA ReadInvNext ==
    (ServerTypeOK /\ PageFits /\ TabTypeOK /\ RunFits)' => ReadInv'
  BY DEF ReadInv, TypeOK, ServerTypeOK, PageFits, TabTypeOK, RunFits, RequestTypes

\* An action of the tab leaves the page it waits for as it is.
LEMMA PageUntouched ==
    ASSUME ReadInv, UNCHANGED <<base, selects, saves, pageVars>>, acts' \in {acts, acts + 1},
           acts' <= MaxActs
    PROVE  (ServerTypeOK /\ PageFits)'
  <1>1. ServerTypeOK /\ PageFits
    BY ReadInvParts
  <1>2. ServerTypeOK'
    BY <1>1, Bounds DEF ServerTypeOK
  <1>3. LoadFits' /\ PageShowsOneBase'
    BY <1>1 DEF PageFits, LoadFits, PageShowsOneBase, ReadFits, pageVars
  <1> QED
    BY <1>1, <1>2, <1>3 DEF PageFits, pageVars

LEMMA TabUntouched ==
    ASSUME ReadInv, UNCHANGED tabVars, base' = base, saves' = saves
    PROVE  (TabTypeOK /\ RunFits)'
  <1>1. TabTypeOK /\ RunFits
    BY ReadInvParts
  <1>2. RunFits'
    BY <1>1 DEF RunFits, ReadFits, tabVars, requestVars
  <1>3. TabTypeOK'
    BY <1>1 DEF TabTypeOK, tabVars, scopeVars, requestVars, waitVars, reviewVars
  <1> QED
    BY <1>2, <1>3

-----------------------------------------------------------------------------
(* Requests for the panel *)

\* A request is sent when none runs, and waits otherwise.
LEMMA RequestTypeOK ==
    ASSUME ReadInv, NEW query \in Texts, NEW s \in Scopes, Request(query, s), base' = base
    PROVE  /\ running' \in Readings \union {None} /\ queued' \in RequestTypes
           /\ crossed' \in BOOLEAN
           /\ RunFits'
  <1>1. ServerTypeOK /\ PageFits /\ TabTypeOK /\ RunFits
    BY ReadInvParts
  <1>2. CASE running = None
    <2>1. running' = Reading("panel", place, query, s) /\ queued' = None /\ crossed' = FALSE
      BY <1>2 DEF Request, Sent, Asked
    <2>2. running' \in Readings /\ running'.kind = "panel" /\ ReadFits(running')
      BY <1>1, <2>1, NewReading DEF ServerTypeOK, PageFits
    <2> QED
      BY <2>1, <2>2 DEF RunFits, ReadFits, RequestTypes
  <1>3. CASE running # None
    <2>1. running' = running /\ crossed' = crossed /\ queued' = Asked(query, s)
      BY <1>3 DEF Request, Queue
    <2>2. Asked(query, s) \in RequestTypes
      BY DEF Asked, RequestTypes
    <2> QED
      BY <1>1, <2>1, <2>2 DEF RunFits, ReadFits, TabTypeOK
  <1> QED
    BY <1>2, <1>3

LEMMA SendNextTypeOK ==
    ASSUME ReadInv, SendNext, base' = base
    PROVE  /\ running' \in Readings \union {None} /\ queued' \in RequestTypes
           /\ crossed' \in BOOLEAN /\ hasty' \in BOOLEAN
           /\ restoring' \in {"shown", "hidden", "asked", "done"}
           /\ RunFits'
  <1>1. ServerTypeOK /\ PageFits /\ TabTypeOK /\ RunFits
    BY ReadInvParts
  <1>2. /\ queued' = None /\ queued' \in RequestTypes
        /\ crossed' \in BOOLEAN /\ hasty' \in BOOLEAN
        /\ restoring' \in {"shown", "hidden", "asked", "done"}
    BY <1>1 DEF SendNext, TabTypeOK, RequestTypes
  <1>3. CASE queued = None
    BY <1>2, <1>3 DEF SendNext, RunFits
  <1>4. CASE queued # None
    <2>1. queued.query \in Texts /\ queued.scope \in Scopes
      BY <1>1, <1>4 DEF TabTypeOK, RequestTypes
    <2>2. running' = Reading("panel", place, queued.query, queued.scope)
      BY <1>4 DEF SendNext, Sent
    <2>3. running' \in Readings /\ running'.kind = "panel" /\ ReadFits(running')
      BY <1>1, <2>1, <2>2, NewReading DEF ServerTypeOK, PageFits
    <2> QED
      BY <1>2, <2>3 DEF RunFits, ReadFits
  <1> QED
    BY <1>3, <1>4, <1>2

-----------------------------------------------------------------------------
(* Every step keeps the invariant of the reads *)

LEMMA ReadInitially == Init => ReadInv
  <1> SUFFICES ASSUME Init PROVE ReadInv
    OBVIOUS
  <1>1. NoBase \in Bases /\ base = NoBase /\ 0 \in Texts /\ 0 \in Counts /\ GitFailed \in Changes
    BY BaseTurns, Bounds DEF Init, Texts, Counts, GitFailed, Changes
  <1>2. /\ load \in Readings /\ load.kind = "page" /\ load.place = place
        /\ load.counted = NotRead /\ ReadFits(load)
    BY <1>1, NewReading DEF Init, NoText, Scopes
  <1>3. ServerTypeOK
    BY <1>1, Bounds DEF Init, ServerTypeOK
  <1>4. PageShowsOneBase
    BY <1>1, BaseTurns DEF Init, PageShowsOneBase
  <1>5. PageFits
    BY <1>1, <1>2, <1>4 DEF Init, PageFits, LoadFits
  <1>a. stored \in Scopes \union {"none", "legacy"} /\ "all" \in Scopes
    BY CatalogAssumption DEF Init, Scopes
  <1>b. panel \in [query: Texts, scope: Scopes, place: Documents, changed: Changes, counted: Counts]
    BY <1>1, <1>a DEF Init, NoText
  <1>c. /\ scope \in Scopes /\ boxes \in Scopes /\ field \in Texts
        /\ restoring \in {"shown", "hidden", "asked", "done"}
        /\ failed \in BOOLEAN /\ crossed \in BOOLEAN /\ hasty \in BOOLEAN
    BY <1>1, <1>a DEF Init, NoText
  <1>d. timer \in [input: {"none", "shown", "replaced"}, text: Texts]
    BY <1>1 DEF Init, NoText, NoTimer
  <1>e. running = None /\ queued = None /\ queued \in RequestTypes
    BY DEF Init, RequestTypes
  <1>f. updates \in Nat /\ reviews \in Nat /\ announced \in 0..saves
    BY DEF Init
  <1>g. RunFits
    BY <1>e DEF RunFits
  <1>6. TabTypeOK /\ RunFits
    BY <1>a, <1>b, <1>c, <1>d, <1>e, <1>f, <1>g DEF TabTypeOK, RequestTypes
  <1> QED
    BY <1>3, <1>5, <1>6, ReadInvParts

\* A base that is selected is newer than every base read before.
LEMMA BaseSelected ==
    ASSUME ReadInv, NEW c \in Commits, SelectCommit(c)
    PROVE  /\ base' \in Bases
           /\ \A r : r.base \in Bases /\ ReadFits(r) => ReadFits(r)'
  <1>1. ServerTypeOK
    BY ReadInvParts
  <1>2. base' = [commit |-> c, turn |-> base.turn + 1] /\ base.turn < MaxTurns /\ c \in Listed
    BY DEF SelectCommit, Base, ContainsCommit
  <1>3. base.turn \in Nat /\ base' \in Bases
    BY <1>1, <1>2, BaseTurns, Bounds DEF ServerTypeOK, Bases
  <1>4. ASSUME NEW r, r.base \in Bases, ReadFits(r)
        PROVE  ReadFits(r)'
    <2>1. r.base.turn \in Nat /\ r.base.turn <= base'.turn
      BY <1>2, <1>3, <1>4, BaseTurns DEF ReadFits
    <2> QED
      BY <1>4, <2>1 DEF ReadFits
  <1> QED
    BY <1>3, <1>4

LEMMA SelectionReads ==
    ASSUME ReadInv, NEW c \in Commits, OtherSelects(c) \/ ServeSelect(c)
    PROVE  ReadInv'
  <1>1. ServerTypeOK /\ PageFits /\ TabTypeOK /\ RunFits
    BY ReadInvParts
  <1>2. UNCHANGED <<saves, acts, page, place, tabVars>> /\ selects' \subseteq selects
    BY DEF OtherSelects, ServeSelect, pageVars
  <1>3. /\ base' \in Bases
        /\ \A r : r.base \in Bases /\ ReadFits(r) => ReadFits(r)'
    <2>1. CASE SelectCommit(c)
      BY <2>1, BaseSelected
    <2>2. CASE base' = base
      BY <1>1, <2>2 DEF ServerTypeOK, ReadFits
    <2> QED
      BY <2>1, <2>2 DEF OtherSelects, ServeSelect
  <1>4. ServerTypeOK'
    BY <1>1, <1>2, <1>3 DEF ServerTypeOK
  <1>5. TabTypeOK'
    BY <1>1, <1>2 DEF TabTypeOK, tabVars, scopeVars, requestVars, waitVars, reviewVars
  <1>6. RunFits'
    <2>1. running' = running
      BY <1>2 DEF tabVars, requestVars
    <2>2. running # None => running.base \in Bases
      BY <1>1 DEF TabTypeOK, Readings
    <2> QED
      BY <1>1, <1>3, <2>1, <2>2 DEF RunFits
  <1>7. PageShowsOneBase'
    BY <1>1, <1>2 DEF PageFits, PageShowsOneBase
  <1>8. load' \in Readings \union {None} /\ LoadFits'
    <2>1. CASE load' = load
      <3>1. load # None => load.base \in Bases
        BY <1>1 DEF PageFits, Readings
      <3> QED
        BY <1>1, <1>2, <1>3, <2>1, <3>1 DEF PageFits, LoadFits
    <2>2. CASE load' = Reading("page", place, NoText, "all")
      <3>1. place \in Documents /\ NoText \in Texts /\ "all" \in Scopes
        BY <1>1, Bounds DEF PageFits, NoText, Texts, Scopes
      <3>2. load' \in Readings /\ load'.kind = "page" /\ load'.place = place
            /\ load'.counted = NotRead /\ ReadFits(load')
        BY <1>1, <2>2, <3>1, NewReading DEF ServerTypeOK
      <3>3. load'.base \in Bases
        BY <3>2 DEF Readings
      <3> QED
        BY <1>2, <1>3, <3>2, <3>3 DEF LoadFits
    <2> QED
      BY <2>1, <2>2 DEF OtherSelects, ServeSelect, pageVars
  <1> QED
    BY <1>1, <1>2, <1>4, <1>5, <1>6, <1>7, <1>8, ReadInvNext DEF PageFits

LEMMA ServingReads ==
    ASSUME ReadInv, ServeLoad \/ ServePanel
    PROVE  ReadInv'
  <1>1. ServerTypeOK /\ PageFits /\ TabTypeOK /\ RunFits
    BY ReadInvParts
  <1>2. None \notin Readings /\ Reads(None) = {} /\ Fails(None) = {}
    <2>1. Fails(None) = {}
      BY DEF Fails, None
    <2>2. None.phase = "none"
      BY DEF None
    <2>3. Reads(None) = {}
      BY <2>2, Zenon DEF Reads
    <2> QED
      BY <2>1, <2>3, NothingIsNoReading
  <1>3. CASE ServeLoad
    <2>1. load' \in Reads(load) \union Fails(load) /\ load # None /\ load \in Readings
      BY <1>1, <1>2, <1>3 DEF ServeLoad, PageFits
    <2>2. /\ load' \in Readings /\ ReadFits(load')
          /\ load'.kind = load.kind /\ load'.place = load.place
          /\ load'.counted = load.counted \/ load'.counted = saves
      BY <1>1, <2>1, ReadStep DEF ServerTypeOK, PageFits, LoadFits
    <2>3. UNCHANGED <<base, selects, saves, page, place, tabVars, acts>>
      BY <1>3 DEF ServeLoad, serverVars
    <2>4. LoadFits'
      BY <1>1, <2>1, <2>2, <2>3 DEF PageFits, LoadFits, ReadFits
    <2>5. PageFits' /\ ServerTypeOK'
      BY <1>1, <2>2, <2>3, <2>4 DEF PageFits, PageShowsOneBase, ServerTypeOK
    <2> QED
      BY <2>3, <2>5, TabUntouched, ReadInvNext
  <1>4. CASE ServePanel
    <2>1. running' \in Reads(running) \union Fails(running) /\ running # None /\ running \in Readings
      BY <1>1, <1>2, <1>4 DEF ServePanel, TabTypeOK
    <2>2. running' \in Readings /\ ReadFits(running') /\ running'.kind = running.kind
      BY <1>1, <2>1, ReadStep DEF ServerTypeOK, RunFits
    <2>3. UNCHANGED <<base, selects, saves, pageVars, acts>>
      BY <1>4 DEF ServePanel, serverVars
    <2>4. RunFits'
      BY <1>1, <2>1, <2>2, <2>3 DEF RunFits, ReadFits
    <2>5. TabTypeOK'
      BY <1>1, <1>4, <2>2, <2>3 DEF ServePanel, TabTypeOK, scopeVars, waitVars, reviewVars
    <2>6. acts' <= MaxActs /\ acts' \in {acts, acts + 1}
      BY <1>1, <2>3, Bounds DEF ServerTypeOK
    <2>7. (ServerTypeOK /\ PageFits)'
      BY <2>3, <2>6, PageUntouched
    <2> QED
      BY <2>4, <2>5, <2>7, ReadInvNext
  <1> QED
    BY <1>3, <1>4

\* What an action of the tab must still show once it touches no page and no base.
LEMMA TabStep ==
    ASSUME ReadInv, UNCHANGED <<base, selects, saves, pageVars>>,
           acts' \in {acts, acts + 1}, acts' <= MaxActs, TabTypeOK', RunFits'
    PROVE  ReadInv'
  BY PageUntouched, ReadInvNext

LEMMA ShowPageReads ==
    ASSUME ReadInv, ShowPage
    PROVE  ReadInv'
  <1>1. ServerTypeOK /\ PageFits /\ TabTypeOK
    BY ReadInvParts
  <1>2. /\ load \in Readings /\ load.phase = "read" /\ load.kind = "page"
        /\ ReadFits(load) /\ load.place = place /\ load' = None /\ place' = place
        /\ UNCHANGED <<base, selects, saves, acts, stored>>
    BY <1>1 DEF ShowPage, PageFits, LoadFits, None, serverVars
  <1>3. ServerTypeOK'
    BY <1>1, <1>2 DEF ServerTypeOK
  <1>4. page' \in [rows: Bases, changedOf: Bases, label: Bases, control: Bases] /\ PageShowsOneBase'
    BY <1>2 DEF ShowPage, PageOf, BaseOf, Readings, ReadFits, PageShowsOneBase
  <1>5. PageFits'
    BY <1>1, <1>2, <1>4 DEF PageFits, LoadFits
  <1>6. InitialScope(load.changed) \in Scopes
    BY DEF InitialScope, Scopes
  <1>7. /\ panel' = [query |-> NoText, scope |-> InitialScope(load.changed), place |-> load.place,
                     changed |-> load.changed, counted |-> load.counted]
        /\ scope' = "all" /\ boxes' = InitialScope(load.changed) /\ field' = NoText
        /\ timer' = NoTimer /\ running' = None /\ queued' = None /\ crossed' = FALSE
        /\ hasty' = FALSE /\ restoring' \in {"shown", "hidden"} /\ updates' = 0 /\ failed' = FALSE
        /\ reviews' = 0 /\ announced' = announced
    BY DEF ShowPage
  <1>8. NoText \in Texts /\ "all" \in Scopes /\ stored' \in Scopes \union {"none", "legacy"}
    BY <1>1, <1>2, Bounds DEF NoText, Texts, Scopes, TabTypeOK
  <1>a. announced' \in 0..saves'
    BY <1>1, <1>2, <1>7 DEF TabTypeOK
  <1>9. panel' \in [query: Texts, scope: Scopes, place: Documents, changed: Changes, counted: Counts]
    BY <1>2, <1>6, <1>7, <1>8 DEF Readings
  <1>10. timer' \in [input: {"none", "shown", "replaced"}, text: Texts]
    BY <1>7, <1>8 DEF NoTimer
  <1>11. TabTypeOK' /\ RunFits'
    BY <1>6, <1>7, <1>8, <1>9, <1>10, <1>a DEF TabTypeOK, RunFits, RequestTypes
  <1> QED
    BY <1>3, <1>5, <1>11, ReadInvNext

LEMMA DocumentReads ==
    ASSUME ReadInv, ShowDocument \/ DocumentFails
    PROVE  ReadInv'
  <1>1. ServerTypeOK /\ PageFits /\ TabTypeOK /\ RunFits
    BY ReadInvParts
  <1>2. /\ load \in Readings /\ load' = None /\ ReadFits(load) /\ load.kind = "document"
        /\ UNCHANGED <<base, selects, saves, acts>>
    BY <1>1 DEF ShowDocument, DocumentFails, PageFits, LoadFits, None, serverVars
  <1>3. ServerTypeOK'
    BY <1>1, <1>2 DEF ServerTypeOK
  <1>4. CASE ShowDocument
    <2>1. page' \in [rows: Bases, changedOf: Bases, label: Bases, control: Bases] /\ PageShowsOneBase'
      BY <1>2, <1>4 DEF ShowDocument, PageOf, BaseOf, Readings, ReadFits, PageShowsOneBase
    <2>2. load.place \in Documents
      BY <1>2 DEF Readings
    <2>3. PageFits'
      BY <1>2, <1>4, <2>1, <2>2 DEF ShowDocument, PageFits, LoadFits
    <2>4. TabTypeOK'
      BY <1>1, <1>2, <1>4, <2>2 DEF ShowDocument, TabTypeOK, scopeVars, waitVars, reviewVars
    <2>5. RunFits'
      BY <1>1, <1>2, <1>4 DEF ShowDocument, RunFits, ReadFits
    <2> QED
      BY <1>3, <2>3, <2>4, <2>5, ReadInvNext
  <1>5. CASE DocumentFails
    <2>1. PageFits'
      BY <1>1, <1>2, <1>5 DEF DocumentFails, PageFits, LoadFits, PageShowsOneBase
    <2> QED
      BY <1>2, <1>3, <1>5, <2>1, TabUntouched, ReadInvNext DEF DocumentFails
  <1> QED
    BY <1>4, <1>5

LEMMA AnswerReads ==
    ASSUME ReadInv, ShowPanel \/ PanelFails
    PROVE  ReadInv'
  <1>1. ServerTypeOK /\ PageFits /\ TabTypeOK /\ RunFits
    BY ReadInvParts
  <1>2. /\ UNCHANGED <<base, selects, saves, pageVars, acts, scope, stored, updates, reviews, announced>>
        /\ SendNext /\ running \in Readings
    BY <1>1 DEF ShowPanel, PanelFails, serverVars, scopeVars, reviewVars, TabTypeOK, None
  <1>3. /\ running' \in Readings \union {None} /\ queued' \in RequestTypes
        /\ crossed' \in BOOLEAN /\ hasty' \in BOOLEAN
        /\ restoring' \in {"shown", "hidden", "asked", "done"}
        /\ RunFits'
    BY <1>2, SendNextTypeOK
  <1>4. acts' <= MaxActs /\ acts' \in {acts, acts + 1}
    BY <1>1, <1>2, Bounds DEF ServerTypeOK
  <1>5. CASE ShowPanel
    <2>1. /\ panel' \in [query: Texts, scope: Scopes, place: Documents, changed: Changes, counted: Counts]
          /\ field' \in Texts /\ boxes' \in Scopes /\ failed' = FALSE
      BY <1>2, <1>5 DEF ShowPanel, Readings, BoxesOf, Scopes
    <2>2. timer' \in [input: {"none", "shown", "replaced"}, text: Texts]
      BY <1>1, <1>5 DEF ShowPanel, TabTypeOK
    <2>3. TabTypeOK'
      BY <1>1, <1>2, <1>3, <2>1, <2>2 DEF TabTypeOK
    <2> QED
      BY <1>2, <1>3, <1>4, <2>3, TabStep
  <1>6. CASE PanelFails
    <2>1. TabTypeOK'
      BY <1>1, <1>2, <1>3, <1>6 DEF PanelFails, TabTypeOK, scopeVars
    <2> QED
      BY <1>2, <1>3, <1>4, <2>1, TabStep
  <1> QED
    BY <1>5, <1>6

LEMMA RestoreReads ==
    ASSUME ReadInv, NEW changed \in Changes, RestoreScope(changed) \/ RestoreFails
    PROVE  ReadInv'
  <1>1. ServerTypeOK /\ PageFits /\ TabTypeOK /\ RunFits
    BY ReadInvParts
  <1>2. UNCHANGED <<base, selects, saves, pageVars, acts, panel, stored, field, timer, updates, reviews,
                   announced>>
    BY DEF RestoreScope, RestoreFails, serverVars, scopeVars, reviewVars
  <1>3. acts' <= MaxActs /\ acts' \in {acts, acts + 1}
    BY <1>1, <1>2, Bounds DEF ServerTypeOK
  <1>4. CASE RestoreScope(changed)
    <2> DEFINE s == ResolveScope(stored, changed)
    <2>1. s \in Scopes /\ NoText \in Texts
      BY Bounds DEF ResolveScope, Scopes, NoText, Texts
    <2>2. /\ scope' = s /\ failed' = failed
          /\ \/ boxes' = BoxesOf(s, panel.changed) /\ Request(NoText, s) /\ hasty' = FALSE
             \/ UNCHANGED <<boxes, requestVars>>
          /\ restoring' \in {"asked", "done"}
      BY <1>4 DEF RestoreScope
    <2>3. boxes' \in Scopes
      BY <1>1, <2>1, <2>2 DEF BoxesOf, Scopes, TabTypeOK
    <2>4. /\ running' \in Readings \union {None} /\ queued' \in RequestTypes
          /\ crossed' \in BOOLEAN /\ hasty' \in BOOLEAN
          /\ RunFits'
      <3>1. CASE Request(NoText, s) /\ hasty' = FALSE
        BY <1>2, <2>1, <3>1, RequestTypeOK
      <3>2. CASE UNCHANGED requestVars
        BY <1>1, <1>2, <3>2 DEF requestVars, TabTypeOK, RunFits, ReadFits
      <3> QED
        BY <2>2, <3>1, <3>2
    <2>5. TabTypeOK'
      BY <1>1, <1>2, <2>1, <2>2, <2>3, <2>4 DEF TabTypeOK
    <2> QED
      BY <1>2, <1>3, <2>4, <2>5, TabStep
  <1>5. CASE RestoreFails
    <2>1. TabTypeOK' /\ RunFits'
      BY <1>1, <1>2, <1>5 DEF RestoreFails, TabTypeOK, RunFits, ReadFits, scopeVars, requestVars
    <2> QED
      BY <1>2, <1>3, <2>1, TabStep
  <1> QED
    BY <1>4, <1>5

\* Whatever asks for the panel from within the tab.
LEMMA AskingReads ==
    ASSUME ReadInv, TimerFires \/ UpdateGoesOn \/ Clear \/ \E s \in Scopes : Tick(s)
    PROVE  ReadInv'
  <1>1. ServerTypeOK /\ PageFits /\ TabTypeOK /\ RunFits
    BY ReadInvParts
  <1>2. UNCHANGED <<base, selects, saves, pageVars, panel, failed, restoring, reviews, announced>>
    BY DEF TimerFires, UpdateGoesOn, Clear, Tick, UsesPanel, Acts, serverVars, waitVars, reviewVars
  <1>3. acts' \in {acts, acts + 1} /\ acts' <= MaxActs
    BY <1>1, Bounds DEF TimerFires, UpdateGoesOn, Clear, Tick, UsesPanel, Acts, ServerTypeOK
  <1>4. PICK query \in Texts, s \in Scopes : Request(query, s) /\ hasty' = Unrestored
    <2>1. NoText \in Texts
      BY Bounds DEF NoText, Texts
    <2>2. CASE TimerFires
      <3>1. (IF timer.input = "shown" THEN field ELSE timer.text) \in Texts /\ scope \in Scopes
        BY <1>1 DEF TabTypeOK
      <3> QED
        BY <2>2, <3>1 DEF TimerFires, RequestPanel
    <2>3. CASE UpdateGoesOn
      BY <1>1, <2>3 DEF UpdateGoesOn, RequestPanel, TabTypeOK
    <2>4. CASE Clear
      BY <1>1, <2>1, <2>4 DEF Clear, RequestPanel, TabTypeOK
    <2>5. CASE \E s \in Scopes : Tick(s)
      <3>1. PICK s \in Scopes : Tick(s)
        BY <2>5
      <3>2. boxes' \in Scopes
        BY <3>1 DEF Tick, Scopes
      <3> QED
        BY <1>1, <3>1, <3>2 DEF Tick, RequestPanel, TabTypeOK
    <2> QED
      BY <2>2, <2>3, <2>4, <2>5
  <1>5. /\ running' \in Readings \union {None} /\ queued' \in RequestTypes
        /\ crossed' \in BOOLEAN /\ hasty' \in BOOLEAN
        /\ RunFits'
    BY <1>2, <1>4, RequestTypeOK DEF Unrestored
  <1>6. field' \in Texts /\ timer' \in {NoTimer, timer}
    BY <1>1, Bounds DEF TimerFires, UpdateGoesOn, Clear, Tick, TabTypeOK, NoText, Texts
  <1>7. timer' \in [input: {"none", "shown", "replaced"}, text: Texts] /\ field' \in Texts
    BY <1>1, <1>6, Bounds DEF NoTimer, NoText, Texts, TabTypeOK
  <1>8. updates' \in Nat
    BY <1>1 DEF TimerFires, UpdateGoesOn, Clear, Tick, TabTypeOK, waitVars
  <1>9. scope' \in Scopes /\ boxes' \in Scopes /\ stored' \in Scopes \union {"none", "legacy"}
    BY <1>1 DEF TimerFires, UpdateGoesOn, Clear, Tick, TabTypeOK, scopeVars, Scopes
  <1>10. TabTypeOK'
    BY <1>1, <1>2, <1>5, <1>7, <1>8, <1>9 DEF TabTypeOK
  <1> QED
    BY <1>2, <1>3, <1>5, <1>10, TabStep

LEMMA OtherActsRead ==
    ASSUME ReadInv,
           \/ \E text \in Texts : Type(text)
           \/ \E d \in Documents : Follow(d)
           \/ \E c \in Listed : SelectBase(c)
           \/ SaveAnnotation
    PROVE  ReadInv'
  <1>1. ServerTypeOK /\ PageFits /\ TabTypeOK /\ RunFits
    BY ReadInvParts
  <1>2. base' = base /\ acts' = acts + 1 /\ acts' <= MaxActs
    BY <1>1, Bounds
    DEF Type, Follow, SelectBase, SaveAnnotation, UsesPanel, Acts, ServerTypeOK, pageVars
  <1>3. CASE \E text \in Texts : Type(text)
    <2>1. PICK text \in Texts : Type(text)
      BY <1>3
    <2>2. timer' \in [input: {"none", "shown", "replaced"}, text: Texts]
      BY <2>1, Bounds DEF Type, NoText, Texts
    <2>3. TabTypeOK' /\ RunFits'
      BY <1>1, <1>2, <2>1, <2>2
      DEF Type, TabTypeOK, RunFits, ReadFits, scopeVars, requestVars, waitVars, reviewVars
    <2> QED
      BY <1>2, <2>1, <2>3, TabStep DEF Type
  <1>4. CASE \E d \in Documents : Follow(d)
    <2>1. PICK d \in Documents : Follow(d)
      BY <1>4
    <2>2. load' = Reading("document", d, NoText, "all")
      BY <2>1 DEF Follow
    <2>3. NoText \in Texts /\ "all" \in Scopes
      BY Bounds DEF NoText, Texts, Scopes
    <2>4. load' \in Readings /\ load'.kind = "document" /\ ReadFits(load')
      BY <1>1, <2>2, <2>3, NewReading DEF ServerTypeOK
    <2>5. UNCHANGED <<selects, saves, page, place, tabVars>>
      BY <2>1 DEF Follow
    <2>6. LoadFits' /\ PageShowsOneBase'
      BY <1>1, <1>2, <2>4, <2>5 DEF LoadFits, ReadFits, PageFits, PageShowsOneBase
    <2>7. PageFits'
      BY <1>1, <2>4, <2>5, <2>6 DEF PageFits
    <2>8. ServerTypeOK'
      BY <1>1, <1>2, <2>5, Bounds DEF ServerTypeOK
    <2> QED
      BY <1>2, <2>5, <2>7, <2>8, TabUntouched, ReadInvNext
  <1>5. CASE \E c \in Listed : SelectBase(c)
    <2>1. PICK c \in Listed : SelectBase(c)
      BY <1>5
    <2>2. UNCHANGED <<saves, pageVars, tabVars>> /\ selects' \subseteq Commits
      BY <1>1, <2>1, CatalogAssumption DEF SelectBase, ServerTypeOK
    <2>3. ServerTypeOK'
      BY <1>1, <1>2, <2>2, Bounds DEF ServerTypeOK
    <2>4. PageFits'
      BY <1>1, <1>2, <2>2 DEF PageFits, LoadFits, ReadFits, PageShowsOneBase, pageVars
    <2> QED
      BY <1>2, <2>2, <2>3, <2>4, TabUntouched, ReadInvNext
  <1>6. CASE SaveAnnotation
    <2>1. /\ UNCHANGED <<selects, pageVars, panel, scopeVars, field, timer, requestVars,
                         restoring, updates, announced, failed>>
          /\ saves' \in {saves, saves + 1} /\ reviews' = reviews + 1
      BY <1>6 DEF SaveAnnotation
    <2>2. load # None => load.kind = "document"
      BY <1>1, <1>6 DEF SaveAnnotation, Acts, Usable, PageFits, LoadFits
    <2>3. saves' \in Nat /\ saves' <= acts' /\ saves' \in 0..MaxActs /\ saves <= saves'
      BY <1>1, <1>2, <2>1, Bounds DEF ServerTypeOK
    <2>4. ServerTypeOK'
      BY <1>1, <1>2, <2>1, <2>3, Bounds DEF ServerTypeOK
    <2>5. PageFits'
      BY <1>1, <1>2, <2>1, <2>2 DEF PageFits, LoadFits, ReadFits, PageShowsOneBase, pageVars
    <2>a. announced' \in 0..saves'
      BY <1>1, <2>1, <2>3, Bounds DEF TabTypeOK, ServerTypeOK
    <2>6. TabTypeOK' /\ RunFits'
      BY <1>1, <1>2, <2>1, <2>a DEF TabTypeOK, RunFits, ReadFits, scopeVars, requestVars
    <2> QED
      BY <2>4, <2>5, <2>6, ReadInvNext
  <1> QED
    BY <1>3, <1>4, <1>5, <1>6

\* The answer to a save is dealt with in the tab alone.
LEMMA ReviewReads ==
    ASSUME ReadInv, Announce \/ SaveGoesUnannounced
    PROVE  ReadInv'
  <1>1. ServerTypeOK /\ PageFits /\ TabTypeOK /\ RunFits
    BY ReadInvParts
  <1>2. /\ UNCHANGED <<base, selects, saves, pageVars, acts, panel, scopeVars, field, timer,
                       requestVars, restoring, failed>>
        /\ reviews > 0 /\ reviews' = reviews - 1
        /\ updates' \in {updates, updates + 1} /\ announced' \in {announced, saves}
    BY DEF Announce, SaveGoesUnannounced, serverVars
  <1>3. acts' <= MaxActs /\ acts' \in {acts, acts + 1} /\ saves \in 0..saves
    BY <1>1, <1>2, Bounds DEF ServerTypeOK
  <1>4. reviews' \in Nat /\ updates' \in Nat /\ announced' \in 0..saves'
    BY <1>1, <1>2, <1>3 DEF TabTypeOK
  <1>5. TabTypeOK' /\ RunFits'
    BY <1>1, <1>2, <1>4 DEF TabTypeOK, RunFits, ReadFits, scopeVars, requestVars
  <1> QED
    BY <1>2, <1>3, <1>5, TabStep

LEMMA NothingReads ==
    ASSUME ReadInv, UNCHANGED vars
    PROVE  ReadInv'
  <1>1. ServerTypeOK /\ PageFits /\ TabTypeOK /\ RunFits
    BY ReadInvParts
  <1>2. UNCHANGED <<base, selects, saves, pageVars, acts, tabVars>>
    BY DEF vars, serverVars, tabVars
  <1>3. acts' <= MaxActs /\ acts' \in {acts, acts + 1}
    BY <1>1, <1>2, Bounds DEF ServerTypeOK
  <1> QED
    BY <1>2, <1>3, TabUntouched, TabStep

LEMMA StepReads ==
    ASSUME ReadInv, [Next]_vars
    PROVE  ReadInv'
  <1>1. ASSUME NEW c \in selects, ServeSelect(c)
        PROVE  ReadInv'
    <2>1. c \in Commits
      BY ReadInvParts DEF ServerTypeOK
    <2> QED
      BY <1>1, <2>1, SelectionReads
  <1>2. CASE Arrives
    <2>1. ASSUME NEW changed \in {ChangedPaths(base), GitFailed}, RestoreScope(changed)
          PROVE  ReadInv'
      <3>1. changed \in Changes
        <4>1. base.commit \in Commits
          BY ReadInvParts, CatalogAssumption DEF ServerTypeOK, Bases, NoBase, Base
        <4>2. Differs[base.commit] \in SUBSET Paths
          BY <4>1, CatalogAssumption
        <4>3. ChangedPaths(base) \in Changes
          BY <4>2 DEF ChangedPaths, Changes
        <4>4. GitFailed \in Changes
          BY DEF GitFailed, Changes
        <4> QED
          BY <4>3, <4>4
      <3> QED
        BY <2>1, <3>1, RestoreReads
    <2>2. CASE RestoreFails
      <3>1. GitFailed \in Changes
        BY DEF GitFailed, Changes
      <3> QED
        BY <2>2, <3>1, RestoreReads
    <2> QED
      BY <1>2, <2>1, <2>2, ShowPageReads, DocumentReads, AnswerReads, AskingReads,
         ReviewReads
      DEF Arrives
  <1>3. CASE User
    BY <1>3, AskingReads, OtherActsRead DEF User, Scopes
  <1> QED
    BY <1>1, <1>2, <1>3, SelectionReads, ServingReads, NothingReads DEF Next

LEMMA ReadsAlways == Spec => []ReadInv
  BY ReadInitially, StepReads, PTL DEF Spec

\* For any documents, commits and bounds every variable keeps its type: the base is
\* the configured commit or one that Git listed when a tab asked for it.
THEOREM CatalogTypeCorrect == Spec => []TypeOK
  <1>1. ReadInv => TypeOK
    BY DEF ReadInv
  <1> QED
    BY <1>1, ReadsAlways, PTL

\* However selections interleave with the reads of a page (renderPage), its rows, its
\* changed marks and the commit it names are of one base.
THEOREM PagesShowOneBase == Spec => []PageShowsOneBase
  <1>1. ReadInv => PageShowsOneBase
    BY DEF ReadInv
  <1> QED
    BY <1>1, ReadsAlways, PTL

-----------------------------------------------------------------------------
(* What the tab wants to see: the invariant of the requests *)

\* The request that was made last.
Latest == IF queued # None THEN queued ELSE running

\* A query shown without a request or a timer under way is the text of the field.
QueryFits == running = None /\ timer = NoTimer /\ ~failed => panel.query = field

PlaceFits ==
    ~crossed => /\ running # None => running.place = place
                /\ running = None /\ ~failed => panel.place = place

\* Until the scope is restored nothing was asked for, and then the last request is for it.
ScopeFits ==
    ~hasty =>
       IF Unrestored
       THEN /\ running = None /\ queued = None
            /\ panel.scope = boxes /\ (boxes = "changed" => panel.changed.known)
       ELSE /\ Latest # None => Latest.scope = scope
            /\ running = None /\ ~failed =>
                  panel.scope = scope /\ boxes = BoxesOf(scope, panel.changed)

\* With no update waiting, the newest read has not counted yet or counted all the saves
\* that were announced.
CountsFit ==
    updates = 0 =>
       /\ running = None /\ ~failed => announced <= panel.counted
       /\ running # None /\ queued = None => running.counted = NotRead \/ announced <= running.counted

PanelInv ==
    /\ queued # None => running # None
    /\ QueryFits /\ PlaceFits /\ ScopeFits /\ CountsFit

LEMMA Asking ==
    ASSUME ReadInv, PanelInv, NEW query \in Texts, NEW s \in Scopes, Request(query, s)
    PROVE  /\ running' # None /\ Latest' # None /\ Latest'.scope = s
           /\ queued' = None => running'.counted = NotRead
           /\ ~crossed' => running'.place = place
  <1>1. base \in Bases /\ place \in Documents
    BY DEF ReadInv, TypeOK
  <1>2. Asked(query, s) # None /\ Asked(query, s).scope = s
    BY DEF Asked, None
  <1>3. CASE running = None
    <2>1. running' = Reading("panel", place, query, s) /\ queued' = None
      BY <1>3 DEF Request, Sent, Asked
    <2>2. /\ running' # None /\ running'.scope = s
          /\ running'.counted = NotRead /\ running'.place = place
      BY <1>1, <2>1, NewReading
    <2> QED
      BY <2>1, <2>2 DEF Latest
  <1>4. CASE running # None
    <2>1. running' = running /\ crossed' = crossed /\ queued' = Asked(query, s)
      BY <1>4 DEF Request, Queue
    <2> QED
      BY <1>2, <1>4, <2>1 DEF Latest, PanelInv, PlaceFits
  <1> QED
    BY <1>3, <1>4

\* An answer that ends the requests leaves none; otherwise the waiting one is sent anew.
LEMMA Answering ==
    ASSUME ReadInv, PanelInv, SendNext, running # None
    PROVE  /\ queued' = None
           /\ queued = None => running' = None /\ crossed' = crossed
           /\ queued # None => /\ running' # None /\ running'.scope = queued.scope
                               /\ running'.counted = NotRead /\ running'.place = place
           /\ ~hasty' => ~hasty /\ ~Unrestored /\ ~Unrestored'
  <1>1. base \in Bases /\ place \in Documents /\ queued \in RequestTypes /\ crossed \in BOOLEAN
    BY DEF ReadInv, TypeOK, RequestTypes
  <1>2. queued' = None /\ (queued = None => running' = None /\ crossed' = crossed)
    BY <1>1 DEF SendNext
  <1>3. ASSUME queued # None
        PROVE  /\ running' # None /\ running'.scope = queued.scope
               /\ running'.counted = NotRead /\ running'.place = place
    <2>1. queued.query \in Texts /\ queued.scope \in Scopes
      BY <1>1, <1>3 DEF RequestTypes
    <2>2. running' = Reading("panel", place, queued.query, queued.scope)
      BY <1>3 DEF SendNext, Sent
    <2> QED
      BY <1>1, <2>1, <2>2, NewReading
  <1>4. ~hasty' => ~hasty /\ ~Unrestored /\ ~Unrestored'
    BY DEF SendNext, PanelInv, ScopeFits, Unrestored
  <1> QED
    BY <1>2, <1>3, <1>4

LEMMA PanelInitially == Init => PanelInv
  BY DEF Init, PanelInv, QueryFits, PlaceFits, ScopeFits, CountsFit, Unrestored, Latest, BoxesOf, None

\* Steps of the server and navigations leave what was asked for as it is.
LEMMA TabKeepsPanel ==
    ASSUME PanelInv, UNCHANGED <<tabVars, place>>
    PROVE  PanelInv'
  BY DEF PanelInv, QueryFits, PlaceFits, ScopeFits, CountsFit, Unrestored, Latest,
         tabVars, scopeVars, requestVars, waitVars, reviewVars

LEMMA ServePanelKeeps ==
    ASSUME ReadInv, PanelInv, ServePanel
    PROVE  PanelInv'
  <1>1. ServerTypeOK /\ TabTypeOK /\ RunFits
    BY ReadInvParts
  <1>2. None \notin Readings /\ Reads(None) = {} /\ Fails(None) = {}
    <2>1. Fails(None) = {}
      BY DEF Fails, None
    <2>2. None.phase = "none"
      BY DEF None
    <2>3. Reads(None) = {}
      BY <2>2, Zenon DEF Reads
    <2> QED
      BY <2>1, <2>3, NothingIsNoReading
  <1>3. running' \in Reads(running) \union Fails(running) /\ running # None /\ running \in Readings
    BY <1>1, <1>2 DEF ServePanel, TabTypeOK
  <1>4. /\ running' # None /\ running'.place = running.place /\ running'.scope = running.scope
        /\ running'.counted = running.counted \/ running'.counted = saves
    BY <1>1, <1>2, <1>3, ReadStep DEF ServerTypeOK, RunFits
  <1>5. UNCHANGED <<saves, place, panel, scope, stored, boxes, field, timer, queued, crossed, hasty,
                    restoring, updates, announced, failed>>
    BY DEF ServePanel, serverVars, pageVars, scopeVars, waitVars, reviewVars
  <1>6. announced \in Int /\ saves \in Int /\ announced <= saves
    BY <1>1, Bounds DEF ServerTypeOK, TabTypeOK
  <1>7. QueryFits' /\ PlaceFits' /\ (queued' # None => running' # None)
    BY <1>3, <1>4, <1>5 DEF PanelInv, QueryFits, PlaceFits
  <1>8. ScopeFits'
    BY <1>3, <1>4, <1>5 DEF PanelInv, ScopeFits, Unrestored, Latest
  <1>9. CountsFit'
    BY <1>3, <1>4, <1>5, <1>6 DEF PanelInv, CountsFit
  <1> QED
    BY <1>7, <1>8, <1>9 DEF PanelInv

LEMMA ShowPageKeeps ==
    ASSUME ReadInv, ShowPage
    PROVE  PanelInv'
  <1>1. PageFits /\ ServerTypeOK /\ TabTypeOK
    BY ReadInvParts
  <1>2. /\ load \in Readings /\ load.place = place /\ load.counted = saves
        /\ ~load.changed.known => load.changed.paths = {}
    BY <1>1 DEF ShowPage, PageFits, LoadFits, ReadFits, None
  <1>3. /\ panel'.query = NoText /\ panel'.scope = InitialScope(load.changed)
        /\ panel'.place = load.place /\ panel'.changed = load.changed /\ panel'.counted = saves
        /\ boxes' = InitialScope(load.changed) /\ field' = NoText
        /\ running' = None /\ queued' = None
        /\ restoring' \in {"shown", "hidden"} /\ announced' = announced /\ place' = place
    BY <1>2 DEF ShowPage, serverVars
  <1>4. InitialScope(load.changed) = "changed" => load.changed.known
    BY <1>2 DEF InitialScope
  <1>5. announced <= saves
    BY <1>1 DEF TabTypeOK
  <1>6. CountsFit'
    BY <1>3, <1>5 DEF CountsFit
  <1>7. QueryFits' /\ PlaceFits' /\ ScopeFits'
    BY <1>2, <1>3, <1>4 DEF QueryFits, PlaceFits, ScopeFits, Unrestored
  <1> QED
    BY <1>3, <1>6, <1>7 DEF PanelInv

LEMMA ShowDocumentKeeps ==
    ASSUME ReadInv, PanelInv, ShowDocument
    PROVE  PanelInv'
  <1>1. /\ panel \in [query: Texts, scope: Scopes, place: Documents, changed: Changes, counted: Counts]
        /\ load.place = place'
    BY DEF ReadInv, TypeOK, ShowDocument
  <1>2. /\ panel'.query = panel.query /\ panel'.scope = panel.scope
        /\ panel'.changed = panel.changed /\ panel'.counted = panel.counted
        /\ panel'.place = place'
    BY <1>1 DEF ShowDocument
  <1>3. /\ UNCHANGED <<scope, stored, boxes, field, timer, running, queued, hasty,
                       restoring, updates, announced, failed>>
        /\ crossed' = (running # None)
    BY DEF ShowDocument, serverVars, scopeVars, waitVars, reviewVars
  <1>4. QueryFits' /\ PlaceFits' /\ CountsFit'
    BY <1>2, <1>3 DEF PanelInv, QueryFits, PlaceFits, CountsFit
  <1>5. ScopeFits'
    BY <1>2, <1>3 DEF PanelInv, ScopeFits, Unrestored, Latest
  <1> QED
    BY <1>3, <1>4, <1>5 DEF PanelInv

LEMMA ShowPanelKeeps ==
    ASSUME ReadInv, PanelInv, ShowPanel
    PROVE  PanelInv'
  <1>1. ServerTypeOK /\ TabTypeOK /\ RunFits
    BY ReadInvParts
  <1>2. /\ running # None /\ SendNext /\ failed' = FALSE
        /\ UNCHANGED <<announced, place, scope, updates>>
        /\ running.counted # NotRead
    BY <1>1 DEF ShowPanel, serverVars, pageVars, reviewVars, None, RunFits, ReadFits
  <1>3. /\ panel'.query = running.query /\ panel'.scope = running.scope
        /\ panel'.place = running.place /\ panel'.changed = running.changed
        /\ panel'.counted = running.counted /\ field' = running.query
        /\ boxes' = BoxesOf(running.scope, running.changed)
    BY DEF ShowPanel
  <1>4. /\ queued' = None
        /\ queued = None => running' = None /\ crossed' = crossed
        /\ queued # None => /\ running' # None /\ running'.scope = queued.scope
                            /\ running'.counted = NotRead /\ running'.place = place
        /\ ~hasty' => ~hasty /\ ~Unrestored /\ ~Unrestored'
    BY <1>2, Answering
  <1>5. QueryFits' /\ (queued' # None => running' # None)
    BY <1>3, <1>4 DEF QueryFits
  <1>6. PlaceFits'
    BY <1>2, <1>3, <1>4 DEF PanelInv, PlaceFits
  <1>7. ScopeFits'
    <2> SUFFICES ASSUME ~hasty' PROVE ScopeFits'
      BY DEF ScopeFits
    <2>1. Latest.scope = scope
      BY <1>2, <1>4 DEF PanelInv, ScopeFits, Latest
    <2> QED
      BY <1>2, <1>3, <1>4, <2>1 DEF ScopeFits, Latest
  <1>8. CountsFit'
    BY <1>2, <1>3, <1>4 DEF PanelInv, CountsFit
  <1> QED
    BY <1>5, <1>6, <1>7, <1>8 DEF PanelInv

LEMMA PanelFailsKeeps ==
    ASSUME ReadInv, PanelInv, PanelFails
    PROVE  PanelInv'
  <1>1. /\ running # None /\ SendNext /\ failed' = TRUE
        /\ UNCHANGED <<announced, place, panel, scope, boxes, updates>>
    BY DEF PanelFails, serverVars, pageVars, scopeVars, reviewVars, None
  <1>2. /\ queued' = None
        /\ queued = None => running' = None /\ crossed' = crossed
        /\ queued # None => /\ running' # None /\ running'.scope = queued.scope
                            /\ running'.counted = NotRead /\ running'.place = place
        /\ ~hasty' => ~hasty /\ ~Unrestored /\ ~Unrestored'
    BY <1>1, Answering
  <1>3. QueryFits' /\ PlaceFits' /\ CountsFit' /\ (queued' # None => running' # None)
    BY <1>1, <1>2 DEF QueryFits, PlaceFits, CountsFit
  <1>4. ScopeFits'
    BY <1>1, <1>2 DEF PanelInv, ScopeFits, Latest
  <1> QED
    BY <1>3, <1>4 DEF PanelInv

\* An action that asked for the panel with the scope it leaves behind.
LEMMA AskedKeeps ==
    ASSUME ReadInv, PanelInv, NEW query \in Texts, Request(query, scope'), scope' \in Scopes,
           ~hasty' => ~Unrestored', place' = place
    PROVE  PanelInv'
  <1>1. /\ running' # None /\ Latest' # None /\ Latest'.scope = scope'
        /\ queued' = None => running'.counted = NotRead
        /\ ~crossed' => running'.place = place
    BY Asking
  <1>2. ScopeFits'
    BY <1>1 DEF ScopeFits
  <1> QED
    BY <1>1, <1>2 DEF PanelInv, QueryFits, PlaceFits, CountsFit

LEMMA RestoreKeeps ==
    ASSUME ReadInv, PanelInv, NEW changed, RestoreScope(changed) \/ RestoreFails
    PROVE  PanelInv'
  <1>1. UNCHANGED <<place, announced, panel, stored, field, timer, updates>>
    BY DEF RestoreScope, RestoreFails, serverVars, pageVars, scopeVars, reviewVars
  <1>2. CASE RestoreScope(changed)
    <2> DEFINE s == ResolveScope(stored, changed)
    <2>1. s \in Scopes /\ NoText \in Texts
      BY Bounds DEF ResolveScope, Scopes, NoText, Texts
    <2>2. scope' = s /\ Unrestored /\ ~Unrestored' /\ failed' = failed
      BY <1>2 DEF RestoreScope, Unrestored
    <2>3. CASE Request(NoText, s)
      BY <1>1, <2>1, <2>2, <2>3, AskedKeeps
    <2>4. CASE s = boxes /\ UNCHANGED <<boxes, requestVars>>
      <3>1. UNCHANGED <<running, queued, crossed, hasty>>
        BY <2>4 DEF requestVars
      <3>2. QueryFits' /\ PlaceFits' /\ CountsFit' /\ (queued' # None => running' # None)
        BY <1>1, <2>2, <3>1 DEF PanelInv, QueryFits, PlaceFits, CountsFit
      <3>3. ScopeFits'
        BY <1>1, <2>2, <2>4, <3>1 DEF PanelInv, ScopeFits, Latest, BoxesOf
      <3> QED
        BY <3>2, <3>3 DEF PanelInv
    <2> QED
      BY <1>2, <2>3, <2>4 DEF RestoreScope
  <1>3. CASE RestoreFails
    <2>1. /\ UNCHANGED <<scope, boxes, running, queued, crossed, hasty>> /\ failed' = TRUE
          /\ Unrestored /\ ~Unrestored'
      BY <1>3 DEF RestoreFails, scopeVars, requestVars, Unrestored
    <2>2. QueryFits' /\ PlaceFits' /\ CountsFit' /\ (queued' # None => running' # None)
      BY <1>1, <2>1 DEF PanelInv, QueryFits, PlaceFits, CountsFit
    <2>3. ScopeFits'
      BY <1>1, <2>1 DEF PanelInv, ScopeFits, Latest
    <2> QED
      BY <2>2, <2>3 DEF PanelInv
  <1> QED
    BY <1>2, <1>3

LEMMA AskingKeeps ==
    ASSUME ReadInv, PanelInv, TimerFires \/ UpdateGoesOn \/ Clear \/ \E s \in Scopes : Tick(s)
    PROVE  PanelInv'
  <1>1. TabTypeOK /\ NoText \in Texts
    BY ReadInvParts, Bounds DEF NoText, Texts
  <1>2. place' = place /\ restoring' = restoring
    BY DEF TimerFires, UpdateGoesOn, Clear, Tick, pageVars, waitVars
  <1>3. ASSUME NEW query \in Texts, RequestPanel(query, scope'), scope' \in Scopes
        PROVE  PanelInv'
    <2>1. ~hasty' => ~Unrestored'
      BY <1>2, <1>3 DEF RequestPanel, Unrestored
    <2> QED
      BY <1>2, <1>3, <2>1, AskedKeeps DEF RequestPanel
  <1>4. CASE TimerFires
    <2> DEFINE query == IF timer.input = "shown" THEN field ELSE timer.text
    <2>1. query \in Texts /\ scope' = scope /\ scope \in Scopes
      BY <1>1, <1>4 DEF TabTypeOK, TimerFires, scopeVars
    <2>2. RequestPanel(query, scope')
      BY <1>4, <2>1 DEF TimerFires
    <2> QED
      BY <1>3, <2>1, <2>2
  <1>5. CASE UpdateGoesOn
    <2>1. field \in Texts /\ scope' = scope /\ scope \in Scopes
      BY <1>1, <1>5 DEF TabTypeOK, UpdateGoesOn, scopeVars
    <2> QED
      BY <1>3, <1>5, <2>1 DEF UpdateGoesOn
  <1>6. CASE Clear
    <2>1. scope' = scope /\ scope \in Scopes
      BY <1>1, <1>6 DEF TabTypeOK, Clear, scopeVars
    <2> QED
      BY <1>1, <1>3, <1>6, <2>1 DEF Clear
  <1>7. CASE \E s \in Scopes : Tick(s)
    <2>1. PICK s \in Scopes : Tick(s)
      BY <1>7
    <2>2. scope' = boxes' /\ scope' \in Scopes /\ field \in Texts
      BY <1>1, <2>1 DEF Tick, Scopes, TabTypeOK
    <2> QED
      BY <1>3, <2>1, <2>2 DEF Tick
  <1> QED
    BY <1>4, <1>5, <1>6, <1>7

LEMMA OtherActsKeep ==
    ASSUME ReadInv, PanelInv,
           \/ \E text \in Texts : Type(text)
           \/ \E d \in Documents : Follow(d)
           \/ \E c \in Listed : SelectBase(c)
           \/ SaveAnnotation
    PROVE  PanelInv'
  <1>1. CASE \E text \in Texts : Type(text)
    <2>1. /\ timer' # NoTimer
          /\ UNCHANGED <<announced, place, panel, scope, boxes, running, queued, crossed, hasty,
                         restoring, updates, failed>>
      BY <1>1 DEF Type, NoTimer, pageVars, scopeVars, requestVars, waitVars, reviewVars
    <2> QED
      BY <2>1 DEF PanelInv, QueryFits, PlaceFits, ScopeFits, CountsFit, Unrestored, Latest
  <1>2. CASE \E d \in Documents : Follow(d)
    <2>1. UNCHANGED <<tabVars, place>>
      BY <1>2 DEF Follow
    <2> QED
      BY <2>1, TabKeepsPanel
  <1>3. CASE \E c \in Listed : SelectBase(c)
    <2>1. UNCHANGED <<tabVars, place>>
      BY <1>3 DEF SelectBase, pageVars
    <2> QED
      BY <2>1, TabKeepsPanel
  <1>4. CASE SaveAnnotation
    <2>1. UNCHANGED <<place, panel, scope, boxes, field, timer, running, queued, crossed, hasty,
                      restoring, updates, announced, failed>>
      BY <1>4 DEF SaveAnnotation, pageVars, scopeVars, requestVars
    <2> QED
      BY <2>1 DEF PanelInv, QueryFits, PlaceFits, ScopeFits, CountsFit, Unrestored, Latest
  <1> QED
    BY <1>1, <1>2, <1>3, <1>4

\* An announcement leaves an update waiting.
LEMMA ReviewKeeps ==
    ASSUME ReadInv, PanelInv, Announce \/ SaveGoesUnannounced
    PROVE  PanelInv'
  <1>1. UNCHANGED <<place, panel, scope, boxes, field, timer, running, queued, crossed, hasty,
                    restoring, failed>>
    BY DEF Announce, SaveGoesUnannounced, pageVars, scopeVars, requestVars
  <1>2. CountsFit'
    <2>1. CASE Announce
      <3>1. updates \in Nat /\ updates' = updates + 1
        BY <2>1 DEF ReadInv, TypeOK, Announce
      <3> QED
        BY <3>1 DEF CountsFit
    <2>2. CASE SaveGoesUnannounced
      BY <1>1, <2>2 DEF SaveGoesUnannounced, PanelInv, CountsFit
    <2> QED
      BY <2>1, <2>2
  <1> QED
    BY <1>1, <1>2 DEF PanelInv, QueryFits, PlaceFits, ScopeFits, Unrestored, Latest

LEMMA StepKeepsPanel ==
    ASSUME ReadInv, PanelInv, [Next]_vars
    PROVE  PanelInv'
  <1>1. ASSUME NEW c, OtherSelects(c) \/ ServeSelect(c)
        PROVE  PanelInv'
    BY <1>1, TabKeepsPanel DEF OtherSelects, ServeSelect, pageVars
  <1>2. CASE ServeLoad \/ DocumentFails \/ UNCHANGED vars
    <2>1. UNCHANGED <<tabVars, place>>
      BY <1>2 DEF ServeLoad, DocumentFails, vars, serverVars, pageVars, tabVars
    <2> QED
      BY <2>1, TabKeepsPanel
  <1>3. CASE Arrives
    <2>1. ASSUME NEW changed \in {ChangedPaths(base), GitFailed}, RestoreScope(changed)
          PROVE  PanelInv'
      BY <2>1, RestoreKeeps
    <2> QED
      BY <1>2, <1>3, <2>1, ShowPageKeeps, ShowDocumentKeeps, ShowPanelKeeps, PanelFailsKeeps,
         RestoreKeeps, AskingKeeps, ReviewKeeps
      DEF Arrives
  <1>4. CASE User
    BY <1>4, AskingKeeps, OtherActsKeep DEF User, Scopes
  <1> QED
    BY <1>1, <1>2, <1>3, <1>4, ServePanelKeeps DEF Next

LEMMA PanelAlways == Spec => [](ReadInv /\ PanelInv)
  BY ReadInitially, PanelInitially, StepReads, StepKeepsPanel, PTL DEF Spec

\* Whatever typing, boxes, timers, updates, restored scopes and failures ask for, once
\* everything has come to an end and the last answer was good the panel shows what its
\* field and boxes say (document-search.ts).
THEOREM SettledPanelIsRight == Spec => []SettledPanelMatches
  <1>1. ReadInv /\ PanelInv => SettledPanelMatches
    BY DEF PanelInv, QueryFits, PlaceFits, ScopeFits, Unrestored, Settled, SettledPanelMatches
  <1> QED
    BY <1>1, PanelAlways, PTL

\* The counts of a settled panel contain every save the tab itself has announced, for
\* any number of saves and requests that overtake each other.
THEOREM CountsAreCaughtUp == Spec => []CountsCatchUp
  <1>1. PanelInv => CountsCatchUp
    BY DEF PanelInv, CountsFit, Settled, CountsCatchUp
  <1> QED
    BY <1>1, PanelAlways, PTL
=============================================================================
