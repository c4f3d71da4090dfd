---------------------------- MODULE ReviewServer ----------------------------
(***************************************************************************)
(* The mutation handlers of internal/server over one sidecar of            *)
(* internal/annotation/store, within one server process.                   *)
(*                                                                         *)
(* A request is handled in steps that other requests, an editor saving the *)
(* document, clock adjustments and a crash can fall between: the handler   *)
(* reads the document (Accept), loads the sidecar and computes its         *)
(* successor from what it has read (Create, Reply, Transition, Reattach),  *)
(* and saves it against the revision the client sent in If-Match (Save).   *)
(* Load and Save each hold the store mutex, so each is one step.  The      *)
(* revision of a sidecar is the digest of its bytes: here the sidecar      *)
(* itself, the empty one being the file that does not exist yet.           *)
(***************************************************************************)
EXTENDS Annotation

CONSTANTS
    Clients,            \* browser tabs and agent command invocations
    PastOps,            \* the operations of earlier sessions
    InitialSidecars,    \* what those may have left on disk
    Requests,           \* bound: the requests clients make, out of all Inputs
    StartClock,         \* the wall clock when the server starts
    ClockStepsBack,     \* whether the wall clock may be set back
    MaxOps,             \* bound: requests accepted
    MaxClock            \* bound: highest reading of the clock

ASSUME BoundsAssumption ==
    /\ MaxOps \in Nat
    /\ StartClock \in Nat
    /\ MaxClock \in Nat
    /\ StartClock <= MaxClock
    /\ ClockStepsBack \in BOOLEAN
    /\ PastOps \subseteq Int \ (1..MaxOps)

VARIABLES
    sidecar,    \* the persisted sidecar
    document,   \* the current content of the document
    clock,      \* the wall clock
    ops,        \* how many requests have been accepted
    req,        \* req[c]: the request client c waits for
    view,       \* view[c]: the sidecar whose revision client c holds
    page,       \* page[c]: the document content client c has on screen
    applied     \* ghost: what reached the file, with the revision it was sent with

vars == <<sidecar, document, clock, ops, req, view, page, applied>>

Ops == 1..MaxOps
Drawn(n) == PastOps \union 1..n    \* the identifiers there are after n requests
Identifiers == Drawn(MaxOps)
Times == 0..MaxClock

NoSelection == [document |-> "none"]
Selections == [document: Documents, range: Ranges]

CreateInputs == [kind: {"create"}, role: Roles, selection: Selections \union {NoSelection}]
ReplyInputs == [kind: {"reply"}, role: Roles, target: Identifiers, content: SUBSET Fields]
TransitionInputs ==
    [kind: {"transition"}, role: Roles, target: Identifiers, to: Statuses, content: SUBSET Fields]
ReattachInputs == [kind: {"reattach"}, target: Identifiers, selection: Selections]
Inputs == CreateInputs \union ReplyInputs \union TransitionInputs \union ReattachInputs

Entries == [op: Identifiers, kind: ThreadKinds, role: Roles,
            from: Statuses \union {""}, to: Statuses \union {""}, at: Times]

Annotations == [status: Statuses, role: Roles, createdAt: Times, updatedAt: Times,
                source: Sources \union {NoSource}, needsReattachment: BOOLEAN,
                thread: Seq(Entries)]

IsSidecar(s, n) == DOMAIN s \subseteq Drawn(n) /\ s \in [DOMAIN s -> Annotations]

ASSUME RequestsAssumption == Requests \subseteq Inputs

\* Earlier sessions ran the same code.
ASSUME PastAssumption ==
    \A s \in InitialSidecars : IsSidecar(s, 0) /\ SidecarValid(s) /\ Consistent(s)

Outcomes == {"ok", "conflict", "invalid", "not_found", "internal"}
Idle == [phase |-> "idle"]

Init ==
    /\ sidecar \in InitialSidecars
    /\ document \in Documents
    /\ clock = StartClock
    /\ ops = 0
    /\ req = [c \in Clients |-> Idle]
    /\ view = [c \in Clients |-> sidecar]
    /\ page = [c \in Clients |-> document]
    /\ applied = {}

-----------------------------------------------------------------------------
(***************************************************************************)
(* A handler's steps                                                       *)
(***************************************************************************)

\* The request arrives and its handler reads the document (loadAnnotationSource).
Accept(c, input) ==
    /\ req[c].phase = "idle"
    /\ ops < MaxOps
    /\ ops' = ops + 1
    /\ req' = [req EXCEPT ![c] = [phase |-> "accepted", op |-> ops + 1, input |-> input,
                                  document |-> document, expected |-> view[c]]]
    /\ UNCHANGED <<sidecar, document, clock, view, page, applied>>

Accepted(c, kind) == req[c].phase = "accepted" /\ req[c].input.kind = kind

Answer(c, outcome, revision) ==
    req' = [req EXCEPT ![c] = [phase |-> "answered", outcome |-> outcome, revision |-> revision]]

\* time.Now(): every reading is later than the one before, as long as nobody
\* sets the clock back.
ReadClock ==
    /\ clock < MaxClock
    /\ clock' = clock + 1

\* What turns a request away before anything is changed; "none" when nothing does.
CreateRefusal(r) ==
    IF /\ r.input.selection # NoSelection
       /\ r.input.selection.document = r.document
       /\ ~CanSelect(r.document, r.input.selection.range)
    THEN "invalid"
    ELSE "none"

ReplyRefusal(r) ==
    IF r.input.target \notin DOMAIN sidecar THEN "not_found"
    ELSE IF "message" \notin r.input.content THEN "invalid"
    ELSE "none"

TransitionRefusal(r) ==
    IF r.input.target \notin DOMAIN sidecar THEN "not_found"
    ELSE IF ~ValidateTransition(sidecar[r.input.target].status, r.input.to, r.input.role) THEN "invalid"
    ELSE IF ~AcceptsContent(r.input.to, r.input.content) THEN "invalid"
    ELSE "none"

IsStale(d, a) ==
    IF a.source = NoSource THEN a.needsReattachment ELSE AnchorState(d, a.source) = "stale"

ReattachRefusal(r) ==
    IF r.input.selection.document # r.document THEN "conflict"
    ELSE IF r.input.target \notin DOMAIN sidecar THEN "not_found"
    ELSE IF ~IsStale(r.document, sidecar[r.input.target]) THEN "conflict"
    ELSE IF ~CanSelect(r.document, r.input.selection.range) THEN "invalid"
    ELSE "none"

\* Mutant of Created: the digest of the selection is not compared with the document.
CreatedUnverified(r, now) ==
    [status |-> "open", role |-> r.input.role, createdAt |-> now, updatedAt |-> now,
     source |-> IF /\ r.input.selection # NoSelection
                   /\ CanSelect(r.document, r.input.selection.range)
                THEN NewSource(r.document, r.input.selection.range) ELSE NoSource,
     needsReattachment |-> FALSE, thread |-> <<>>]

\* What a request would make of the sidecar the handler has loaded, at a
\* reading of the clock.  A selection made on another content is kept without a
\* source, for the reviewer to reattach.
Created(r, now) ==
    LET selection == r.input.selection
        verified == selection # NoSelection /\ selection.document = r.document
    IN  [status |-> "open", role |-> r.input.role, createdAt |-> now, updatedAt |-> now,
         source |-> IF verified THEN NewSource(r.document, selection.range) ELSE NoSource,
         needsReattachment |-> selection # NoSelection /\ ~verified,
         thread |-> <<>>]

WithCreated(r, now) ==
    [id \in DOMAIN sidecar \union {r.op} |-> IF id = r.op THEN Created(r, now) ELSE sidecar[id]]

WithUpdate(r, a) == [sidecar EXCEPT ![r.input.target] = a]

\* A reply takes the clock as it is.
WithReply(r, now) ==
    LET a == sidecar[r.input.target]
        reply == Activity(r.op, "reply", r.input.role, now)
    IN  WithUpdate(r, [a EXCEPT !.thread = Append(a.thread, reply), !.updatedAt = now])

\* A move and a reattachment are never dated before the last update.
Clamped(r, now) ==
    LET updated == sidecar[r.input.target].updatedAt
    IN  IF now < updated THEN updated ELSE now

WithTransition(r, now) ==
    LET a == sidecar[r.input.target]
        at == Clamped(r, now)
        entries == TransitionEntries(r.op, a.status, r.input.to, r.input.role, at)
    IN  WithUpdate(r, [a EXCEPT !.status = r.input.to,
                                !.thread = a.thread \o entries,
                                !.updatedAt = at])

WithReattachment(r, now) ==
    WithUpdate(r, [sidecar[r.input.target] EXCEPT
                      !.source = NewSource(r.document, r.input.selection.range),
                      !.needsReattachment = FALSE,
                      !.updatedAt = Clamped(r, now)])

\* The handler loads the sidecar, turns the request away or validates the
\* successor it is about to save.
Refuse(c, outcome) ==
    /\ outcome # "none"
    /\ Answer(c, outcome, view[c])
    /\ UNCHANGED clock

\* Mutant of Propose: the successor is not validated.
ProposeUnvalidated(c, outcome, next) ==
    /\ outcome = "none"
    /\ ReadClock
    /\ req' = [req EXCEPT ![c] = [phase |-> "prepared", op |-> req[c].op,
                                  input |-> req[c].input, expected |-> req[c].expected,
                                  loaded |-> sidecar, next |-> next]]

Propose(c, outcome, next) ==
    /\ outcome = "none"
    /\ ReadClock
    /\ IF SidecarValid(next)
       THEN req' = [req EXCEPT ![c] = [phase |-> "prepared", op |-> req[c].op,
                                       input |-> req[c].input, expected |-> req[c].expected,
                                       loaded |-> sidecar, next |-> next]]
       ELSE Answer(c, "internal", view[c])

Create(c) ==
    /\ Accepted(c, "create")
    /\ \/ Refuse(c, CreateRefusal(req[c]))
       \/ Propose(c, CreateRefusal(req[c]), WithCreated(req[c], clock + 1))
    /\ UNCHANGED <<sidecar, document, ops, view, page, applied>>

Reply(c) ==
    /\ Accepted(c, "reply")
    /\ \/ Refuse(c, ReplyRefusal(req[c]))
       \/ Propose(c, ReplyRefusal(req[c]), WithReply(req[c], clock + 1))
    /\ UNCHANGED <<sidecar, document, ops, view, page, applied>>

Transition(c) ==
    /\ Accepted(c, "transition")
    /\ \/ Refuse(c, TransitionRefusal(req[c]))
       \/ Propose(c, TransitionRefusal(req[c]), WithTransition(req[c], clock + 1))
    /\ UNCHANGED <<sidecar, document, ops, view, page, applied>>

Reattach(c) ==
    /\ Accepted(c, "reattach")
    /\ \/ Refuse(c, ReattachRefusal(req[c]))
       \/ Propose(c, ReattachRefusal(req[c]), WithReattachment(req[c], clock + 1))
    /\ UNCHANGED <<sidecar, document, ops, view, page, applied>>

-----------------------------------------------------------------------------
(***************************************************************************)
(* Store.Save                                                              *)
(***************************************************************************)

Prepared(c) == req[c].phase = "prepared"

\* Mutants of Matches: no check at all; the revision of the handler's own Load.
MatchesAnything(c) == TRUE
MatchesLoaded(c) == sidecar = req[c].loaded

\* The file holds exactly what the client last saw.
Matches(c) == sidecar = req[c].expected

Write(c) ==
    /\ sidecar' = req[c].next
    /\ applied' = applied \union {[op |-> req[c].op, input |-> req[c].input,
                                   expected |-> req[c].expected]}

Save(c) ==
    /\ Prepared(c)
    /\ IF Matches(c)
       THEN Write(c) /\ Answer(c, "ok", req[c].next)
       ELSE UNCHANGED <<sidecar, applied>> /\ Answer(c, "conflict", sidecar)
    /\ UNCHANGED <<document, clock, ops, view, page>>

\* An input or output error on the way: before the rename nothing has changed,
\* after it (syncing the directory) the new file is in place all the same.
SaveFails(c) ==
    /\ Prepared(c)
    /\ Matches(c)
    /\ \/ UNCHANGED <<sidecar, applied>>
       \/ Write(c)
    /\ Answer(c, "internal", view[c])
    /\ UNCHANGED <<document, clock, ops, view, page>>

-----------------------------------------------------------------------------
(***************************************************************************)
(* The clients and the world around the server                             *)
(***************************************************************************)

\* The client receives its answer.  A saved mutation carries the new revision and
\* a conflict the one that Save found; a form turned away is rendered again from a
\* fresh read, and the revision with it.
Deliver(c) ==
    /\ req[c].phase = "answered"
    /\ req' = [req EXCEPT ![c] = Idle]
    /\ \/ req[c].outcome \in {"ok", "conflict"} /\ view' = [view EXCEPT ![c] = req[c].revision]
       \/ req[c].outcome \in {"invalid", "conflict"} /\ view' = [view EXCEPT ![c] = sidecar]
       \/ req[c].outcome # "ok" /\ UNCHANGED view
    /\ UNCHANGED <<sidecar, document, clock, ops, page, applied>>

\* The connection breaks, or the client gives up: it never learns the outcome.
Lose(c) ==
    /\ req[c].phase = "answered"
    /\ req' = [req EXCEPT ![c] = Idle]
    /\ UNCHANGED <<sidecar, document, clock, ops, view, page, applied>>

\* GET of the annotations, of the queue or of the viewer state.
Refresh(c) ==
    /\ req[c].phase = "idle"
    /\ view[c] # sidecar
    /\ view' = [view EXCEPT ![c] = sidecar]
    /\ UNCHANGED <<sidecar, document, clock, ops, req, page, applied>>

OpenPage(c) ==
    /\ req[c].phase = "idle"
    /\ page[c] # document
    /\ page' = [page EXCEPT ![c] = document]
    /\ UNCHANGED <<sidecar, document, clock, ops, req, view, applied>>

EditDocument ==
    /\ \E d \in Documents \ {document} : document' = d
    /\ UNCHANGED <<sidecar, clock, ops, req, view, page, applied>>

SetClockBack ==
    /\ ClockStepsBack
    /\ clock > 0
    /\ clock' = 0
    /\ UNCHANGED <<sidecar, document, ops, req, view, page, applied>>

\* The process dies, with whatever it was doing, and is started again.
Restart ==
    /\ \E c \in Clients : req[c] # Idle
    /\ req' = [c \in Clients |-> Idle]
    /\ UNCHANGED <<sidecar, document, clock, ops, view, page, applied>>

-----------------------------------------------------------------------------

\* A client selects on the page it has on screen.
CanSend(c, input) ==
    input.kind \in {"create", "reattach"} =>
        input.selection = NoSelection \/ input.selection.document = page[c]

Send(c) == \E input \in Requests : CanSend(c, input) /\ Accept(c, input)

Handle(c) == Create(c) \/ Reply(c) \/ Transition(c) \/ Reattach(c) \/ Save(c)

Next ==
    \/ \E c \in Clients :
          \/ Send(c) \/ Handle(c) \/ SaveFails(c)
          \/ Deliver(c) \/ Lose(c) \/ Refresh(c) \/ OpenPage(c)
    \/ EditDocument
    \/ SetClockBack
    \/ Restart

Spec == Init /\ [][Next]_vars

-----------------------------------------------------------------------------
(***************************************************************************)
(* Properties                                                              *)
(***************************************************************************)

IsAccepted(r, n) ==
    /\ DOMAIN r = {"phase", "op", "input", "document", "expected"}
    /\ r.op \in 1..n /\ r.input \in Inputs /\ r.document \in Documents
    /\ IsSidecar(r.expected, n)

IsPrepared(r, n) ==
    /\ DOMAIN r = {"phase", "op", "input", "expected", "loaded", "next"}
    /\ r.op \in 1..n /\ r.input \in Inputs
    /\ IsSidecar(r.expected, n) /\ IsSidecar(r.loaded, n) /\ IsSidecar(r.next, n)

IsAnswered(r, n) ==
    /\ DOMAIN r = {"phase", "outcome", "revision"}
    /\ r.outcome \in Outcomes
    /\ IsSidecar(r.revision, n)

IsRequest(r, n) ==
    \/ r = Idle
    \/ r.phase = "accepted" /\ IsAccepted(r, n)
    \/ r.phase = "prepared" /\ IsPrepared(r, n)
    \/ r.phase = "answered" /\ IsAnswered(r, n)

\* Every variable has its type: in particular sidecars only hold statuses, roles,
\* entries and sources that the domain model knows (annotation.Sidecar), under
\* identifiers that were drawn.
TypeOK ==
    /\ IsSidecar(sidecar, ops)
    /\ document \in Documents
    /\ clock \in Times
    /\ ops \in 0..MaxOps
    /\ DOMAIN req = Clients
    /\ DOMAIN view = Clients
    /\ \A c \in Clients : IsRequest(req[c], ops) /\ IsSidecar(view[c], ops)
    /\ page \in [Clients -> Documents]
    /\ \A m \in applied : /\ DOMAIN m = {"op", "input", "expected"}
                           /\ m.op \in 1..ops /\ m.input \in Inputs /\ IsSidecar(m.expected, ops)

\* A stored sidecar always passes the validation Store.Load repeats: no sequence
\* of accepted requests, whatever the clock does between them, leaves a file
\* that every later request would fail on.
FileAlwaysLoads == SidecarValid(sidecar)

Has(a, op, kind) == \E i \in 1..Len(a.thread) : a.thread[i].op = op /\ a.thread[i].kind = kind

Shows(s, m) ==
    /\ (IF m.input.kind = "create" THEN m.op ELSE m.input.target) \in DOMAIN s
    /\ m.input.kind = "reply" => Has(s[m.input.target], m.op, "reply")
    /\ m.input.kind = "transition" => Has(s[m.input.target], m.op, "status_change")

\* No lost update: a comment, a reply or a move that reached the file once is in
\* it ever after, whichever requests were handled at the same time on whichever
\* outdated revisions (the If-Match check of Store.Save).
AppliedPersists == \A m \in applied : Shows(sidecar, m)

IsPrefixOf(s, t) == Len(s) <= Len(t) /\ \A i \in 1..Len(s) : s[i] = t[i]

\* Extended(s, t): sidecar t has every comment of s, with a thread that goes on
\* from where the one in s ends.
Extended(s, t) ==
    \A id \in DOMAIN s : id \in DOMAIN t /\ IsPrefixOf(s[id].thread, t[id].thread)

\* Persisted thread entries are immutable and comments are never removed: no step
\* of any handler does more to a discussion than append to it ("Existing entries
\* are immutable after persistence", annotation.ThreadEntry).
ThreadsOnlyGrow == [][Extended(sidecar, sidecar')]_sidecar

\* The status of a comment is where the moves in its thread lead, each starting
\* where the one before it ended: no move was ever judged against a status the
\* comment did not have when the move was recorded.
StatusFollowsThread == \A id \in DOMAIN sidecar : StatusIsLastMove(sidecar[id])

\* An activity and the move it explains are stored together and stay side by
\* side: nothing is ever applied without its resolution, returned without a
\* review, or rejected without a reason, even when replies race with the move.
MovesCarryActivity == \A id \in DOMAIN sidecar : MoveWithActivity(sidecar[id].thread)

PastSources == UNION {{s[id].source : id \in DOMAIN s} : s \in InitialSidecars}

\* A stored source is text some client really selected for that comment: if the
\* document changes between the selection and the handler's read of it, the
\* quote is never taken from the same range of the other content.
SourceWasSelected ==
    \A id \in DOMAIN sidecar :
       sidecar[id].source \notin PastSources \union {NoSource} =>
          \E m \in applied :
             /\ m.input.kind \in {"create", "reattach"}
             /\ id = IF m.input.kind = "create" THEN m.op ELSE m.input.target
             /\ m.input.selection # NoSelection
             /\ sidecar[id].source.quote = Text[m.input.selection.document][m.input.selection.range]

\* A revision is good for one mutation: two mutations sent with the same If-Match
\* never both reach the file.  A client that retries because it missed the
\* answer cannot make the server apply the request twice.
RevisionSpentOnce == \A m, n \in applied : m.expected = n.expected => m = n

\* The server's steps, seen through the status and thread of each comment, are
\* the atomic steps of a review conversation.
Conversation(s) == [id \in DOMAIN s |-> [status |-> s[id].status, thread |-> s[id].thread]]

RC == INSTANCE ReviewConversation WITH
        conversation <- Conversation(sidecar),
        InitialConversations <- {Conversation(s) : s \in InitialSidecars}

\* The server implements the conversation it promises (module ReviewConversation).
ImplementsConversation == RC!Spec
=============================================================================
