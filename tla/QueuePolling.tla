---------------------------- MODULE QueuePolling ----------------------------
(***************************************************************************)
(* The agent's polling of the review queue: the conditional GET of         *)
(* handleAnnotationQueue, the --etag envelope of `code-annotator agent     *)
(* queue` and the loop of poll-agent-queue.sh.                             *)
(*                                                                         *)
(* The handler loads one sidecar after the other, then answers 304 from    *)
(* the revisions alone, or reads one document after the other to resolve   *)
(* the anchors.  Reviewers save sidecars and editors save documents        *)
(* between any two of these reads.  The digest over the candidates is      *)
(* modelled by the candidates themselves; the status filter is fixed, as   *)
(* it is within one loop.                                                  *)
(***************************************************************************)
EXTENDS Naturals, Sequences

CONSTANTS
    Index,          \* the documents in catalog order
    MaxRevision,    \* bound: times each sidecar is saved
    MaxEdits,       \* bound: times each document is edited
    MaxFailures     \* bound: polls that fail

ASSUME IndexAssumption == Index \in Seq(STRING)
ASSUME BoundsAssumption == MaxRevision \in Nat /\ MaxEdits \in Nat /\ MaxFailures \in Nat

Positions == 1..Len(Index)
NoCursor == {[document |-> 0, revision |-> 0]}  \* the stale first value, no queue's

VARIABLES
    sidecar,    \* sidecar[i]: revision of document i's sidecar, and whether an annotation matches
    source,     \* source[i]: which edit of document i is on disk
    request,    \* the poll under way
    etag,       \* the loop's cursor
    queue,      \* the queue the loop printed last
    failures    \* how many polls have failed

vars == <<sidecar, source, request, etag, queue, failures>>

Asleep == [phase |-> "asleep"]

Init ==
    /\ sidecar = [i \in Positions |-> [revision |-> 0, matching |-> FALSE]]
    /\ source = [i \in Positions |-> 0]
    /\ request = Asleep
    /\ etag = NoCursor
    /\ queue = {}
    /\ failures = 0

\* A reviewer or an agent changes document i's annotations.
SaveSidecar(i) ==
    /\ sidecar[i].revision < MaxRevision
    /\ \E matching \in BOOLEAN :
          sidecar' = [sidecar EXCEPT ![i] = [revision |-> @.revision + 1, matching |-> matching]]
    /\ UNCHANGED <<source, request, etag, queue, failures>>

EditSource(i) ==
    /\ source[i] < MaxEdits
    /\ source' = [source EXCEPT ![i] = @ + 1]
    /\ UNCHANGED <<sidecar, request, etag, queue, failures>>

\* Mutant of Poll: the handler starts before the first document.
PollFromZero ==
    /\ request = Asleep
    /\ request' = [phase |-> "loading", next |-> 0, candidates |-> {}]
    /\ UNCHANGED <<sidecar, source, etag, queue, failures>>

\* The loop wakes up and asks for the queue with the cursor it holds.
Poll ==
    /\ request = Asleep
    /\ request' = [phase |-> "loading", next |-> 1, candidates |-> {}]
    /\ UNCHANGED <<sidecar, source, etag, queue, failures>>

Candidate(i) == [document |-> i, revision |-> sidecar[i].revision]

LoadSidecar ==
    /\ request.phase = "loading"
    /\ request.next \in Positions
    /\ LET i == request.next
       IN  request' = [request EXCEPT
               !.next = i + 1,
               !.candidates = @ \union (IF sidecar[i].matching THEN {Candidate(i)} ELSE {})]
    /\ UNCHANGED <<sidecar, source, etag, queue, failures>>

\* Mutant of QueueETag: the revisions are left out.
QueueETagOfPaths(candidates) == {[candidate EXCEPT !.revision = 0] : candidate \in candidates}

\* queueETag: the path and the revision of every candidate.
QueueETag(candidates) == candidates

Loaded == request.phase = "loading" /\ request.next \notin Positions

AnswerNotModified ==
    /\ Loaded
    /\ etag = QueueETag(request.candidates)
    /\ request' = [phase |-> "not_modified", etag |-> etag, candidates |-> request.candidates]
    /\ UNCHANGED <<sidecar, source, etag, queue, failures>>

StartBody ==
    /\ Loaded
    /\ etag # QueueETag(request.candidates)
    /\ request' = [phase |-> "reading", etag |-> QueueETag(request.candidates),
                   todo |-> request.candidates, body |-> {}]
    /\ UNCHANGED <<sidecar, source, etag, queue, failures>>

\* One document of the answer, its anchors resolved in the content read now.
Resolved(candidate) ==
    [document |-> candidate.document, revision |-> candidate.revision,
     anchors |-> source[candidate.document]]

ReadSource ==
    /\ request.phase = "reading"
    /\ \E candidate \in request.todo :
          /\ \A other \in request.todo : candidate.document <= other.document
          /\ request' = [request EXCEPT !.todo = @ \ {candidate},
                                        !.body = @ \union {Resolved(candidate)}]
    /\ UNCHANGED <<sidecar, source, etag, queue, failures>>

\* The loop prints a changed queue and takes over the cursor of the answer.
ReceiveModified ==
    /\ request.phase = "reading"
    /\ request.todo = {}
    /\ queue' = request.body
    /\ etag' = request.etag
    /\ request' = Asleep
    /\ UNCHANGED <<sidecar, source, failures>>

ReceiveNotModified ==
    /\ request.phase = "not_modified"
    /\ etag' = request.etag
    /\ request' = Asleep
    /\ UNCHANGED <<sidecar, source, queue, failures>>

\* Mutant of PollFails: the loop takes over the cursor of an answer it could not use.
PollFailsForward ==
    /\ request # Asleep
    /\ failures < MaxFailures
    /\ failures' = failures + 1
    /\ etag' = IF request.phase = "reading" THEN request.etag ELSE etag
    /\ request' = Asleep
    /\ UNCHANGED <<sidecar, source, queue>>

\* The server is down, a document cannot be read, or the answer is malformed: the
\* loop keeps its cursor and tries again after the interval.
PollFails ==
    /\ request # Asleep
    /\ failures < MaxFailures
    /\ failures' = failures + 1
    /\ request' = Asleep
    /\ UNCHANGED <<sidecar, source, etag, queue>>

Answer == LoadSidecar \/ AnswerNotModified \/ StartBody \/ ReadSource
Receive == ReceiveModified \/ ReceiveNotModified

Next ==
    \/ \E i \in Positions : SaveSidecar(i) \/ EditSource(i)
    \/ Poll \/ Answer \/ Receive \/ PollFails

\* The loop never ends, and neither the server nor the shell stops on the way.
Spec == Init /\ [][Next]_vars /\ WF_vars(Poll) /\ WF_vars(Answer) /\ WF_vars(Receive)

-----------------------------------------------------------------------------
(***************************************************************************)
(* Properties                                                              *)
(***************************************************************************)

Candidates == [document: Positions, revision: 0..MaxRevision]
Bodies == [document: Positions, revision: 0..MaxRevision, anchors: 0..MaxEdits]
Cursors == {NoCursor} \union SUBSET Candidates
Polls ==
    {Asleep}
      \union [phase: {"loading"}, next: 1..(Len(Index) + 1), candidates: SUBSET Candidates]
      \union [phase: {"not_modified"}, etag: Cursors, candidates: SUBSET Candidates]
      \union [phase: {"reading"}, etag: Cursors, todo: SUBSET Candidates, body: SUBSET Bodies]

\* Every variable has its type.
TypeOK ==
    /\ sidecar \in [Positions -> [revision: 0..MaxRevision, matching: BOOLEAN]]
    /\ source \in [Positions -> 0..MaxEdits]
    /\ request \in Polls
    /\ etag \in Cursors
    /\ queue \in SUBSET Bodies
    /\ failures \in 0..MaxFailures

Revisions(body) == {[document |-> b.document, revision |-> b.revision] : b \in body}
Current == {Candidate(i) : i \in {j \in Positions : sidecar[j].matching}}

\* The cursor always names the queue that was printed, revision by revision:
\* whatever is saved while an answer is put together, and whichever polls fail,
\* a 304 never stands for a queue with revisions the agent has not been given.
CursorNamesQueue == etag = NoCursor \/ Revisions(queue) = etag

\* The agent hears of every change: once reviewers stop saving, the queue printed
\* last has exactly the matching documents, at the revisions a mutation needs.
QueueCatchesUp == <>[](Revisions(queue) = Current)

\* "A 304 here means you already have the current state"
\* (docs/designs/queue-etag.md): the body the handler would otherwise have put
\* together from the same candidates is the one the agent holds.
NotModifiedIsCurrent ==
    [][ request'.phase = "not_modified" =>
          {Resolved(candidate) : candidate \in request'.candidates} = queue ]_request
=============================================================================
