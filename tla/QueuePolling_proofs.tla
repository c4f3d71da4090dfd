------------------------- MODULE QueuePolling_proofs -------------------------
(***************************************************************************)
(* The cursor of the polling loop, for a catalog of any length and any     *)
(* number of saves, edits and failed polls.                                *)
(***************************************************************************)
EXTENDS QueuePolling, TLAPS

\* While an answer is put together, its cursor is already that of the queue it
\* will be: the part resolved so far and the part still to do.
RequestInv ==
    /\ request.phase = "reading" => request.etag = Revisions(request.body) \union request.todo
    /\ request.phase = "not_modified" => request.etag = etag

IInv == TypeOK /\ RequestInv /\ CursorNamesQueue

Loading == [phase: {"loading"}, next: 1..(Len(Index) + 1), candidates: SUBSET Candidates]
NotModified == [phase: {"not_modified"}, etag: Cursors, candidates: SUBSET Candidates]
Reading == [phase: {"reading"}, etag: Cursors, todo: SUBSET Candidates, body: SUBSET Bodies]

LEMMA Phases ==
    ASSUME TypeOK
    PROVE  /\ request.phase = "loading" => request \in Loading
           /\ request.phase = "not_modified" => request \in NotModified
           /\ request.phase = "reading" => request \in Reading
  BY DEF TypeOK, Polls, Asleep, Loading, NotModified, Reading

LEMMA ResolvedKeepsRevision ==
    ASSUME NEW body, NEW c \in Candidates
    PROVE  Revisions(body \union {Resolved(c)}) = Revisions(body) \union {c}
  <1>1. [document |-> Resolved(c).document, revision |-> Resolved(c).revision] = c
    BY DEF Resolved, Candidates
  <1> QED
    BY <1>1 DEF Revisions

LEMMA InitEstablishesIInv == Init => IInv
  <1> SUFFICES ASSUME Init PROVE IInv
    OBVIOUS
  <1>1. sidecar \in [Positions -> [revision: 0..MaxRevision, matching: BOOLEAN]]
    BY BoundsAssumption DEF Init
  <1>2. source \in [Positions -> 0..MaxEdits] /\ failures \in 0..MaxFailures
    BY BoundsAssumption DEF Init
  <1>3. request \in Polls /\ etag \in Cursors /\ queue \in SUBSET Bodies
    BY DEF Init, Polls, Cursors
  <1>4. TypeOK
    BY <1>1, <1>2, <1>3 DEF TypeOK
  <1> QED
    BY <1>4 DEF Init, IInv, CursorNamesQueue, RequestInv, Asleep

\* A step of the reviewers, the editors or the reader of a failed poll.
LEMMA StepsOutside ==
    ASSUME IInv, TypeOK', UNCHANGED <<etag, queue>>, request' \in {request, Asleep}
    PROVE  IInv'
  BY DEF IInv, RequestInv, CursorNamesQueue, Asleep

LEMMA LoadStep ==
    ASSUME IInv, LoadSidecar
    PROVE  IInv'
  <1> DEFINE i == request.next
             added == IF sidecar[i].matching THEN {Candidate(i)} ELSE {}
             r == [request EXCEPT !.next = i + 1, !.candidates = request.candidates \union added]
  <1>1. /\ request.phase = "loading" /\ i \in Positions /\ request' = r
        /\ UNCHANGED <<sidecar, source, etag, queue, failures>>
    BY DEF LoadSidecar
  <1>2. request \in Loading
    BY <1>1, Phases DEF IInv
  <1>3. added \subseteq Candidates
    BY <1>1 DEF IInv, TypeOK, Candidate, Candidates
  <1>4. Len(Index) \in Nat
    BY IndexAssumption
  <1>5. request' \in Loading /\ request'.phase = "loading"
    <2>1. i + 1 \in 1..(Len(Index) + 1)
      BY <1>1, <1>4 DEF Positions
    <2>2. request.candidates \union added \in SUBSET Candidates
      BY <1>2, <1>3 DEF Loading
    <2> HIDE DEF added, i
    <2> QED
      BY <1>1, <1>2, <2>1, <2>2 DEF Loading
  <1>6. TypeOK'
    BY <1>1, <1>5 DEF IInv, TypeOK, Polls, Loading
  <1> QED
    BY <1>1, <1>5, <1>6 DEF IInv, RequestInv, CursorNamesQueue

LEMMA AnswerStep ==
    ASSUME IInv, AnswerNotModified \/ StartBody
    PROVE  IInv'
  <1>1. /\ request.phase = "loading"
        /\ UNCHANGED <<sidecar, source, etag, queue, failures>>
    BY DEF AnswerNotModified, StartBody, Loaded
  <1>2. request \in Loading
    BY <1>1, Phases DEF IInv
  <1>3. request.candidates \in SUBSET Candidates /\ request.candidates \in Cursors /\ etag \in Cursors
    BY <1>2 DEF Loading, Cursors, IInv, TypeOK
  <1>4. CASE AnswerNotModified
    <2>1. request' = [phase |-> "not_modified", etag |-> etag, candidates |-> request.candidates]
      BY <1>4 DEF AnswerNotModified
    <2>2. TypeOK'
      BY <1>1, <1>3, <2>1 DEF IInv, TypeOK, Polls
    <2> QED
      BY <1>1, <2>1, <2>2 DEF IInv, RequestInv, CursorNamesQueue
  <1>5. CASE StartBody
    <2>1. request' = [phase |-> "reading", etag |-> request.candidates,
                      todo |-> request.candidates, body |-> {}]
      BY <1>5 DEF StartBody, QueueETag
    <2>2. TypeOK'
      BY <1>1, <1>3, <2>1 DEF IInv, TypeOK, Polls
    <2>3. Revisions({}) = {}
      BY DEF Revisions
    <2> QED
      BY <1>1, <2>1, <2>2, <2>3 DEF IInv, RequestInv, CursorNamesQueue
  <1> QED
    BY <1>4, <1>5

LEMMA ReadStep ==
    ASSUME IInv, ReadSource
    PROVE  IInv'
  <1>1. /\ request.phase = "reading"
        /\ UNCHANGED <<sidecar, source, etag, queue, failures>>
    BY DEF ReadSource
  <1>2. PICK c \in request.todo :
           request' = [request EXCEPT !.todo = request.todo \ {c},
                                      !.body = request.body \union {Resolved(c)}]
    BY DEF ReadSource
  <1>3. request \in Reading /\ c \in Candidates
    BY <1>1, Phases DEF IInv, Reading
  <1>4. /\ request'.phase = "reading" /\ request'.etag = request.etag
        /\ request'.todo = request.todo \ {c}
        /\ request'.body = request.body \union {Resolved(c)}
    BY <1>2, <1>3 DEF Reading
  <1>5. Resolved(c) \in Bodies
    BY <1>3 DEF IInv, TypeOK, Resolved, Bodies, Candidates
  <1>6. request' \in Reading
    BY <1>2, <1>3, <1>5 DEF Reading
  <1>7. TypeOK'
    BY <1>1, <1>6 DEF IInv, TypeOK, Polls, Reading
  <1>8. request'.etag = Revisions(request'.body) \union request'.todo
    <2>1. Revisions(request'.body) = Revisions(request.body) \union {c}
      BY <1>3, <1>4, ResolvedKeepsRevision
    <2> QED
      BY <1>1, <1>4, <2>1 DEF IInv, RequestInv
  <1> QED
    BY <1>1, <1>4, <1>7, <1>8 DEF IInv, RequestInv, CursorNamesQueue

LEMMA ReceiveStep ==
    ASSUME IInv, Receive
    PROVE  IInv'
  <1>1. CASE ReceiveModified
    <2>1. /\ request.phase = "reading" /\ request.todo = {}
          /\ queue' = request.body /\ etag' = request.etag /\ request' = Asleep
          /\ UNCHANGED <<sidecar, source, failures>>
      BY <1>1 DEF ReceiveModified
    <2>2. request \in Reading
      BY <2>1, Phases DEF IInv
    <2>3. TypeOK'
      BY <2>1, <2>2 DEF IInv, TypeOK, Polls, Reading
    <2>4. Revisions(queue') = etag'
      BY <2>1 DEF IInv, RequestInv
    <2> QED
      BY <2>1, <2>3, <2>4 DEF IInv, RequestInv, CursorNamesQueue, Asleep
  <1>2. CASE ReceiveNotModified
    <2>1. /\ request.phase = "not_modified" /\ etag' = request.etag /\ request' = Asleep
          /\ UNCHANGED <<sidecar, source, queue, failures>>
      BY <1>2 DEF ReceiveNotModified
    <2>2. etag' = etag
      BY <2>1 DEF IInv, RequestInv
    <2>3. TypeOK'
      BY <2>1, <2>2 DEF IInv, TypeOK, Polls
    <2> QED
      BY <2>1, <2>2, <2>3, StepsOutside
  <1> QED
    BY <1>1, <1>2 DEF Receive

LEMMA NextPreservesIInv == IInv /\ [Next]_vars => IInv'
  <1> SUFFICES ASSUME IInv, [Next]_vars PROVE IInv'
    OBVIOUS
  <1>1. ASSUME NEW i \in Positions, SaveSidecar(i)
        PROVE  IInv'
    <2>1. TypeOK'
      BY <1>1, BoundsAssumption DEF SaveSidecar, IInv, TypeOK
    <2> QED
      BY <1>1, <2>1, StepsOutside DEF SaveSidecar
  <1>2. ASSUME NEW i \in Positions, EditSource(i)
        PROVE  IInv'
    <2>1. TypeOK'
      BY <1>2, BoundsAssumption DEF EditSource, IInv, TypeOK
    <2> QED
      BY <1>2, <2>1, StepsOutside DEF EditSource
  <1>3. CASE Poll
    <2>1. Len(Index) \in Nat
      BY IndexAssumption
    <2>2. TypeOK'
      BY <1>3, <2>1 DEF Poll, IInv, TypeOK, Polls
    <2> QED
      BY <1>3, <2>2 DEF Poll, IInv, RequestInv, CursorNamesQueue
  <1>4. CASE Answer
    BY <1>4, LoadStep, AnswerStep, ReadStep DEF Answer
  <1>5. CASE Receive
    BY <1>5, ReceiveStep
  <1>6. CASE PollFails
    <2>1. TypeOK'
      BY <1>6, BoundsAssumption DEF PollFails, IInv, TypeOK, Polls
    <2> QED
      BY <1>6, <2>1, StepsOutside DEF PollFails
  <1>7. CASE UNCHANGED vars
    <2>1. TypeOK'
      BY <1>7 DEF vars, IInv, TypeOK
    <2> QED
      BY <1>7, <2>1, StepsOutside DEF vars
  <1> QED
    BY <1>1, <1>2, <1>3, <1>4, <1>5, <1>6, <1>7 DEF Next

LEMMA InductiveInvariant == Spec => []IInv
  BY InitEstablishesIInv, NextPreservesIInv, PTL DEF Spec

\* The loop, its polls and what it prints keep their types, for every catalog.
THEOREM TypeCorrect == Spec => []TypeOK
  <1>1. IInv => TypeOK
    BY DEF IInv
  <1> QED
    BY <1>1, InductiveInvariant, PTL

\* The cursor the loop sends always names the queue it printed last: whatever is
\* saved between the reads of an answer and whichever polls fail, no 304 can stand
\* for revisions the agent has not been given.
THEOREM CursorIsPrinted == Spec => []CursorNamesQueue
  <1>1. IInv => CursorNamesQueue
    BY DEF IInv
  <1> QED
    BY <1>1, InductiveInvariant, PTL
=============================================================================
