----------------------------- MODULE Annotation -----------------------------
(***************************************************************************)
(* The review annotation domain model of internal/annotation: statuses,    *)
(* roles, the append-only thread, the lifecycle table and the validation   *)
(* every sidecar passes before it is stored and after it is loaded.        *)
(*                                                                         *)
(* A sidecar is a function from the identifiers of its annotations to      *)
(* their records.  Message texts, comments and intents are abstracted to   *)
(* the set of text fields a request fills in ("message", "summary",        *)
(* "commit"); identifiers are the number of the operation that drew them,  *)
(* so that two operations never draw the same one (80 random bits each).   *)
(***************************************************************************)
EXTENDS Integers, Sequences

CONSTANTS
    Documents,      \* the contents the reviewed document can have
    Ranges,         \* the byte ranges a reviewer can select
    Text,           \* Text[d][r]: the bytes of range r in content d
    Relocates,      \* pairs <<d, q>>: a search of d for quote q finds one place
    NoSource,       \* the nil Source of an annotation
    NoText          \* what Text gives for a range that is no valid selection

Quotes == {Text[d][r] : d \in Documents, r \in Ranges} \ {NoText}
Sources == [document: Documents, range: Ranges, quote: Quotes]

ASSUME NoSourceAssumption == NoSource \notin Sources

Statuses == {"open", "acknowledged", "applied", "needs_changes", "closed", "rejected"}
Roles == {"agent", "reviewer"}
ThreadKinds == {"reply", "acknowledgement", "resolution", "review", "status_change"}
Fields == {"message", "summary", "commit"}

(***************************************************************************)
(* Lifecycle                                                               *)
(***************************************************************************)

AgentMoves == {<<"open", "acknowledged">>, <<"open", "rejected">>,
               <<"acknowledged", "applied">>, <<"acknowledged", "rejected">>,
               <<"needs_changes", "acknowledged">>, <<"needs_changes", "rejected">>}

ReviewerMoves == {<<"open", "closed">>,
                  <<"applied", "closed">>, <<"applied", "needs_changes">>,
                  <<"closed", "open">>, <<"rejected", "open">>}

ValidateTransition(from, to, role) ==
    \/ role = "agent" /\ <<from, to>> \in AgentMoves
    \/ role = "reviewer" /\ <<from, to>> \in ReviewerMoves

\* The thread entry that accompanies a move to a status; "" when there is none.
ActivityKind ==
    [to \in Statuses |-> CASE to = "acknowledged"  -> "acknowledgement"
                           [] to = "applied"       -> "resolution"
                           [] to = "needs_changes" -> "review"
                           [] to = "rejected"      -> "reply"
                           [] OTHER                -> ""]

\* The text fields a move requires and the further ones it accepts.
RequiredFields(kind) ==
    CASE kind = "resolution"         -> {"summary"}
      [] kind \in {"review", "reply"} -> {"message"}
      [] OTHER                        -> {}

AcceptedFields(kind) == RequiredFields(kind) \union (IF kind = "resolution" THEN {"commit"} ELSE {})

AcceptsContent(to, content) ==
    /\ RequiredFields(ActivityKind[to]) \subseteq content
    /\ content \subseteq AcceptedFields(ActivityKind[to])

(***************************************************************************)
(* Thread entries.  <<op, kind>> stands for the entry's identifier: one    *)
(* operation appends at most one entry of each kind.                       *)
(***************************************************************************)

Activity(op, kind, role, now) ==
    [op |-> op, kind |-> kind, role |-> role, from |-> "", to |-> "", at |-> now]

StatusChange(op, from, to, role, now) ==
    [op |-> op, kind |-> "status_change", role |-> role, from |-> from, to |-> to, at |-> now]

\* Mutants of TransitionEntries: the move before its activity; the activity alone;
\* an activity for every move.
TransitionEntriesReversed(op, from, to, role, now) ==
    IF ActivityKind[to] = ""
    THEN <<StatusChange(op, from, to, role, now)>>
    ELSE <<StatusChange(op, from, to, role, now), Activity(op, ActivityKind[to], role, now)>>

TransitionEntriesUnrecorded(op, from, to, role, now) ==
    IF ActivityKind[to] = ""
    THEN <<StatusChange(op, from, to, role, now)>>
    ELSE <<Activity(op, ActivityKind[to], role, now)>>

TransitionEntriesAlways(op, from, to, role, now) ==
    <<Activity(op, ActivityKind[to], role, now), StatusChange(op, from, to, role, now)>>

TransitionEntries(op, from, to, role, now) ==
    IF ActivityKind[to] = ""
    THEN <<StatusChange(op, from, to, role, now)>>
    ELSE <<Activity(op, ActivityKind[to], role, now), StatusChange(op, from, to, role, now)>>

(***************************************************************************)
(* Sources and anchors                                                     *)
(***************************************************************************)

CanSelect(document, range) == Text[document][range] # NoText

NewSource(document, range) ==
    [document |-> document, range |-> range, quote |-> Text[document][range]]

AnchorState(document, source) ==
    CASE source.document = document                   -> "exact"
      [] <<document, source.quote>> \in Relocates
           /\ source.document # document              -> "moved"
      [] OTHER                                        -> "stale"

(***************************************************************************)
(* Validation                                                              *)
(***************************************************************************)

EntryValid(e) == e.kind = "status_change" => ValidateTransition(e.from, e.to, e.role)

AnnotationValid(a) ==
    /\ a.createdAt <= a.updatedAt
    /\ a.source # NoSource => ~a.needsReattachment
    /\ \A i \in 1..Len(a.thread) :
          /\ EntryValid(a.thread[i])
          /\ (IF i = 1 THEN a.createdAt ELSE a.thread[i - 1].at) <= a.thread[i].at
          /\ a.thread[i].at <= a.updatedAt

EntryID(e) == <<e.op, e.kind>>

SidecarValid(s) ==
    /\ \A id \in DOMAIN s : AnnotationValid(s[id])
    /\ \A id1, id2 \in DOMAIN s :
          \A i \in 1..Len(s[id1].thread), j \in 1..Len(s[id2].thread) :
             EntryID(s[id1].thread[i]) = EntryID(s[id2].thread[j]) => id1 = id2 /\ i = j

(***************************************************************************)
(* What the threads of a sidecar say together                              *)
(***************************************************************************)

IsMove(e) == e.kind = "status_change"

\* The status the first n entries of a thread lead to.
StatusAfter(thread, n, status) ==
    \/ status = "open" /\ \A j \in 1..n : ~IsMove(thread[j])
    \/ \E j \in 1..n : /\ IsMove(thread[j])
                      /\ thread[j].to = status
                      /\ \A k \in (j + 1)..n : ~IsMove(thread[k])

StatusIsLastMove(a) ==
    /\ \A i \in 1..Len(a.thread) :
          IsMove(a.thread[i]) => StatusAfter(a.thread, i - 1, a.thread[i].from)
    /\ StatusAfter(a.thread, Len(a.thread), a.status)

MoveWithActivity(thread) ==
    \A i \in 1..Len(thread) :
       /\ thread[i].kind \in {"acknowledgement", "resolution", "review"} =>
             /\ i < Len(thread)
             /\ thread[i + 1].op = thread[i].op
             /\ IsMove(thread[i + 1])
       /\ IsMove(thread[i]) /\ ActivityKind[thread[i].to] # "" =>
             /\ i > 1
             /\ thread[i - 1].op = thread[i].op
             /\ thread[i - 1].kind = ActivityKind[thread[i].to]
             /\ thread[i - 1].role = thread[i].role

Consistent(s) ==
    \A id \in DOMAIN s : StatusIsLastMove(s[id]) /\ MoveWithActivity(s[id].thread)

=============================================================================
