--------------------------- MODULE MCReviewServer ---------------------------
(***************************************************************************)
(* Small instances of ReviewServer: two contents of the document, a byte   *)
(* range that holds other text after the edit, one that exists only after  *)
(* it, and a sidecar an earlier session left with one comment, which an    *)
(* agent reports applied.                                                  *)
(***************************************************************************)
EXTENDS ReviewServer, TLC

CONSTANTS d1, d2, r1, r2

\* Range r2 is no selection in d1; what it holds in d2 is found elsewhere in d1.
MCText == [d \in Documents |->
              [r \in Ranges |-> IF d = d1 /\ r = r2 THEN NoText ELSE <<d, r>>]]
MCRelocates == {<<d1, <<d2, r2>>>>}

PastEntry(op, kind, role, from, to) ==
    [op |-> op, kind |-> kind, role |-> role, from |-> from, to |-> to, at |-> 0]

PastThread ==
    <<PastEntry(-1, "acknowledgement", "agent", "", ""),
      PastEntry(-1, "status_change", "agent", "open", "acknowledged"),
      PastEntry(-2, "resolution", "agent", "", ""),
      PastEntry(-2, "status_change", "agent", "acknowledged", "applied")>>

PastSidecar(source, status, thread) ==
    [id \in {0} |-> [status |-> status, role |-> "reviewer", createdAt |-> 0, updatedAt |-> 0,
                     source |-> source, needsReattachment |-> source = NoSource, thread |-> thread]]

Empty == [id \in {} |-> 0]
MCPastOps == {-2, -1, 0}

MCSymmetry == Permutations(Clients)

Selected(d, r) == [document |-> d, range |-> r]
CreateRequests(selections) ==
    {[kind |-> "create", role |-> "reviewer", selection |-> s] : s \in selections}
ReplyRequest(role, id) ==
    [kind |-> "reply", role |-> role, target |-> id, content |-> {"message"}]
MoveRequest(role, id, to, content) ==
    [kind |-> "transition", role |-> role, target |-> id, to |-> to, content |-> content]
ReattachRequests(id) ==
    {[kind |-> "reattach", target |-> id, selection |-> Selected(d1, r1)],
     [kind |-> "reattach", target |-> id, selection |-> Selected(d2, r1)]}

MCInitialSidecars ==
    {Empty, PastSidecar(NewSource(d1, r1), "applied", PastThread)}

\* The earlier comment may also have lost the document it was made on.
MCDetachedSidecars == MCInitialSidecars \union {PastSidecar(NoSource, "open", <<>>)}

\* Comments on selections, verified or not, and their reattachment, while the
\* document is edited.
SelectionRequests ==
    CreateRequests({NoSelection, Selected(d1, r1), Selected(d2, r2)})
      \union ReattachRequests(0) \union ReattachRequests(1)
      \union {[kind |-> "reattach", target |-> 0, selection |-> Selected(d1, r2)]}

\* A new comment and the turns of an agent and a reviewer on one that is there, with
\* a move that lacks its text.
TurnRequests ==
    CreateRequests({NoSelection})
      \union {ReplyRequest("agent", 0),
              MoveRequest("reviewer", 0, "needs_changes", {"message"}),
              MoveRequest("agent", 0, "acknowledged", {}),
              MoveRequest("agent", 0, "rejected", {}),
              MoveRequest("reviewer", 0, "closed", {}),
              [kind |-> "reattach", target |-> 0, selection |-> Selected(d1, r1)]}
=============================================================================
