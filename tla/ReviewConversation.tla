------------------------- MODULE ReviewConversation -------------------------
(***************************************************************************)
(* What the review server promises its users: a document has a set of      *)
(* comments, each with a status and a thread, and every accepted request   *)
(* is one atomic step that opens a comment, adds a reply, or moves a       *)
(* comment along the lifecycle.  Nothing is ever removed or rewritten, and *)
(* a move is judged against the status the comment has at that moment.     *)
(***************************************************************************)
EXTENDS Annotation

CONSTANTS
    Ops,            \* the operations, whose numbers identify what they add
    Times,          \* the time stamps entries can carry
    InitialConversations

VARIABLE conversation   \* comment identifier -> [status, thread]

Init == conversation \in InitialConversations

Open(op) ==
    /\ op \notin DOMAIN conversation
    /\ conversation' = [id \in DOMAIN conversation \union {op} |->
                           IF id = op THEN [status |-> "open", thread |-> <<>>]
                                      ELSE conversation[id]]

\* Every entry carries the number of its operation and a time.
Reply(id, role) ==
    \E op \in Ops, at \in Times :
       conversation' = [conversation EXCEPT ![id].thread =
                           Append(@, Activity(op, "reply", role, at))]

Move(id, to, role) ==
    /\ ValidateTransition(conversation[id].status, to, role)
    /\ \E op \in Ops, at \in Times :
          conversation' = [conversation EXCEPT ![id] =
             [status |-> to,
              thread |-> @.thread \o TransitionEntries(op, @.status, to, role, at)]]

\* Every step adds something.
Next ==
    /\ conversation' # conversation
    /\ \/ \E op \in Ops : Open(op)
       \/ \E id \in DOMAIN conversation, role \in Roles :
             \/ Reply(id, role)
             \/ \E to \in Statuses : Move(id, to, role)

Spec == Init /\ [][Next]_conversation
=============================================================================
