----------------------------- MODULE AtomicStore -----------------------------
(***************************************************************************)
(* What a Store promises to the callers of its process: the sidecar is a   *)
(* register with compare-and-swap.  A save takes effect at one moment, by  *)
(* adding one update to exactly the content its caller has read, and is    *)
(* confirmed to that caller at a later moment, when the disk has the       *)
(* whole content.  In between it may fail without being undone, and a      *)
(* crash may undo it.                                                      *)
(***************************************************************************)
CONSTANTS Callers, Updates

VARIABLES
    content,    \* the updates the sidecar includes
    durable,    \* those it includes after a crash, at the least
    known,      \* known[c]: the content caller c has read
    pending,    \* pending[c]: what c has swapped in and is not told of yet
    confirmed   \* the updates confirmed to their callers

store == <<content, durable, known, pending, confirmed>>
NonePending == [c \in Callers |-> {}]

Init ==
    /\ content = {} /\ durable = {} /\ confirmed = {}
    /\ known = NonePending /\ pending = NonePending

Read(c) ==
    /\ known' = [known EXCEPT ![c] = content]
    /\ UNCHANGED <<content, durable, pending, confirmed>>

Swap(c) ==
    /\ known[c] = content
    /\ \E u \in Updates \ content :
          /\ content' = content \union {u}
          /\ pending' = [pending EXCEPT ![c] = {u}]
    /\ UNCHANGED <<durable, known, confirmed>>

Confirm(c) ==
    /\ pending[c] # {}
    /\ durable' = content
    /\ confirmed' = confirmed \union pending[c]
    /\ pending' = [pending EXCEPT ![c] = {}]
    /\ UNCHANGED <<content, known>>

\* Callers get an error, or die: what they swapped in stays, unconfirmed.
Fail(callers) ==
    /\ pending' = [c \in Callers |-> IF c \in callers THEN {} ELSE pending[c]]
    /\ UNCHANGED <<content, durable, known, confirmed>>

Settle ==
    /\ durable' = content
    /\ UNCHANGED <<content, known, pending, confirmed>>

\* Either the content survives or what was durable does, never a mixture.
Crash ==
    /\ content' \in {content, durable}
    /\ durable' = content'
    /\ pending' = NonePending
    /\ UNCHANGED <<known, confirmed>>

Next ==
    \/ \E c \in Callers : Read(c) \/ Swap(c) \/ Confirm(c)
    \/ \E callers \in SUBSET Callers : Fail(callers)
    \/ Settle
    \/ Crash

Spec == Init /\ [][Next]_store
=============================================================================
