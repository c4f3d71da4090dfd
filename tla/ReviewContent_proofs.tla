------------------------ MODULE ReviewContent_proofs ------------------------
(***************************************************************************)
(* What the sidecar says, for any clients, requests and documents: every   *)
(* successor a handler prepares is good, judged with the mutations applied *)
(* so far and its own, so the file is good whichever of them is saved.     *)
(* With a clock that is not set back, the file never returns to a revision *)
(* that a mutation was saved against.  And every save is one step of the   *)
(* conversation that module ReviewConversation promises.                   *)
(***************************************************************************)
EXTENDS ReviewServer_proofs

\* Source of annotation id: an earlier session's, or selected by a mutation in ms.
SourceSelected(s, ms, id) ==
    s[id].source \notin PastSources \union {NoSource} =>
       \E m \in ms :
          /\ m.input.kind \in {"create", "reattach"}
          /\ id = IF m.input.kind = "create" THEN m.op ELSE m.input.target
          /\ m.input.selection # NoSelection
          /\ s[id].source.quote = Text[m.input.selection.document][m.input.selection.range]

Good(s, ms) ==
    /\ SidecarValid(s)
    /\ Consistent(s)
    /\ \A id \in DOMAIN s : SourceSelected(s, ms, id)

ContentInv ==
    /\ Good(sidecar, applied)
    /\ \A c \in Clients :
          Prepared(c) => Good(req[c].next, applied \union {Mutation(req[c])})

-----------------------------------------------------------------------------
(* Threads *)

\* The status after n entries depends on these entries only.
LEMMA StatusAfterAgrees ==
    ASSUME NEW t, NEW u, NEW n \in Nat, \A i \in 1..n : u[i] = t[i], NEW s, StatusAfter(t, n, s)
    PROVE  StatusAfter(u, n, s)
  <1>1. CASE s = "open" /\ \A j \in 1..n : ~IsMove(t[j])
    BY <1>1 DEF StatusAfter
  <1>2. CASE \E j \in 1..n : /\ IsMove(t[j]) /\ t[j].to = s
                             /\ \A k \in (j + 1)..n : ~IsMove(t[k])
    <2>1. PICK j \in 1..n : /\ IsMove(t[j]) /\ t[j].to = s
                            /\ \A k \in (j + 1)..n : ~IsMove(t[k])
      BY <1>2
    <2>2. \A k \in (j + 1)..n : k \in 1..n
      OBVIOUS
    <2> QED
      BY <2>1, <2>2 DEF StatusAfter
  <1> QED
    BY <1>1, <1>2 DEF StatusAfter

\* An entry that is no move changes nothing.
LEMMA StatusAfterOther ==
    ASSUME NEW t, NEW n \in Nat, ~IsMove(t[n + 1]), NEW s, StatusAfter(t, n, s)
    PROVE  StatusAfter(t, n + 1, s)
  <1>1. \A k \in 1..(n + 1) : k \in 1..n \/ k = n + 1
    OBVIOUS
  <1>2. CASE s = "open" /\ \A j \in 1..n : ~IsMove(t[j])
    BY <1>1, <1>2 DEF StatusAfter
  <1>3. CASE \E j \in 1..n : /\ IsMove(t[j]) /\ t[j].to = s
                             /\ \A k \in (j + 1)..n : ~IsMove(t[k])
    <2>1. PICK j \in 1..n : /\ IsMove(t[j]) /\ t[j].to = s
                            /\ \A k \in (j + 1)..n : ~IsMove(t[k])
      BY <1>3
    <2>2. \A k \in (j + 1)..(n + 1) : k \in (j + 1)..n \/ k = n + 1
      OBVIOUS
    <2>3. j \in 1..(n + 1) /\ \A k \in (j + 1)..(n + 1) : ~IsMove(t[k])
      BY <2>1, <2>2
    <2> QED
      BY <2>1, <2>3 DEF StatusAfter
  <1> QED
    BY <1>2, <1>3 DEF StatusAfter

\* A move leads to its status.
LEMMA StatusAfterMove ==
    ASSUME NEW t, NEW n \in Nat \ {0}, IsMove(t[n])
    PROVE  StatusAfter(t, n, t[n].to)
  <1>1. n \in 1..n /\ \A k \in (n + 1)..n : ~IsMove(t[k])
    OBVIOUS
  <1> QED
    BY <1>1 DEF StatusAfter

IsConsistent(a) == StatusIsLastMove(a) /\ MoveWithActivity(a.thread)

\* The old entries of a longer thread satisfy what they did.
LEMMA OldEntriesFit ==
    ASSUME NEW a \in Annotations, IsConsistent(a), NEW t, IsPrefixOf(a.thread, t),
           Len(t) \in Nat, NEW i \in 1..Len(a.thread)
    PROVE  /\ IsMove(t[i]) => StatusAfter(t, i - 1, t[i].from)
           /\ t[i].kind \in {"acknowledgement", "resolution", "review"} =>
                 i < Len(t) /\ t[i + 1].op = t[i].op /\ IsMove(t[i + 1])
           /\ IsMove(t[i]) /\ ActivityKind[t[i].to] # "" =>
                 /\ i > 1
                 /\ t[i - 1].op = t[i].op
                 /\ t[i - 1].kind = ActivityKind[t[i].to]
                 /\ t[i - 1].role = t[i].role
  <1>1. Len(a.thread) \in Nat /\ Len(a.thread) <= Len(t)
        /\ \A k \in 1..Len(a.thread) : t[k] = a.thread[k]
    BY DEF Annotations, IsPrefixOf
  <1>0. i > 1 => i - 1 \in 1..Len(a.thread)
    BY <1>1
  <1>2. t[i] = a.thread[i] /\ i - 1 \in Nat
    BY <1>1
  <1>3. IsMove(t[i]) => StatusAfter(t, i - 1, t[i].from)
    <2> SUFFICES ASSUME IsMove(t[i]) PROVE StatusAfter(t, i - 1, t[i].from)
      OBVIOUS
    <2>1. StatusAfter(a.thread, i - 1, a.thread[i].from)
      BY <1>2 DEF IsConsistent, StatusIsLastMove
    <2>2. \A k \in 1..(i - 1) : t[k] = a.thread[k]
      BY <1>1
    <2> QED
      BY <1>2, <2>1, <2>2, StatusAfterAgrees
  <1>4. t[i].kind \in {"acknowledgement", "resolution", "review"} =>
           i < Len(t) /\ t[i + 1].op = t[i].op /\ IsMove(t[i + 1])
    <2> SUFFICES ASSUME t[i].kind \in {"acknowledgement", "resolution", "review"}
                 PROVE  i < Len(t) /\ t[i + 1].op = t[i].op /\ IsMove(t[i + 1])
      OBVIOUS
    <2>1. i < Len(a.thread) /\ a.thread[i + 1].op = a.thread[i].op /\ IsMove(a.thread[i + 1])
      BY <1>2 DEF IsConsistent, MoveWithActivity
    <2>2. t[i + 1] = a.thread[i + 1]
      BY <1>1, <2>1
    <2> QED
      BY <1>1, <1>2, <2>1, <2>2
  <1>5. IsMove(t[i]) /\ ActivityKind[t[i].to] # "" =>
           /\ i > 1
           /\ t[i - 1].op = t[i].op
           /\ t[i - 1].kind = ActivityKind[t[i].to]
           /\ t[i - 1].role = t[i].role
    <2> SUFFICES ASSUME IsMove(t[i]), ActivityKind[t[i].to] # ""
                 PROVE  /\ i > 1
                        /\ t[i - 1].op = t[i].op
                        /\ t[i - 1].kind = ActivityKind[t[i].to]
                        /\ t[i - 1].role = t[i].role
      OBVIOUS
    <2>1. /\ i > 1
          /\ a.thread[i - 1].op = a.thread[i].op
          /\ a.thread[i - 1].kind = ActivityKind[a.thread[i].to]
          /\ a.thread[i - 1].role = a.thread[i].role
      BY <1>2 DEF IsConsistent, MoveWithActivity
    <2>2. i - 1 \in 1..Len(a.thread)
      BY <1>0, <2>1
    <2>3. t[i - 1] = a.thread[i - 1]
      BY <1>1, <2>2
    <2> QED
      BY <1>2, <2>1, <2>3
  <1> QED
    BY <1>3, <1>4, <1>5

LEMMA ReplyConsistent ==
    ASSUME NEW a \in Annotations, IsConsistent(a), NEW e, e.kind = "reply",
           NEW b, b.thread = Append(a.thread, e), b.status = a.status
    PROVE  IsConsistent(b)
  <1> DEFINE n == Len(a.thread)
             t == b.thread
  <1>1. a.thread \in Seq(Entries) /\ n \in Nat
    BY DEF Annotations
  <1>2. /\ Len(t) = n + 1 /\ t[n + 1] = e
        /\ \A k \in 1..n : t[k] = a.thread[k]
    BY <1>1
  <1> HIDE DEF t
  <1>3. IsPrefixOf(a.thread, t) /\ Len(t) \in Nat /\ ~IsMove(t[n + 1])
    BY <1>1, <1>2 DEF IsPrefixOf, IsMove
  <1>4. StatusAfter(t, n + 1, a.status)
    <2>1. StatusAfter(a.thread, n, a.status)
      BY DEF IsConsistent, StatusIsLastMove
    <2>2. StatusAfter(t, n, a.status)
      BY <1>1, <1>2, <2>1, StatusAfterAgrees
    <2> QED
      BY <1>1, <1>3, <2>2, StatusAfterOther
  <1>5. \A i \in 1..Len(t) : i \in 1..n \/ i = n + 1
    BY <1>1, <1>2
  <1>6. \A i \in 1..Len(t) : IsMove(t[i]) => StatusAfter(t, i - 1, t[i].from)
    BY <1>3, <1>5, OldEntriesFit
  <1>7. MoveWithActivity(t)
    BY <1>2, <1>3, <1>5, OldEntriesFit DEF MoveWithActivity
  <1> QED
    BY <1>2, <1>4, <1>6, <1>7 DEF IsConsistent, StatusIsLastMove, t

LEMMA TransitionConsistent ==
    ASSUME NEW a \in Annotations, IsConsistent(a), NEW op, NEW to \in Statuses, NEW role, NEW at,
           NEW b, b.status = to,
           b.thread = a.thread \o TransitionEntries(op, a.status, to, role, at)
    PROVE  IsConsistent(b)
  <1> DEFINE n == Len(a.thread)
             t == b.thread
             change == StatusChange(op, a.status, to, role, at)
             activity == Activity(op, ActivityKind[to], role, at)
  <1>1. a.thread \in Seq(Entries) /\ n \in Nat
    BY DEF Annotations
  <1>2. /\ change.op = op /\ change.role = role /\ change.from = a.status /\ change.to = to
        /\ IsMove(change) /\ change.kind = "status_change"
        /\ activity.op = op /\ activity.role = role /\ activity.kind = ActivityKind[to]
    BY DEF StatusChange, Activity, IsMove
  <1>3. ActivityKind[to] # "status_change"
    BY DEF ActivityKind, Statuses
  <1>4. StatusAfter(a.thread, n, a.status)
    BY DEF IsConsistent, StatusIsLastMove
  <1>5. CASE ActivityKind[to] = ""
    <2>1. t = a.thread \o <<change>>
      BY <1>5 DEF TransitionEntries
    <2> HIDE DEF change, activity
    <2>2. /\ Len(t) = n + 1 /\ t[n + 1] = change
          /\ \A k \in 1..n : t[k] = a.thread[k]
      BY <1>1, <2>1
    <2> HIDE DEF t
    <2>3. IsPrefixOf(a.thread, t) /\ Len(t) \in Nat
      BY <1>1, <2>2 DEF IsPrefixOf
    <2>4. \A i \in 1..Len(t) : i \in 1..n \/ i = n + 1
      BY <1>1, <2>2
    <2>5. StatusAfter(t, n, a.status)
      BY <1>1, <1>4, <2>2, StatusAfterAgrees
    <2>6. StatusAfter(t, Len(t), to)
      BY <1>1, <1>2, <2>2, StatusAfterMove
    <2>7. \A i \in 1..Len(t) : IsMove(t[i]) => StatusAfter(t, i - 1, t[i].from)
      <3> TAKE i \in 1..Len(t)
      <3>1. CASE i \in 1..n
        BY <2>3, <3>1, OldEntriesFit
      <3>2. CASE i = n + 1
        <4>1. i - 1 = n
          BY <1>1, <3>2
        <4> QED
          BY <1>2, <2>2, <2>5, <3>2, <4>1
      <3> QED
        BY <2>4, <3>1, <3>2
    <2>8. MoveWithActivity(t)
      <3> SUFFICES ASSUME NEW i \in 1..Len(t)
                   PROVE  /\ t[i].kind \in {"acknowledgement", "resolution", "review"} =>
                                i < Len(t) /\ t[i + 1].op = t[i].op /\ IsMove(t[i + 1])
                          /\ IsMove(t[i]) /\ ActivityKind[t[i].to] # "" =>
                                /\ i > 1
                                /\ t[i - 1].op = t[i].op
                                /\ t[i - 1].kind = ActivityKind[t[i].to]
                                /\ t[i - 1].role = t[i].role
        BY DEF MoveWithActivity
      <3>1. CASE i \in 1..n
        BY <2>3, <3>1, OldEntriesFit
      <3>2. CASE i = n + 1
        BY <1>2, <1>5, <2>2, <3>2
      <3> QED
        BY <2>4, <3>1, <3>2
    <2> QED
      BY <2>6, <2>7, <2>8 DEF IsConsistent, StatusIsLastMove, t
  <1>6. CASE ActivityKind[to] # ""
    <2>1. t = a.thread \o <<activity, change>>
      BY <1>6 DEF TransitionEntries
    <2> HIDE DEF change, activity
    <2>2. /\ Len(t) = n + 2 /\ t[n + 1] = activity /\ t[n + 2] = change
          /\ \A k \in 1..n : t[k] = a.thread[k]
      BY <1>1, <2>1
    <2> HIDE DEF t
    <2>3. IsPrefixOf(a.thread, t) /\ Len(t) \in Nat /\ ~IsMove(t[n + 1])
      BY <1>1, <1>2, <1>3, <2>2 DEF IsPrefixOf, IsMove
    <2>4. \A i \in 1..Len(t) : i \in 1..n \/ i = n + 1 \/ i = n + 2
      BY <1>1, <2>2
    <2>5. StatusAfter(t, n + 1, a.status)
      <3>1. StatusAfter(t, n, a.status)
        BY <1>1, <1>4, <2>2, StatusAfterAgrees
      <3> QED
        BY <1>1, <2>3, <3>1, StatusAfterOther
    <2>6. StatusAfter(t, Len(t), to)
      BY <1>1, <1>2, <2>2, StatusAfterMove
    <2>7. \A i \in 1..Len(t) : IsMove(t[i]) => StatusAfter(t, i - 1, t[i].from)
      <3> TAKE i \in 1..Len(t)
      <3>1. CASE i \in 1..n
        BY <2>3, <3>1, OldEntriesFit
      <3>2. CASE i = n + 1
        BY <2>3, <3>2
      <3>3. CASE i = n + 2
        <4>1. i - 1 = n + 1
          BY <1>1, <3>3
        <4> QED
          BY <1>2, <2>2, <2>5, <3>3, <4>1
      <3> QED
        BY <2>4, <3>1, <3>2, <3>3
    <2>8. MoveWithActivity(t)
      <3> SUFFICES ASSUME NEW i \in 1..Len(t)
                   PROVE  /\ t[i].kind \in {"acknowledgement", "resolution", "review"} =>
                                i < Len(t) /\ t[i + 1].op = t[i].op /\ IsMove(t[i + 1])
                          /\ IsMove(t[i]) /\ ActivityKind[t[i].to] # "" =>
                                /\ i > 1
                                /\ t[i - 1].op = t[i].op
                                /\ t[i - 1].kind = ActivityKind[t[i].to]
                                /\ t[i - 1].role = t[i].role
        BY DEF MoveWithActivity
      <3>1. CASE i \in 1..n
        BY <2>3, <3>1, OldEntriesFit
      <3>2. CASE i = n + 1
        <4>1. i < Len(t) /\ i + 1 = n + 2
          BY <1>1, <2>2, <3>2
        <4> QED
          BY <1>2, <2>2, <2>3, <3>2, <4>1
      <3>3. CASE i = n + 2
        <4>1. i > 1 /\ i - 1 = n + 1
          BY <1>1, <3>3
        <4> QED
          BY <1>2, <2>2, <3>3, <4>1
      <3> QED
        BY <2>4, <3>1, <3>2, <3>3
    <2> QED
      BY <2>6, <2>7, <2>8 DEF IsConsistent, StatusIsLastMove, t
  <1> QED
    BY <1>5, <1>6

-----------------------------------------------------------------------------
(* Successors *)

LEMMA SelectedMonotone ==
    ASSUME NEW s, NEW ms, NEW ns, ms \subseteq ns, NEW id, SourceSelected(s, ms, id)
    PROVE  SourceSelected(s, ns, id)
  BY DEF SourceSelected

\* What an update changes in its target only.
LEMMA UpdateOthers ==
    ASSUME TypeOK, NEW r, r.input.target \in DOMAIN sidecar, NEW a
    PROVE  /\ DOMAIN WithUpdate(r, a) = DOMAIN sidecar
           /\ WithUpdate(r, a)[r.input.target] = a
           /\ \A id \in DOMAIN sidecar \ {r.input.target} : WithUpdate(r, a)[id] = sidecar[id]
  BY DEF WithUpdate, TypeOK, IsSidecar

\* A successor is good when it is valid and its new or changed annotation is.
LEMMA SuccessorGood ==
    ASSUME Good(sidecar, applied), NEW next, SidecarValid(next), NEW target, NEW m,
           DOMAIN next \subseteq DOMAIN sidecar \union {target},
           \A id \in DOMAIN next \ {target} : next[id] = sidecar[id],
           target \in DOMAIN next => /\ IsConsistent(next[target])
                                     /\ SourceSelected(next, applied \union {m}, target)
    PROVE  Good(next, applied \union {m})
  <1>1. Consistent(next)
    BY DEF Good, Consistent, IsConsistent
  <1>2. ASSUME NEW id \in DOMAIN next, id # target
        PROVE  SourceSelected(next, applied \union {m}, id)
    <2>1. id \in DOMAIN sidecar /\ next[id] = sidecar[id]
      BY <1>2
    <2>2. SourceSelected(sidecar, applied \union {m}, id)
      BY <2>1, SelectedMonotone DEF Good
    <2> QED
      BY <2>1, <2>2 DEF SourceSelected
  <1> QED
    BY <1>1, <1>2 DEF Good

\* A selection is kept only if it was made on the content the handler has read.
LEMMA CreateGood ==
    ASSUME TypeOK, Good(sidecar, applied), NEW r, IsAccepted(r, ops), r.input.kind = "create",
           r.op \notin DOMAIN sidecar, NEW now, SidecarValid(WithCreated(r, now))
    PROVE  Good(WithCreated(r, now), applied \union {Mutation(r)})
  <1> DEFINE next == WithCreated(r, now)
             a == Created(r, now)
  <1>1. /\ DOMAIN next = DOMAIN sidecar \union {r.op} /\ next[r.op] = a
        /\ \A id \in DOMAIN next \ {r.op} : next[id] = sidecar[id]
    BY DEF WithCreated
  <1>2. a.status = "open" /\ a.thread = <<>>
    BY DEF Created
  <1>3. IsConsistent(a)
    <2> HIDE DEF a
    <2>1. Len(a.thread) = 0
      BY <1>2
    <2> QED
      BY <1>2, <2>1 DEF IsConsistent, StatusIsLastMove, MoveWithActivity, StatusAfter
  <1>4. SourceSelected(next, applied \union {Mutation(r)}, r.op)
    <2> SUFFICES ASSUME a.source # NoSource
                 PROVE  /\ r.input.selection # NoSelection
                        /\ a.source.quote = Text[r.input.selection.document][r.input.selection.range]
      <3>1. /\ Mutation(r).op = r.op /\ Mutation(r).input = r.input
        BY DEF Mutation
      <3> QED
        BY <1>1, <3>1 DEF SourceSelected
    <2>1. r.input.selection # NoSelection /\ r.input.selection.document = r.document
          /\ a.source = NewSource(r.document, r.input.selection.range)
      BY DEF Created
    <2> QED
      BY <2>1 DEF NewSource
  <1> QED
    BY <1>1, <1>3, <1>4, SuccessorGood

LEMMA UpdateGood ==
    ASSUME TypeOK, Good(sidecar, applied), NEW r, r.input.target \in DOMAIN sidecar,
           NEW b, SidecarValid(WithUpdate(r, b)), IsConsistent(b),
           \/ b.source = sidecar[r.input.target].source
           \/ /\ r.input.kind = "reattach" /\ r.input.selection # NoSelection
              /\ b.source.quote = Text[r.input.selection.document][r.input.selection.range]
    PROVE  Good(WithUpdate(r, b), applied \union {Mutation(r)})
  <1> DEFINE next == WithUpdate(r, b)
             target == r.input.target
  <1>1. /\ DOMAIN next = DOMAIN sidecar /\ next[target] = b
        /\ \A id \in DOMAIN next \ {target} : next[id] = sidecar[id]
    BY UpdateOthers
  <1>2. SourceSelected(next, applied \union {Mutation(r)}, target)
    <2>1. CASE b.source = sidecar[target].source
      <3>1. SourceSelected(sidecar, applied \union {Mutation(r)}, target)
        BY SelectedMonotone DEF Good
      <3> QED
        BY <1>1, <2>1, <3>1 DEF SourceSelected
    <2>2. CASE /\ r.input.kind = "reattach" /\ r.input.selection # NoSelection
               /\ b.source.quote = Text[r.input.selection.document][r.input.selection.range]
      <3>1. Mutation(r).op = r.op /\ Mutation(r).input = r.input
        BY DEF Mutation
      <3> HIDE DEF next
      <3> QED
        BY <1>1, <2>2, <3>1 DEF SourceSelected
    <2> QED
      BY <2>1, <2>2
  <1> HIDE DEF next, target
  <1>3. Good(next, applied \union {Mutation(r)})
    BY <1>1, <1>2, SuccessorGood DEF next
  <1> QED
    BY <1>3 DEF next

LEMMA LoadedIsConsistent ==
    ASSUME TypeOK, Good(sidecar, applied), NEW id \in DOMAIN sidecar
    PROVE  sidecar[id] \in Annotations /\ IsConsistent(sidecar[id])
  BY DEF TypeOK, IsSidecar, Good, Consistent, IsConsistent

LEMMA ReplyGood ==
    ASSUME TypeOK, Good(sidecar, applied), NEW r, ReplyRefusal(r) = "none",
           NEW now, SidecarValid(WithReply(r, now))
    PROVE  Good(WithReply(r, now), applied \union {Mutation(r)})
  <1> DEFINE a == sidecar[r.input.target]
             e == Activity(r.op, "reply", r.input.role, now)
             b == [a EXCEPT !.thread = Append(a.thread, e), !.updatedAt = now]
  <1>1. r.input.target \in DOMAIN sidecar
    BY DEF ReplyRefusal
  <1>2. a \in Annotations /\ IsConsistent(a)
    BY <1>1, LoadedIsConsistent
  <1>3. e.kind = "reply"
    BY DEF Activity
  <1>4. WithReply(r, now) = WithUpdate(r, b)
    BY DEF WithReply
  <1> HIDE DEF a, e
  <1>5. b.thread = Append(a.thread, e) /\ b.status = a.status /\ b.source = a.source
    BY <1>2 DEF Annotations
  <1> HIDE DEF b
  <1>6. IsConsistent(b)
    BY <1>2, <1>3, <1>5, ReplyConsistent
  <1> QED
    BY <1>1, <1>4, <1>5, <1>6, UpdateGood DEF a

LEMMA TransitionGood ==
    ASSUME TypeOK, Good(sidecar, applied), NEW r, r.input \in TransitionInputs,
           TransitionRefusal(r) = "none",
           NEW now, SidecarValid(WithTransition(r, now))
    PROVE  Good(WithTransition(r, now), applied \union {Mutation(r)})
  <1> DEFINE a == sidecar[r.input.target]
             at == Clamped(r, now)
             entries == TransitionEntries(r.op, a.status, r.input.to, r.input.role, at)
             b == [a EXCEPT !.status = r.input.to, !.thread = a.thread \o entries, !.updatedAt = at]
  <1>1. r.input.target \in DOMAIN sidecar /\ r.input.to \in Statuses
    BY DEF TransitionRefusal, TransitionInputs
  <1>2. a \in Annotations /\ IsConsistent(a)
    BY <1>1, LoadedIsConsistent
  <1>3. WithTransition(r, now) = WithUpdate(r, b)
    BY DEF WithTransition
  <1> HIDE DEF a, at
  <1>4. /\ b.thread = a.thread \o TransitionEntries(r.op, a.status, r.input.to, r.input.role, at)
        /\ b.status = r.input.to /\ b.source = a.source
    BY <1>2 DEF Annotations
  <1> HIDE DEF b
  <1>5. IsConsistent(b)
    BY <1>1, <1>2, <1>4, TransitionConsistent
  <1> QED
    BY <1>1, <1>3, <1>4, <1>5, UpdateGood DEF a

LEMMA ReattachGood ==
    ASSUME TypeOK, Good(sidecar, applied), NEW r, r.input \in ReattachInputs,
           ReattachRefusal(r) = "none",
           NEW now, SidecarValid(WithReattachment(r, now))
    PROVE  Good(WithReattachment(r, now), applied \union {Mutation(r)})
  <1> DEFINE a == sidecar[r.input.target]
             source == NewSource(r.document, r.input.selection.range)
             b == [a EXCEPT !.source = source, !.needsReattachment = FALSE,
                            !.updatedAt = Clamped(r, now)]
  <1>1. /\ r.input.target \in DOMAIN sidecar /\ r.input.kind = "reattach"
        /\ r.input.selection \in Selections /\ r.input.selection.document = r.document
    BY DEF ReattachRefusal, ReattachInputs
  <1>2. a \in Annotations /\ IsConsistent(a)
    BY <1>1, LoadedIsConsistent
  <1>3. WithReattachment(r, now) = WithUpdate(r, b)
    BY DEF WithReattachment
  <1>4. r.input.selection # NoSelection
    BY <1>1 DEF Selections, NoSelection
  <1>5. source.quote = Text[r.input.selection.document][r.input.selection.range]
    BY <1>1 DEF NewSource
  <1> HIDE DEF a, source
  <1>6. b.thread = a.thread /\ b.status = a.status /\ b.source = source
    BY <1>2 DEF Annotations
  <1> HIDE DEF b
  <1>7. IsConsistent(b)
    BY <1>2, <1>6 DEF IsConsistent, StatusIsLastMove
  <1> QED
    BY <1>1, <1>3, <1>4, <1>5, <1>6, <1>7, UpdateGood DEF a

-----------------------------------------------------------------------------
(* Every step keeps the invariant *)

LEMMA ContentInitially == Init => ContentInv
  <1> SUFFICES ASSUME Init PROVE ContentInv
    OBVIOUS
  <1>1. sidecar \in InitialSidecars /\ \A c \in Clients : ~Prepared(c)
    BY DEF Init, Prepared, Idle
  <1>2. \A id \in DOMAIN sidecar : sidecar[id].source \in PastSources
    BY <1>1 DEF PastSources
  <1> QED
    BY <1>1, <1>2, PastAssumption DEF ContentInv, Good, SourceSelected

\* Steps that prepare nothing and do not touch the file.
LEMMA ContentQuiet ==
    ASSUME ContentInv, UNCHANGED <<sidecar, applied>>,
           \A c \in Clients : req'[c] = req[c] \/ req'[c].phase # "prepared"
    PROVE  ContentInv'
  BY DEF ContentInv, Good, SourceSelected, Prepared

LEMMA ContentProposed ==
    ASSUME IInv, ContentInv, NEW c \in Clients, NEW outcome \in Outcomes \union {"none"}, NEW next,
           Refuse(c, outcome) \/ Propose(c, outcome, next),
           outcome = "none" /\ SidecarValid(next) => Good(next, applied \union {Mutation(req[c])}),
           UNCHANGED <<sidecar, applied>>
    PROVE  ContentInv'
  <1>0. DOMAIN req = Clients
    BY DEF IInv, TypeOK
  <1>1. ASSUME NEW kind, Answer(c, kind, view[c])
        PROVE  ContentInv'
    <2>1. \A d \in Clients : req'[d] = req[d] \/ req'[d].phase # "prepared"
      BY <1>0, <1>1 DEF Answer
    <2> QED
      BY <2>1, ContentQuiet
  <1>2. CASE Propose(c, outcome, next) /\ SidecarValid(next)
    <2> DEFINE r == [phase |-> "prepared", op |-> req[c].op, input |-> req[c].input,
                     expected |-> req[c].expected, loaded |-> sidecar, next |-> next]
    <2>1. req'[c] = r /\ (\A d \in Clients \ {c} : req'[d] = req[d])
      BY <1>0, <1>2 DEF Propose
    <2>2. Mutation(r) = Mutation(req[c]) /\ r.next = next
      BY DEF Mutation
    <2>3. Good(next, applied \union {Mutation(req[c])})
      BY <1>2 DEF Propose
    <2> HIDE DEF r
    <2>4. Good(req'[c].next, applied' \union {Mutation(req'[c])})
      BY <2>1, <2>2, <2>3
    <2>5. \A d \in Clients \ {c} : Prepared(d)' => Prepared(d)
      BY <2>1 DEF Prepared
    <2>6. \A d \in Clients : Prepared(d)' => Good(req'[d].next, applied' \union {Mutation(req'[d])})
      BY <2>1, <2>4, <2>5 DEF ContentInv
    <2>7. Good(sidecar', applied')
      BY DEF ContentInv
    <2> QED
      BY <2>6, <2>7 DEF ContentInv, Good, Consistent, SidecarValid, SourceSelected, Mutation
  <1> QED
    BY <1>1, <1>2 DEF Refuse, Propose

LEMMA ContentHandled ==
    ASSUME IInv, ContentInv, NEW c \in Clients, Create(c) \/ Reply(c) \/ Transition(c) \/ Reattach(c)
    PROVE  ContentInv'
  <1> DEFINE r == req[c]
  <1>1. r.phase = "accepted" /\ UNCHANGED <<sidecar, applied>>
    BY DEF Create, Reply, Transition, Reattach, Accepted
  <1>2. IsAccepted(r, ops) /\ r.op \notin DOMAIN sidecar /\ TypeOK /\ Good(sidecar, applied)
    BY <1>1, AcceptedIsTyped DEF IInv, ContentInv
  <1>3. r.input \in Inputs
    BY <1>2 DEF IsAccepted
  <1>4. CASE Create(c)
    <2>1. CreateRefusal(r) \in Outcomes \union {"none"}
      BY DEF CreateRefusal, Outcomes
    <2>2. r.input.kind = "create"
          /\ (Refuse(c, CreateRefusal(r)) \/ Propose(c, CreateRefusal(r), WithCreated(r, clock + 1)))
      BY <1>4 DEF Create, Accepted
    <2>3. SidecarValid(WithCreated(r, clock + 1)) =>
             Good(WithCreated(r, clock + 1), applied \union {Mutation(r)})
      BY <1>2, <2>2, CreateGood
    <2> QED
      BY <1>1, <2>1, <2>2, <2>3, ContentProposed
  <1>5. CASE Reply(c)
    <2>1. ReplyRefusal(r) \in Outcomes \union {"none"}
      BY DEF ReplyRefusal, Outcomes
    <2>2. Refuse(c, ReplyRefusal(r)) \/ Propose(c, ReplyRefusal(r), WithReply(r, clock + 1))
      BY <1>5 DEF Reply
    <2>3. ReplyRefusal(r) = "none" /\ SidecarValid(WithReply(r, clock + 1)) =>
             Good(WithReply(r, clock + 1), applied \union {Mutation(r)})
      BY <1>2, ReplyGood
    <2> QED
      BY <1>1, <2>1, <2>2, <2>3, ContentProposed
  <1>6. CASE Transition(c)
    <2>1. TransitionRefusal(r) \in Outcomes \union {"none"}
      BY DEF TransitionRefusal, Outcomes
    <2>2. r.input \in TransitionInputs
      BY <1>3, <1>6, InputTypes DEF Transition, Accepted
    <2>3. Refuse(c, TransitionRefusal(r)) \/ Propose(c, TransitionRefusal(r), WithTransition(r, clock + 1))
      BY <1>6 DEF Transition
    <2>4. TransitionRefusal(r) = "none" /\ SidecarValid(WithTransition(r, clock + 1)) =>
             Good(WithTransition(r, clock + 1), applied \union {Mutation(r)})
      BY <1>2, <2>2, TransitionGood
    <2> QED
      BY <1>1, <2>1, <2>3, <2>4, ContentProposed
  <1>7. CASE Reattach(c)
    <2>1. ReattachRefusal(r) \in Outcomes \union {"none"}
      BY DEF ReattachRefusal, Outcomes
    <2>2. r.input \in ReattachInputs
      BY <1>3, <1>7, InputTypes DEF Reattach, Accepted
    <2>3. Refuse(c, ReattachRefusal(r)) \/ Propose(c, ReattachRefusal(r), WithReattachment(r, clock + 1))
      BY <1>7 DEF Reattach
    <2>4. ReattachRefusal(r) = "none" /\ SidecarValid(WithReattachment(r, clock + 1)) =>
             Good(WithReattachment(r, clock + 1), applied \union {Mutation(r)})
      BY <1>2, <2>2, ReattachGood
    <2> QED
      BY <1>1, <2>1, <2>3, <2>4, ContentProposed
  <1> QED
    BY <1>4, <1>5, <1>6, <1>7

LEMMA ContentSaved ==
    ASSUME IInv, ContentInv, NEW c \in Clients, Save(c) \/ SaveFails(c)
    PROVE  ContentInv'
  <1>0. DOMAIN req = Clients /\ Prepared(c)
    BY DEF IInv, TypeOK, Save, SaveFails
  <1>1. \A d \in Clients : (d # c => req'[d] = req[d]) /\ (d = c => ~Prepared(d)')
    BY <1>0 DEF Save, SaveFails, Answer, Prepared
  <1>2. CASE UNCHANGED <<sidecar, applied>>
    BY <1>1, <1>2, ContentQuiet DEF Prepared
  <1>3. CASE Write(c)
    <2>1. sidecar' = req[c].next /\ applied' = applied \union {Mutation(req[c])}
      BY <1>3 DEF Write, Mutation
    <2>2. Good(sidecar', applied')
      BY <1>0, <2>1 DEF ContentInv
    <2>3. ASSUME NEW d \in Clients, Prepared(d)'
          PROVE  Good(req'[d].next, applied' \union {Mutation(req'[d])})
      <3>1. d # c /\ req'[d] = req[d] /\ Prepared(d)
        BY <1>1, <2>3 DEF Prepared
      <3>2. Good(req[d].next, applied \union {Mutation(req[d])})
        BY <3>1 DEF ContentInv
      <3>3. applied \union {Mutation(req[d])} \subseteq applied' \union {Mutation(req[d])}
        BY <2>1
      <3>4. \A id \in DOMAIN req[d].next :
               SourceSelected(req[d].next, applied' \union {Mutation(req[d])}, id)
        BY <3>2, <3>3, SelectedMonotone DEF Good
      <3> QED
        BY <3>1, <3>2, <3>4 DEF Good
    <2> QED
      BY <2>2, <2>3 DEF ContentInv, Good, Consistent, SidecarValid, SourceSelected, Mutation
  <1> QED
    BY <1>2, <1>3 DEF Save, SaveFails

LEMMA ContentStep ==
    ASSUME IInv, ContentInv, [Next]_vars
    PROVE  ContentInv'
  <1>0. DOMAIN req = Clients
    BY DEF IInv, TypeOK
  <1>1. ASSUME NEW c \in Clients, Send(c) \/ Deliver(c) \/ Lose(c) \/ Refresh(c) \/ OpenPage(c)
        PROVE  ContentInv'
    <2>1. /\ UNCHANGED <<sidecar, applied>>
          /\ \A d \in Clients : req'[d] = req[d] \/ req'[d].phase # "prepared"
      BY <1>0, <1>1 DEF Send, Accept, Deliver, Lose, Refresh, OpenPage, Idle
    <2> QED
      BY <2>1, ContentQuiet
  <1>2. CASE EditDocument \/ SetClockBack \/ Restart \/ UNCHANGED vars
    <2>1. /\ UNCHANGED <<sidecar, applied>>
          /\ \A d \in Clients : req'[d] = req[d] \/ req'[d].phase # "prepared"
      BY <1>2 DEF EditDocument, SetClockBack, Restart, vars, Idle
    <2> QED
      BY <2>1, ContentQuiet
  <1> QED
    BY <1>1, <1>2, ContentHandled, ContentSaved DEF Next, Handle

LEMMA ContentAlways == Spec => []ContentInv
  BY InitEstablishesIInv, NextPreservesIInv, ContentInitially, ContentStep, PTL DEF Spec

\* The file can be loaded for ever, whatever is sent and wherever the clock is set.
THEOREM StoredIsLoadable == Spec => []FileAlwaysLoads
  <1>1. ContentInv => FileAlwaysLoads
    BY DEF ContentInv, Good, FileAlwaysLoads
  <1> QED
    BY <1>1, ContentAlways, PTL

\* The status of every comment is the one its recorded moves lead to, however many
\* clients move it from whatever revision they have seen.
THEOREM StatusIsRecorded == Spec => []StatusFollowsThread
  <1>1. ContentInv => StatusFollowsThread
    BY DEF ContentInv, Good, Consistent, StatusFollowsThread
  <1> QED
    BY <1>1, ContentAlways, PTL

\* A move and the activity that explains it are never separated.
THEOREM MovesAreExplained == Spec => []MovesCarryActivity
  <1>1. ContentInv => MovesCarryActivity
    BY DEF ContentInv, Good, Consistent, MovesCarryActivity
  <1> QED
    BY <1>1, ContentAlways, PTL

\* A quote is what a client selected, for any documents and any edits between the
\* selection and the handler's read.
THEOREM SourcesWereSelected == Spec => []SourceWasSelected
  <1>1. ContentInv => SourceWasSelected
    BY DEF ContentInv, Good, SourceSelected, SourceWasSelected
  <1> QED
    BY <1>1, ContentAlways, PTL

-----------------------------------------------------------------------------
(***************************************************************************)
(* Revisions, as long as nobody sets the clock back                        *)
(***************************************************************************)

\* Every annotation of the earlier revision s is in t, updated no earlier.
Before(s, t) ==
    /\ DOMAIN s \subseteq DOMAIN t
    /\ \A id \in DOMAIN s : s[id].updatedAt <= t[id].updatedAt

\* And t has one that is new or was updated since.
Later(s, t) ==
    /\ Before(s, t)
    /\ \E id \in DOMAIN t : id \in DOMAIN s => s[id].updatedAt < t[id].updatedAt

UpdatedBy(s, now) == \A id \in DOMAIN s : s[id].updatedAt <= now

RevisionFits(c) ==
    /\ Before(view[c], sidecar)
    /\ req[c].phase = "accepted" => Before(req[c].expected, sidecar)
    /\ req[c].phase = "prepared" => /\ Later(req[c].expected, req[c].next)
                                    /\ UpdatedBy(req[c].next, clock)
    /\ req[c].phase = "answered" => Before(req[c].revision, sidecar)

RevisionInv ==
    /\ UpdatedBy(sidecar, clock)
    /\ \A c \in Clients : RevisionFits(c)
    /\ \A m \in applied : Later(m.expected, sidecar)
    /\ RevisionSpentOnce

PastIsPast == \A s \in InitialSidecars : UpdatedBy(s, StartClock)

Dated(s) == \A id \in DOMAIN s : s[id].updatedAt \in Int

LEMMA SidecarDated ==
    ASSUME NEW s, NEW n, IsSidecar(s, n)
    PROVE  Dated(s)
  <1> SUFFICES ASSUME NEW id \in DOMAIN s PROVE s[id].updatedAt \in Int
    BY DEF Dated
  <1>1. s[id] \in Annotations
    BY DEF IsSidecar
  <1> QED
    BY <1>1, BoundsAssumption DEF Annotations, Times

\* The revisions the server and its clients know are dated.
LEMMA RevisionsDated ==
    ASSUME TypeOK
    PROVE  /\ Dated(sidecar) /\ clock \in Int
           /\ \A c \in Clients :
                 /\ Dated(view[c])
                 /\ req[c].phase = "accepted" => Dated(req[c].expected)
                 /\ req[c].phase = "prepared" => Dated(req[c].expected) /\ Dated(req[c].next)
                 /\ req[c].phase = "answered" => Dated(req[c].revision)
           /\ \A m \in applied : Dated(m.expected)
  <1>1. Dated(sidecar) /\ clock \in Int
    BY SidecarDated, BoundsAssumption DEF TypeOK, Times
  <1>2. ASSUME NEW c \in Clients
        PROVE  /\ Dated(view[c])
               /\ req[c].phase = "accepted" => Dated(req[c].expected)
               /\ req[c].phase = "prepared" => Dated(req[c].expected) /\ Dated(req[c].next)
               /\ req[c].phase = "answered" => Dated(req[c].revision)
    <2>1. IsRequest(req[c], ops) /\ IsSidecar(view[c], ops)
      BY DEF TypeOK
    <2> QED
      BY <2>1, SidecarDated DEF IsRequest, IsAccepted, IsPrepared, IsAnswered, Idle
  <1>3. \A m \in applied : Dated(m.expected)
    BY SidecarDated DEF TypeOK
  <1> QED
    BY <1>1, <1>2, <1>3

LEMMA BeforeReflexive ==
    ASSUME NEW s, Dated(s)
    PROVE  Before(s, s) /\ ~Later(s, s)
  BY DEF Before, Later, Dated

LEMMA BeforeTransitive ==
    ASSUME NEW s, NEW t, NEW u, Dated(s), Dated(t), Dated(u), Before(s, t), Before(t, u)
    PROVE  /\ Before(s, u)
           /\ Later(s, t) \/ Later(t, u) => Later(s, u)
  <1>1. Before(s, u)
    <2>1. \A id \in DOMAIN s : id \in DOMAIN t /\ id \in DOMAIN u
      BY DEF Before
    <2> QED
      BY <2>1 DEF Before, Dated
  <1>2. ASSUME Later(s, t) PROVE Later(s, u)
    <2>1. PICK id \in DOMAIN t : id \in DOMAIN s => s[id].updatedAt < t[id].updatedAt
      BY <1>2 DEF Later
    <2>2. id \in DOMAIN u /\ t[id].updatedAt <= u[id].updatedAt
      BY <2>1 DEF Before
    <2>3. id \in DOMAIN s => s[id].updatedAt < u[id].updatedAt
      BY <2>1, <2>2 DEF Dated
    <2> QED
      BY <1>1, <2>2, <2>3 DEF Later
  <1>3. ASSUME Later(t, u) PROVE Later(s, u)
    <2>1. PICK id \in DOMAIN u : id \in DOMAIN t => t[id].updatedAt < u[id].updatedAt
      BY <1>3 DEF Later
    <2>2. id \in DOMAIN s => id \in DOMAIN t /\ s[id].updatedAt <= t[id].updatedAt
      BY DEF Before
    <2>3. id \in DOMAIN s => s[id].updatedAt < u[id].updatedAt
      BY <2>1, <2>2 DEF Dated
    <2> QED
      BY <1>1, <2>1, <2>3 DEF Later
  <1> QED
    BY <1>1, <1>2, <1>3

\* What a handler proposes is later than what it loaded.
LEMMA SuccessorLater ==
    ASSUME TypeOK, UpdatedBy(sidecar, clock), clock < MaxClock, NEW r, IsAccepted(r, ops),
           r.op \notin DOMAIN sidecar, NEW next,
           \/ r.input.kind = "create" /\ next = WithCreated(r, clock + 1)
           \/ ReplyRefusal(r) = "none" /\ next = WithReply(r, clock + 1)
           \/ TransitionRefusal(r) = "none" /\ next = WithTransition(r, clock + 1)
           \/ ReattachRefusal(r) = "none" /\ next = WithReattachment(r, clock + 1)
    PROVE  Later(sidecar, next) /\ UpdatedBy(next, clock + 1)
  <1> DEFINE now == clock + 1
  <1>1. Dated(sidecar) /\ clock \in Int
    BY RevisionsDated
  <1>2. CASE r.input.kind = "create" /\ next = WithCreated(r, now)
    <2>1. /\ DOMAIN next = DOMAIN sidecar \union {r.op} /\ next[r.op].updatedAt = now
          /\ \A id \in DOMAIN sidecar : next[id] = sidecar[id]
      BY <1>2 DEF WithCreated, Created
    <2> QED
      BY <1>1, <2>1 DEF Later, Before, UpdatedBy, Dated
  <1>3. ASSUME NEW a, next = WithUpdate(r, a), a.updatedAt = now, r.input.target \in DOMAIN sidecar
        PROVE  Later(sidecar, next) /\ UpdatedBy(next, now)
    <2>1. /\ DOMAIN next = DOMAIN sidecar /\ next[r.input.target].updatedAt = now
          /\ \A id \in DOMAIN sidecar \ {r.input.target} : next[id] = sidecar[id]
      BY <1>3, UpdateOthers
    <2>2. sidecar[r.input.target].updatedAt < now
      BY <1>1, <1>3 DEF UpdatedBy, Dated
    <2> QED
      BY <1>1, <1>3, <2>1, <2>2 DEF Later, Before, UpdatedBy, Dated
  <1>4. ASSUME r.input.target \in DOMAIN sidecar
        PROVE  Clamped(r, now) = now /\ sidecar[r.input.target] \in Annotations
    <2>1. sidecar[r.input.target].updatedAt <= clock
      BY <1>4 DEF UpdatedBy
    <2>2. sidecar[r.input.target].updatedAt \in Int
      BY <1>1, <1>4 DEF Dated
    <2> QED
      BY <1>1, <1>4, <2>1, <2>2 DEF Clamped, TypeOK, IsSidecar
  <1>5. CASE ReplyRefusal(r) = "none" /\ next = WithReply(r, now)
    <2> DEFINE a == sidecar[r.input.target]
               e == Activity(r.op, "reply", r.input.role, now)
               b == [a EXCEPT !.thread = Append(a.thread, e), !.updatedAt = now]
    <2>1. r.input.target \in DOMAIN sidecar
      BY <1>5 DEF ReplyRefusal
    <2>2. next = WithUpdate(r, b)
      BY <1>5 DEF WithReply
    <2>3. a \in Annotations
      BY <1>4, <2>1
    <2> HIDE DEF a, e
    <2>4. b.updatedAt = now
      BY <2>3 DEF Annotations
    <2> HIDE DEF b
    <2> QED
      BY <1>3, <2>1, <2>2, <2>4
  <1>6. CASE TransitionRefusal(r) = "none" /\ next = WithTransition(r, now)
    <2> DEFINE a == sidecar[r.input.target]
               at == Clamped(r, now)
               entries == TransitionEntries(r.op, a.status, r.input.to, r.input.role, at)
               b == [a EXCEPT !.status = r.input.to, !.thread = a.thread \o entries, !.updatedAt = at]
    <2>1. r.input.target \in DOMAIN sidecar
      BY <1>6 DEF TransitionRefusal
    <2>2. next = WithUpdate(r, b)
      BY <1>6 DEF WithTransition
    <2>3. a \in Annotations /\ at = now
      BY <1>4, <2>1
    <2> HIDE DEF a, entries, at
    <2>4. b.updatedAt = now
      BY <2>3 DEF Annotations
    <2> HIDE DEF b
    <2> QED
      BY <1>3, <2>1, <2>2, <2>4
  <1>7. CASE ReattachRefusal(r) = "none" /\ next = WithReattachment(r, now)
    <2> DEFINE a == sidecar[r.input.target]
               at == Clamped(r, now)
               source == NewSource(r.document, r.input.selection.range)
               b == [a EXCEPT !.source = source, !.needsReattachment = FALSE, !.updatedAt = at]
    <2>1. r.input.target \in DOMAIN sidecar
      BY <1>7 DEF ReattachRefusal
    <2>2. next = WithUpdate(r, b)
      BY <1>7 DEF WithReattachment
    <2>3. a \in Annotations /\ at = now
      BY <1>4, <2>1
    <2> HIDE DEF a, source, at
    <2>4. b.updatedAt = now
      BY <2>3 DEF Annotations
    <2> HIDE DEF b
    <2> QED
      BY <1>3, <2>1, <2>2, <2>4
  <1> QED
    BY <1>2, <1>5, <1>6, <1>7

LEMMA RevisionInitially == PastIsPast /\ Init => RevisionInv
  <1> SUFFICES ASSUME PastIsPast, Init PROVE RevisionInv
    OBVIOUS
  <1>1. UpdatedBy(sidecar, clock)
    BY DEF PastIsPast, Init
  <1>2. Dated(sidecar)
    BY PastAssumption, SidecarDated DEF Init
  <1>3. \A c \in Clients : req[c].phase = "idle" /\ view[c] = sidecar
    BY DEF Init, Idle
  <1>4. \A c \in Clients : RevisionFits(c)
    BY <1>2, <1>3, BeforeReflexive DEF RevisionFits
  <1> QED
    BY <1>1, <1>4 DEF Init, RevisionInv, RevisionSpentOnce

\* A request that nothing happens to, while the file stays or moves on.
LEMMA RevisionOther ==
    ASSUME TypeOK, RevisionInv, Dated(sidecar'), Before(sidecar, sidecar'),
           clock' \in Int, clock <= clock',
           NEW d \in Clients, req'[d] = req[d], view'[d] = view[d]
    PROVE  RevisionFits(d)'
  <1>1. RevisionFits(d)
    BY DEF RevisionInv
  <1>2. /\ Dated(sidecar) /\ clock \in Int /\ Dated(view[d])
        /\ req[d].phase = "accepted" => Dated(req[d].expected)
        /\ req[d].phase = "prepared" => Dated(req[d].expected) /\ Dated(req[d].next)
        /\ req[d].phase = "answered" => Dated(req[d].revision)
    BY RevisionsDated
  <1>3. Before(view[d], sidecar')
    BY <1>1, <1>2, BeforeTransitive DEF RevisionFits
  <1>4. req[d].phase = "accepted" => Before(req[d].expected, sidecar')
    BY <1>1, <1>2, BeforeTransitive DEF RevisionFits
  <1>5. req[d].phase = "answered" => Before(req[d].revision, sidecar')
    BY <1>1, <1>2, BeforeTransitive DEF RevisionFits
  <1>6. req[d].phase = "prepared" => UpdatedBy(req[d].next, clock')
    BY <1>1, <1>2 DEF RevisionFits, UpdatedBy, Dated
  <1> QED
    BY <1>1, <1>3, <1>4, <1>5, <1>6 DEF RevisionFits

\* A step that leaves the file alone.
LEMMA RevisionQuiet ==
    ASSUME TypeOK, RevisionInv, UNCHANGED <<sidecar, applied>>, clock' \in Int, clock <= clock',
           \A d \in Clients : (req'[d] = req[d] /\ view'[d] = view[d]) \/ RevisionFits(d)'
    PROVE  RevisionInv'
  <1>1. Dated(sidecar) /\ Before(sidecar, sidecar') /\ Dated(sidecar') /\ clock \in Int
    BY RevisionsDated, BeforeReflexive
  <1>2. \A d \in Clients : RevisionFits(d)'
    BY <1>1, RevisionOther
  <1>3. UpdatedBy(sidecar', clock')
    BY <1>1 DEF RevisionInv, UpdatedBy, Dated
  <1>4. \A m \in applied' : Later(m.expected, sidecar')
    BY DEF RevisionInv
  <1>5. RevisionSpentOnce'
    BY DEF RevisionInv, RevisionSpentOnce
  <1> QED
    BY <1>2, <1>3, <1>4, <1>5 DEF RevisionInv

LEMMA RevisionHandled ==
    ASSUME IInv, RevisionInv, NEW c \in Clients, Create(c) \/ Reply(c) \/ Transition(c) \/ Reattach(c)
    PROVE  RevisionInv'
  <1> DEFINE r == req[c]
  <1>1. /\ r.phase = "accepted" /\ UNCHANGED <<sidecar, applied, view>> /\ TypeOK
        /\ DOMAIN req = Clients
    BY DEF Create, Reply, Transition, Reattach, Accepted, IInv, TypeOK
  <1>2. IsAccepted(r, ops) /\ r.op \notin DOMAIN sidecar /\ RevisionFits(c)
    BY <1>1, AcceptedIsTyped DEF RevisionInv
  <1>3. Dated(sidecar) /\ clock \in Int /\ Dated(r.expected)
    BY <1>1, RevisionsDated
  <1>4. PICK outcome, next :
           /\ Refuse(c, outcome) \/ Propose(c, outcome, next)
           /\ outcome = "none" =>
                 \/ r.input.kind = "create" /\ next = WithCreated(r, clock + 1)
                 \/ ReplyRefusal(r) = "none" /\ next = WithReply(r, clock + 1)
                 \/ TransitionRefusal(r) = "none" /\ next = WithTransition(r, clock + 1)
                 \/ ReattachRefusal(r) = "none" /\ next = WithReattachment(r, clock + 1)
    BY DEF Create, Reply, Transition, Reattach, Accepted
  <1>5. clock' \in Int /\ clock <= clock'
    BY <1>3, <1>4 DEF Refuse, Propose, ReadClock
  <1>6. ASSUME NEW kind, Answer(c, kind, view[c])
        PROVE  RevisionInv'
    <2>1. /\ \A d \in Clients \ {c} : req'[d] = req[d]
          /\ req'[c].phase = "answered" /\ req'[c].revision = view[c]
      BY <1>1, <1>6 DEF Answer
    <2>2. RevisionFits(c)'
      BY <1>1, <1>2, <2>1 DEF RevisionFits
    <2> QED
      BY <1>1, <1>5, <2>1, <2>2, RevisionQuiet
  <1>7. CASE Propose(c, outcome, next) /\ SidecarValid(next)
    <2>1. /\ \A d \in Clients \ {c} : req'[d] = req[d]
          /\ req'[c].phase = "prepared" /\ req'[c].expected = r.expected /\ req'[c].next = next
          /\ clock' = clock + 1 /\ clock < MaxClock /\ outcome = "none"
      BY <1>1, <1>7 DEF Propose, ReadClock
    <2>2. Later(sidecar, next) /\ UpdatedBy(next, clock')
      BY <1>1, <1>2, <1>4, <2>1, SuccessorLater DEF RevisionInv
    <2>3. Dated(next)
      <3>1. TypeOK'
        BY HandlerSteps DEF IInv
      <3>2. IsRequest(req'[c], ops')
        BY <3>1 DEF TypeOK
      <3>3. IsSidecar(req'[c].next, ops')
        BY <2>1, <3>2 DEF IsRequest, IsPrepared, Idle
      <3> QED
        BY <2>1, <3>3, SidecarDated
    <2>4. Later(r.expected, next)
      BY <1>1, <1>2, <1>3, <2>2, <2>3, BeforeTransitive DEF RevisionFits, Later
    <2>5. RevisionFits(c)'
      BY <1>1, <1>2, <2>1, <2>2, <2>4 DEF RevisionFits
    <2> QED
      BY <1>1, <1>5, <2>1, <2>5, RevisionQuiet
  <1> QED
    BY <1>4, <1>6, <1>7 DEF Refuse, Propose

LEMMA RevisionSaved ==
    ASSUME IInv, RevisionInv, NEW c \in Clients, Save(c) \/ SaveFails(c)
    PROVE  RevisionInv'
  <1>1. /\ TypeOK /\ DOMAIN req = Clients /\ req[c].phase = "prepared" /\ RevisionFits(c)
        /\ UNCHANGED <<clock, view>>
    BY DEF IInv, TypeOK, RevisionInv, Save, SaveFails, Prepared
  <1>2. /\ Dated(sidecar) /\ clock \in Int /\ Dated(req[c].next) /\ Dated(view[c])
        /\ \A m \in applied : Dated(m.expected)
    BY <1>1, RevisionsDated
  <1>3. /\ \A d \in Clients \ {c} : req'[d] = req[d]
        /\ req'[c].phase = "answered" /\ req'[c].revision \in {sidecar', view[c]}
    BY <1>1 DEF Save, SaveFails, Answer, Write
  <1>4. CASE UNCHANGED <<sidecar, applied>>
    <2>1. RevisionFits(c)'
      BY <1>1, <1>2, <1>3, <1>4, BeforeReflexive DEF RevisionFits
    <2> QED
      BY <1>1, <1>2, <1>3, <1>4, <2>1, RevisionQuiet
  <1>5. CASE Matches(c) /\ Write(c)
    <2>1. /\ sidecar = req[c].expected /\ sidecar' = req[c].next
          /\ applied' = applied \union {Mutation(req[c])} /\ Mutation(req[c]).expected = sidecar
      BY <1>5 DEF Matches, Write, Mutation
    <2>2. Dated(sidecar') /\ Later(sidecar, sidecar') /\ Before(sidecar, sidecar')
      BY <1>1, <1>2, <2>1 DEF RevisionFits, Later
    <2>3. \A d \in Clients \ {c} : RevisionFits(d)'
      BY <1>1, <1>2, <1>3, <2>2, RevisionOther
    <2>4. RevisionFits(c)'
      <3>1. Before(sidecar', sidecar') /\ Before(view[c], sidecar')
        BY <1>1, <1>2, <2>2, BeforeReflexive, BeforeTransitive DEF RevisionFits
      <3> QED
        BY <1>1, <1>3, <3>1 DEF RevisionFits
    <2>5. UpdatedBy(sidecar', clock')
      BY <1>1, <2>1 DEF RevisionFits
    <2>6. \A m \in applied : Later(m.expected, sidecar) /\ Later(m.expected, sidecar')
      BY <1>2, <2>2, BeforeTransitive DEF RevisionInv, Later
    <2>7. \A m \in applied' : Later(m.expected, sidecar')
      BY <2>1, <2>2, <2>6
    <2>8. \A m \in applied : m.expected # sidecar
      BY <1>2, <2>6, BeforeReflexive
    <2>9. RevisionSpentOnce'
      BY <2>1, <2>8 DEF RevisionInv, RevisionSpentOnce
    <2> QED
      BY <2>3, <2>4, <2>5, <2>7, <2>9 DEF RevisionInv
  <1> QED
    BY <1>4, <1>5 DEF Save, SaveFails

LEMMA RevisionStep ==
    ASSUME ~ClockStepsBack, IInv, RevisionInv, [Next]_vars
    PROVE  RevisionInv'
  <1>0. /\ TypeOK /\ DOMAIN req = Clients /\ DOMAIN view = Clients
        /\ Dated(sidecar) /\ clock \in Int /\ Before(sidecar, sidecar)
        /\ \A d \in Clients : RevisionFits(d)
    BY RevisionsDated, BeforeReflexive DEF IInv, TypeOK, RevisionInv
  <1>1. ASSUME NEW c \in Clients, Send(c) \/ Deliver(c) \/ Lose(c) \/ Refresh(c) \/ OpenPage(c)
        PROVE  RevisionInv'
    <2>1. /\ UNCHANGED <<sidecar, applied, clock>>
          /\ \A d \in Clients \ {c} : req'[d] = req[d] /\ view'[d] = view[d]
      BY <1>0, <1>1 DEF Send, Accept, Deliver, Lose, Refresh, OpenPage
    <2>2. CASE Send(c)
      <3>1. req'[c].phase = "accepted" /\ req'[c].expected = view[c] /\ view'[c] = view[c]
        BY <1>0, <2>2 DEF Send, Accept
      <3>2. RevisionFits(c)'
        BY <1>0, <2>1, <3>1 DEF RevisionFits
      <3> QED
        BY <1>0, <2>1, <3>2, RevisionQuiet
    <2>3. CASE Deliver(c) \/ Lose(c) \/ Refresh(c)
      <3>1. /\ req'[c].phase = "idle"
            /\ \/ view'[c] \in {view[c], sidecar}
               \/ req[c].phase = "answered" /\ view'[c] = req[c].revision
        BY <1>0, <2>3 DEF Deliver, Lose, Refresh, Idle
      <3>2. Before(view'[c], sidecar)
        BY <1>0, <3>1 DEF RevisionFits
      <3>3. RevisionFits(c)'
        BY <2>1, <3>1, <3>2 DEF RevisionFits
      <3> QED
        BY <1>0, <2>1, <3>3, RevisionQuiet
    <2>4. CASE OpenPage(c)
      BY <1>0, <2>1, <2>4, RevisionQuiet DEF OpenPage
    <2> QED
      BY <1>1, <2>2, <2>3, <2>4
  <1>2. CASE EditDocument \/ UNCHANGED vars
    BY <1>0, <1>2, RevisionQuiet DEF EditDocument, vars
  <1>3. CASE Restart
    <2>1. /\ UNCHANGED <<sidecar, applied, clock, view>>
          /\ \A d \in Clients : req'[d].phase = "idle"
      BY <1>3 DEF Restart, Idle
    <2>2. \A d \in Clients : RevisionFits(d)'
      BY <1>0, <2>1 DEF RevisionFits
    <2> QED
      BY <1>0, <2>1, <2>2, RevisionQuiet
  <1> QED
    BY <1>1, <1>2, <1>3, RevisionHandled, RevisionSaved DEF Next, Handle, SetClockBack

\* As long as the clock is not set back, and was not before the server started, one
\* If-Match pays for one mutation, for any number of clients and retries.
THEOREM RevisionsAreSpent ==
    ASSUME ~ClockStepsBack, PastIsPast
    PROVE  Spec => []RevisionSpentOnce
  <1>1. IInv /\ RevisionInv /\ [Next]_vars => RevisionInv'
    BY RevisionStep
  <1>2. Init => RevisionInv
    BY RevisionInitially
  <1>3. RevisionInv => RevisionSpentOnce
    BY DEF RevisionInv
  <1> QED
    BY <1>1, <1>2, <1>3, InitEstablishesIInv, NextPreservesIInv, PTL DEF Spec

-----------------------------------------------------------------------------
(***************************************************************************)
(* The server implements the review conversation.  Every prepared successor *)
(* is one step of a conversation away from the sidecar the handler loaded; *)
(* when Save accepts it, the file is what the client last saw, and so what *)
(* the handler loaded, as far as statuses and threads go.                  *)
(***************************************************************************)

\* Annotation b says what a does, after one reply or one move.
Unchanged(a, b) == b.status = a.status /\ b.thread = a.thread

RepliedTo(a, b) ==
    /\ b.status = a.status
    /\ \E op \in Ops, role \in Roles, at \in Times :
          b.thread = Append(a.thread, Activity(op, "reply", role, at))

Moved(a, b) ==
    \E op \in Ops, role \in Roles, at \in Times :
       /\ b.status \in Statuses
       /\ ValidateTransition(a.status, b.status, role)
       /\ b.thread = a.thread \o TransitionEntries(op, a.status, b.status, role, at)

\* Sidecar t is s with the one comment id opened, replied to, moved or reattached.
OneStep(s, t, id) ==
    /\ DOMAIN t = DOMAIN s \union {id}
    /\ \A k \in DOMAIN s \ {id} : Unchanged(s[k], t[k])
    /\ \/ id \notin DOMAIN s /\ id \in Ops /\ t[id].status = "open" /\ t[id].thread = <<>>
       \/ id \in DOMAIN s /\ (Unchanged(s[id], t[id]) \/ RepliedTo(s[id], t[id]) \/ Moved(s[id], t[id]))

TalkFits(c) ==
    req[c].phase = "prepared" =>
       /\ Extended(req[c].expected, req[c].loaded)
       /\ Extended(req[c].loaded, sidecar)
       /\ Consistent(req[c].loaded)
       /\ \E id : OneStep(req[c].loaded, req[c].next, id)

TalkInv == \A c \in Clients : TalkFits(c)

\* A thread leads to one status.
LEMMA StatusAfterUnique ==
    ASSUME NEW t, NEW n \in Nat, NEW s, NEW u, StatusAfter(t, n, s), StatusAfter(t, n, u)
    PROVE  s = u
  <1>1. CASE \A j \in 1..n : ~IsMove(t[j])
    BY <1>1 DEF StatusAfter
  <1>2. CASE \E j \in 1..n : IsMove(t[j])
    <2>1. PICK i \in 1..n : IsMove(t[i]) /\ t[i].to = s /\ \A k \in (i + 1)..n : ~IsMove(t[k])
      BY <1>2 DEF StatusAfter
    <2>2. PICK j \in 1..n : IsMove(t[j]) /\ t[j].to = u /\ \A k \in (j + 1)..n : ~IsMove(t[k])
      BY <1>2 DEF StatusAfter
    <2>3. ~(i < j) /\ ~(j < i)
      BY <2>1, <2>2
    <2> QED
      BY <2>1, <2>2, <2>3
  <1> QED
    BY <1>1, <1>2

\* Two consistent sidecars that extend each other hold the same conversation.
LEMMA SameConversation ==
    ASSUME NEW s, NEW t, NEW n, IsSidecar(s, n), IsSidecar(t, n),
           Extended(s, t), Extended(t, s), Consistent(s), Consistent(t)
    PROVE  DOMAIN s = DOMAIN t /\ \A id \in DOMAIN s : Unchanged(s[id], t[id])
  <1>1. DOMAIN s = DOMAIN t
    BY DEF Extended
  <1>2. ASSUME NEW id \in DOMAIN s PROVE Unchanged(s[id], t[id])
    <2>1. s[id].thread \in Seq(Entries) /\ t[id].thread \in Seq(Entries)
      BY <1>1, ThreadIsSeq
    <2>2. /\ Len(s[id].thread) = Len(t[id].thread)
          /\ \A i \in 1..Len(s[id].thread) : s[id].thread[i] = t[id].thread[i]
      BY <1>1, <2>1 DEF Extended, IsPrefixOf
    <2>3. s[id].thread = t[id].thread
      BY <2>1, <2>2, SeqEqual
    <2>4. /\ StatusAfter(s[id].thread, Len(s[id].thread), s[id].status)
          /\ StatusAfter(t[id].thread, Len(t[id].thread), t[id].status)
      BY <1>1 DEF Consistent, StatusIsLastMove
    <2>5. s[id].status = t[id].status
      BY <2>1, <2>3, <2>4, StatusAfterUnique
    <2> QED
      BY <2>3, <2>5 DEF Unchanged
  <1> QED
    BY <1>1, <1>2

\* What a handler proposes is one step away from what it loaded.
LEMMA ProposedStep ==
    ASSUME TypeOK, clock < MaxClock, NEW r, IsAccepted(r, ops), r.op \notin DOMAIN sidecar, NEW next,
           \/ r.input.kind = "create" /\ next = WithCreated(r, clock + 1)
           \/ r.input.kind = "reply" /\ ReplyRefusal(r) = "none" /\ next = WithReply(r, clock + 1)
           \/ /\ r.input.kind = "transition"
              /\ TransitionRefusal(r) = "none" /\ next = WithTransition(r, clock + 1)
           \/ /\ r.input.kind = "reattach"
              /\ ReattachRefusal(r) = "none" /\ next = WithReattachment(r, clock + 1)
    PROVE  \E id : OneStep(sidecar, next, id)
  <1> DEFINE now == clock + 1
             id == r.input.target
             a == sidecar[id]
  <1>1. r.op \in Ops /\ r.input \in Inputs /\ now \in Times /\ IsSidecar(sidecar, ops)
    BY BoundsAssumption, ClockReading DEF IsAccepted, TypeOK, Ops
  <1>2. CASE r.input.kind = "create" /\ next = WithCreated(r, now)
    <2>1. /\ DOMAIN next = DOMAIN sidecar \union {r.op}
          /\ next[r.op].status = "open" /\ next[r.op].thread = <<>>
          /\ \A k \in DOMAIN sidecar \ {r.op} : next[k] = sidecar[k]
      BY <1>2 DEF WithCreated, Created
    <2>2. OneStep(sidecar, next, r.op)
      BY <1>1, <2>1 DEF OneStep, Unchanged
    <2> QED
      BY <2>2
  <1>3. ASSUME NEW b, next = WithUpdate(r, b), id \in DOMAIN sidecar,
               Unchanged(a, b) \/ RepliedTo(a, b) \/ Moved(a, b)
        PROVE  \E k : OneStep(sidecar, next, k)
    <2>0. /\ DOMAIN WithUpdate(r, b) = DOMAIN sidecar /\ WithUpdate(r, b)[id] = b
          /\ \A k \in DOMAIN sidecar \ {id} : WithUpdate(r, b)[k] = sidecar[k]
      BY <1>3, UpdateOthers
    <2>1. /\ DOMAIN next = DOMAIN sidecar \union {id} /\ next[id] = b
          /\ \A k \in DOMAIN sidecar \ {id} : next[k] = sidecar[k]
      BY <1>3, <2>0
    <2>2. OneStep(sidecar, next, id)
      BY <1>3, <2>1 DEF OneStep, Unchanged
    <2> QED
      BY <2>2
  <1>4. CASE r.input.kind = "reply" /\ ReplyRefusal(r) = "none" /\ next = WithReply(r, now)
    <2> DEFINE e == Activity(r.op, "reply", r.input.role, now)
               b == [a EXCEPT !.thread = Append(a.thread, e), !.updatedAt = now]
    <2>1. id \in DOMAIN sidecar /\ r.input \in ReplyInputs
      BY <1>1, <1>4, InputTypes DEF ReplyRefusal
    <2>2. r.input.role \in Roles
      BY <2>1 DEF ReplyInputs
    <2>3. next = WithUpdate(r, b)
      BY <1>4 DEF WithReply
    <2>4. a \in Annotations
      BY <1>1, <2>1, ThreadIsSeq
    <2>5. b.status = a.status /\ b.thread = Append(a.thread, e)
      <3> HIDE DEF a, e
      <3> QED
        BY <2>4 DEF Annotations
    <2> HIDE DEF a, b
    <2>6. RepliedTo(a, b)
      BY <1>1, <2>2, <2>5 DEF RepliedTo
    <2> QED
      BY <1>3, <2>1, <2>3, <2>6 DEF a
  <1>5. CASE /\ r.input.kind = "transition" /\ TransitionRefusal(r) = "none"
             /\ next = WithTransition(r, now)
    <2> DEFINE at == Clamped(r, now)
               entries == TransitionEntries(r.op, a.status, r.input.to, r.input.role, at)
               b == [a EXCEPT !.status = r.input.to, !.thread = a.thread \o entries, !.updatedAt = at]
    <2>1. /\ id \in DOMAIN sidecar /\ r.input \in TransitionInputs
          /\ ValidateTransition(a.status, r.input.to, r.input.role)
      BY <1>1, <1>5, InputTypes DEF TransitionRefusal
    <2>2. r.input.role \in Roles /\ r.input.to \in Statuses
      BY <2>1 DEF TransitionInputs
    <2>3. next = WithUpdate(r, b)
      BY <1>5 DEF WithTransition
    <2>4. a \in Annotations
      BY <1>1, <2>1, ThreadIsSeq
    <2>5. at \in Times
      BY <1>1, <2>1, ClampedType
    <2>6. b.status = r.input.to /\ b.thread = a.thread \o entries
      <3> HIDE DEF a, at, entries
      <3> QED
        BY <2>4 DEF Annotations
    <2> HIDE DEF a, b, at
    <2>7. Moved(a, b)
      BY <1>1, <2>1, <2>2, <2>5, <2>6 DEF Moved
    <2> QED
      BY <1>3, <2>1, <2>3, <2>7 DEF a
  <1>6. CASE r.input.kind = "reattach" /\ ReattachRefusal(r) = "none" /\ next = WithReattachment(r, now)
    <2> DEFINE at == Clamped(r, now)
               source == NewSource(r.document, r.input.selection.range)
               b == [a EXCEPT !.source = source, !.needsReattachment = FALSE, !.updatedAt = at]
    <2>1. id \in DOMAIN sidecar
      BY <1>6 DEF ReattachRefusal
    <2>2. next = WithUpdate(r, b)
      BY <1>6 DEF WithReattachment
    <2>3. a \in Annotations
      BY <1>1, <2>1, ThreadIsSeq
    <2>4. Unchanged(a, b)
      <3> HIDE DEF a, at, source
      <3> QED
        BY <2>3 DEF Annotations, Unchanged
    <2> HIDE DEF a, b
    <2> QED
      BY <1>3, <2>1, <2>2, <2>4 DEF a
  <1> QED
    BY <1>2, <1>4, <1>5, <1>6

\* Requests that a step leaves alone while the file stays or grows.
LEMMA TalkOther ==
    ASSUME IInv, TalkInv, [Next]_vars, NEW d \in Clients,
           req'[d] = req[d] \/ req'[d].phase # "prepared"
    PROVE  TalkFits(d)'
  <1> SUFFICES ASSUME req'[d] = req[d], req[d].phase = "prepared" PROVE TalkFits(d)'
    BY DEF TalkFits
  <1>1. TalkFits(d) /\ IInv' /\ TypeOK /\ TypeOK'
    BY NextPreservesIInv DEF TalkInv, IInv
  <1>2. IsRequest(req'[d], ops')
    BY <1>1 DEF TypeOK
  <1>3. IsSidecar(req[d].loaded, ops')
    BY <1>2 DEF IsRequest, IsPrepared, Idle
  <1>4. IsSidecar(sidecar, ops') /\ IsSidecar(sidecar', ops')
    <2>1. ops \in Nat /\ ops' \in Nat /\ ops <= ops'
      <3>1. ops \in Nat /\ ops' \in Nat
        BY <1>1, BoundsAssumption DEF TypeOK
      <3>2. ops' = ops \/ ops' = ops + 1
        BY DEF Next, Send, Accept, Handle, Create, Reply, Transition, Reattach, Save, SaveFails,
               Deliver, Lose, Refresh, OpenPage, EditDocument, SetClockBack, Restart, vars
      <3> QED
        BY <3>1, <3>2
    <2> QED
      BY <1>1, <2>1, SidecarGrows DEF TypeOK
  <1>5. sidecar' = sidecar \/ Extended(sidecar, sidecar')
    BY StepExtends
  <1>6. Extended(req[d].loaded, sidecar')
    BY <1>1, <1>3, <1>4, <1>5, ExtendedTransitive DEF TalkFits
  <1> QED
    BY <1>1, <1>6 DEF TalkFits, Consistent

LEMMA TalkHandled ==
    ASSUME IInv, ContentInv, TalkInv, NEW c \in Clients,
           Create(c) \/ Reply(c) \/ Transition(c) \/ Reattach(c), [Next]_vars
    PROVE  TalkInv'
  <1> DEFINE r == req[c]
  <1>1. /\ r.phase = "accepted" /\ UNCHANGED <<sidecar, ops>> /\ TypeOK /\ DOMAIN req = Clients
        /\ Consistent(sidecar)
    BY DEF Create, Reply, Transition, Reattach, Accepted, IInv, TypeOK, ContentInv, Good
  <1>2. /\ IsAccepted(r, ops) /\ r.op \notin DOMAIN sidecar
        /\ Extended(r.expected, sidecar) /\ Extended(sidecar, sidecar)
    BY <1>1, AcceptedIsTyped, ExtendedReflexive DEF IInv, RequestInv, TypeOK
  <1>3. PICK outcome, next :
           /\ Refuse(c, outcome) \/ Propose(c, outcome, next)
           /\ outcome = "none" =>
                 \/ r.input.kind = "create" /\ next = WithCreated(r, clock + 1)
                 \/ r.input.kind = "reply" /\ ReplyRefusal(r) = "none" /\ next = WithReply(r, clock + 1)
                 \/ /\ r.input.kind = "transition"
                    /\ TransitionRefusal(r) = "none" /\ next = WithTransition(r, clock + 1)
                 \/ /\ r.input.kind = "reattach"
                    /\ ReattachRefusal(r) = "none" /\ next = WithReattachment(r, clock + 1)
    BY DEF Create, Reply, Transition, Reattach, Accepted
  <1>4. \A d \in Clients \ {c} : req'[d] = req[d]
    BY <1>1, <1>3 DEF Refuse, Propose, Answer
  <1>5. CASE req'[c].phase # "prepared"
    BY <1>4, <1>5, TalkOther DEF TalkInv
  <1>6. CASE Propose(c, outcome, next) /\ SidecarValid(next)
    <2>1. /\ req'[c].expected = r.expected /\ req'[c].loaded = sidecar /\ req'[c].next = next
          /\ clock < MaxClock /\ outcome = "none"
      BY <1>1, <1>6 DEF Propose, ReadClock
    <2>2. \E id : OneStep(sidecar, next, id)
      BY <1>1, <1>2, <1>3, <2>1, ProposedStep
    <2>3. TalkFits(c)'
      BY <1>1, <1>2, <2>1, <2>2 DEF TalkFits, Consistent
    <2> QED
      BY <1>4, <2>3, TalkOther DEF TalkInv
  <1> QED
    BY <1>1, <1>3, <1>5, <1>6 DEF Refuse, Propose, Answer

LEMMA TalkStep ==
    ASSUME IInv, ContentInv, TalkInv, [Next]_vars
    PROVE  TalkInv'
  <1>1. DOMAIN req = Clients
    BY DEF IInv, TypeOK
  <1>2. CASE \E c \in Clients : Create(c) \/ Reply(c) \/ Transition(c) \/ Reattach(c)
    BY <1>2, TalkHandled
  <1>3. CASE \A d \in Clients : req'[d] = req[d] \/ req'[d].phase # "prepared"
    BY <1>3, TalkOther DEF TalkInv
  <1> QED
    BY <1>1, <1>2, <1>3 DEF Next, Send, Accept, Handle, Save, SaveFails, Answer, Deliver, Lose,
           Refresh, OpenPage, EditDocument, SetClockBack, Restart, vars, Idle

\* Both modules read the same domain model.
LEMMA SameVocabulary ==
    /\ RC!Statuses = Statuses /\ RC!Roles = Roles /\ RC!ActivityKind = ActivityKind
    /\ RC!AgentMoves = AgentMoves /\ RC!ReviewerMoves = ReviewerMoves
  <1>1. RC!Statuses = Statuses /\ RC!Roles = Roles
    BY DEF RC!Statuses, Statuses, RC!Roles, Roles
  <1>2. RC!ActivityKind = ActivityKind
    BY <1>1 DEF RC!ActivityKind, ActivityKind
  <1>3. RC!AgentMoves = AgentMoves /\ RC!ReviewerMoves = ReviewerMoves
    BY DEF RC!AgentMoves, AgentMoves, RC!ReviewerMoves, ReviewerMoves
  <1> QED
    BY <1>1, <1>2, <1>3

\* Seen as conversations, two sidecars one step apart are one step of the promise
\* apart, unless nothing was said.
LEMMA StepIsPromised ==
    ASSUME NEW id, OneStep(sidecar, sidecar', id)
    PROVE  [RC!Next]_(Conversation(sidecar))
  <1> DEFINE s == sidecar
             t == sidecar'
             v == Conversation(sidecar)
  <1>1. /\ DOMAIN v = DOMAIN s /\ DOMAIN v' = DOMAIN t
        /\ \A k \in DOMAIN s : v[k] = [status |-> s[k].status, thread |-> s[k].thread]
        /\ \A k \in DOMAIN t : v'[k] = [status |-> t[k].status, thread |-> t[k].thread]
        /\ v = [k \in DOMAIN v |-> v[k]] /\ v' = [k \in DOMAIN v' |-> v'[k]]
    BY DEF Conversation
  <1>2. DOMAIN v' = DOMAIN v \union {id} /\ \A k \in DOMAIN v \ {id} : v'[k] = v[k]
    BY <1>1 DEF OneStep, Unchanged
  <1>0. ASSUME id \in DOMAIN s
        PROVE  /\ id \in DOMAIN v /\ DOMAIN v' = DOMAIN v
               /\ v[id] = [status |-> s[id].status, thread |-> s[id].thread]
               /\ v'[id] = [status |-> t[id].status, thread |-> t[id].thread]
    <2>1. DOMAIN v' = DOMAIN v /\ id \in DOMAIN v /\ id \in DOMAIN t
      BY <1>0, <1>1, <1>2
    <2> QED
      BY <1>0, <1>1, <2>1
  <1> SUFFICES ASSUME v' # v PROVE RC!Next
    OBVIOUS
  <1>3. CASE id \notin DOMAIN s
    <2>1. id \in Ops /\ v'[id] = [status |-> "open", thread |-> <<>>]
      BY <1>1, <1>2, <1>3 DEF OneStep
    <2> HIDE DEF v
    <2>2. RC!Open(id)
      BY <1>1, <1>2, <1>3, <2>1 DEF RC!Open, v
    <2> QED
      BY <2>1, <2>2 DEF RC!Next, v
  <1>4. CASE id \in DOMAIN s /\ RepliedTo(s[id], t[id])
    <2>1. PICK op \in Ops, role \in Roles, at \in Times :
             t[id].thread = Append(s[id].thread, Activity(op, "reply", role, at))
      BY <1>4 DEF RepliedTo
    <2>2. /\ id \in DOMAIN v /\ DOMAIN v' = DOMAIN v
          /\ v[id] = [status |-> s[id].status, thread |-> s[id].thread]
          /\ v'[id] = [status |-> s[id].status, thread |-> t[id].thread]
      BY <1>0, <1>4 DEF RepliedTo
    <2> HIDE DEF v
    <2>0. v'[id] = [v[id] EXCEPT !.thread = Append(@, Activity(op, "reply", role, at))]
      <3> DEFINE w == v[id]
                 z == Append(w.thread, Activity(op, "reply", role, at))
      <3>1. w = [status |-> s[id].status, thread |-> s[id].thread] /\ w.thread = s[id].thread
        BY <2>2
      <3>2. v'[id] = [status |-> s[id].status, thread |-> z]
        BY <2>1, <2>2, <3>1
      <3> HIDE DEF w, z
      <3>3. [w EXCEPT !.thread = z] = [status |-> s[id].status, thread |-> z]
        BY <3>1
      <3> QED
        BY <3>2, <3>3 DEF w, z
    <2>3. v' = [v EXCEPT ![id].thread = Append(@, Activity(op, "reply", role, at))]
      BY <1>1, <1>2, <2>0, <2>2
    <2>4. RC!Activity(op, "reply", role, at) = Activity(op, "reply", role, at)
      BY DEF RC!Activity, Activity
    <2>5. RC!Reply(id, role)
      BY <2>3, <2>4 DEF RC!Reply, v
    <2> QED
      BY <2>2, <2>5, SameVocabulary DEF RC!Next, v
  <1>5. CASE id \in DOMAIN s /\ Moved(s[id], t[id])
    <2> DEFINE to == t[id].status
    <2>1. PICK op \in Ops, role \in Roles, at \in Times :
             /\ to \in Statuses
             /\ ValidateTransition(s[id].status, to, role)
             /\ t[id].thread = s[id].thread \o TransitionEntries(op, s[id].status, to, role, at)
      BY <1>5 DEF Moved
    <2>2. /\ id \in DOMAIN v /\ DOMAIN v' = DOMAIN v /\ ValidateTransition(v[id].status, to, role)
          /\ v'[id] = [status |-> to,
                       thread |-> v[id].thread \o TransitionEntries(op, v[id].status, to, role, at)]
      <3>1. /\ id \in DOMAIN v /\ DOMAIN v' = DOMAIN v
            /\ v[id] = [status |-> s[id].status, thread |-> s[id].thread]
            /\ v'[id] = [status |-> t[id].status, thread |-> t[id].thread]
        BY <1>0, <1>5
      <3> HIDE DEF v
      <3>2. v[id].status = s[id].status /\ v[id].thread = s[id].thread
        BY <3>1
      <3> QED
        BY <2>1, <3>1, <3>2
    <2> HIDE DEF v, to
    <2>3. v' = [v EXCEPT ![id] =
                  [status |-> to,
                   thread |-> @.thread \o TransitionEntries(op, @.status, to, role, at)]]
      BY <1>1, <1>2, <2>2
    <2>4. /\ RC!ValidateTransition(v[id].status, to, role) = ValidateTransition(v[id].status, to, role)
          /\ RC!TransitionEntries(op, v[id].status, to, role, at)
                = TransitionEntries(op, v[id].status, to, role, at)
      BY SameVocabulary DEF RC!ValidateTransition, ValidateTransition, RC!TransitionEntries,
             TransitionEntries, RC!Activity, Activity, RC!StatusChange, StatusChange
    <2>5. RC!Move(id, to, role)
      BY <2>2, <2>3, <2>4 DEF RC!Move, v
    <2> QED
      BY <2>1, <2>2, <2>5, SameVocabulary DEF RC!Next, v, to
  <1>6. CASE id \in DOMAIN s /\ Unchanged(s[id], t[id])
    <2>1. v'[id] = v[id] /\ DOMAIN v' = DOMAIN v
      BY <1>1, <1>2, <1>6 DEF Unchanged
    <2> HIDE DEF v
    <2> QED
      BY <1>1, <1>2, <2>1
  <1> QED
    BY <1>3, <1>4, <1>5, <1>6 DEF OneStep

LEMMA StepImplements ==
    ASSUME IInv, ContentInv, TalkInv, [Next]_vars
    PROVE  [RC!Next]_(Conversation(sidecar))
  <1> SUFFICES ASSUME sidecar' # sidecar PROVE [RC!Next]_(Conversation(sidecar))
    BY DEF Conversation
  <1>1. PICK c \in Clients : Prepared(c) /\ Matches(c) /\ Write(c)
    BY DEF Next, Send, Accept, Handle, Create, Reply, Transition, Reattach, Save, SaveFails,
           Deliver, Lose, Refresh, OpenPage, EditDocument, SetClockBack, Restart, vars
  <1> DEFINE s == req[c].loaded
  <1>2. /\ sidecar = req[c].expected /\ sidecar' = req[c].next /\ req[c].phase = "prepared"
        /\ IsSidecar(sidecar, ops) /\ IsSidecar(s, ops) /\ Consistent(sidecar) /\ TalkFits(c)
    BY <1>1 DEF Prepared, Matches, Write, IInv, TypeOK, IsRequest, IsPrepared, Idle, ContentInv,
                Good, TalkInv
  <1>3. PICK id : OneStep(s, sidecar', id)
    BY <1>2 DEF TalkFits
  <1>4. DOMAIN s = DOMAIN sidecar /\ \A k \in DOMAIN s : Unchanged(s[k], sidecar[k])
    BY <1>2, SameConversation DEF TalkFits
  <1>5. OneStep(sidecar, sidecar', id)
    BY <1>3, <1>4 DEF OneStep, Unchanged, RepliedTo, Moved
  <1> QED
    BY <1>5, StepIsPromised

LEMMA TalkInitially == Init => TalkInv
  BY DEF Init, TalkInv, TalkFits, Idle

\* The server implements the promise of module ReviewConversation: for any clients,
\* requests, editors, faults, restarts and clocks, every change of the file is one
\* atomic step of a conversation, judged against the status the comment has then,
\* although load, judgement and save are separate steps of the handler.
THEOREM ServerImplementsConversation == Spec => ImplementsConversation
  <1>1. IInv /\ ContentInv /\ TalkInv /\ [Next]_vars => TalkInv'
    BY TalkStep
  <1>2. IInv /\ ContentInv /\ TalkInv /\ [Next]_vars => [RC!Next]_(Conversation(sidecar))
    BY StepImplements
  <1>3. Init => RC!Init
    BY DEF Init, RC!Init
  <1> QED
    BY <1>1, <1>2, <1>3, InductiveInvariant, ContentAlways, TalkInitially,
       PTL DEF Spec, ImplementsConversation, RC!Spec
=============================================================================
