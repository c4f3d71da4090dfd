------------------------- MODULE ReviewServer_proofs -------------------------
(***************************************************************************)
(* Theorems about ReviewServer, for any number of clients, requests and    *)
(* documents and any behaviour of the clock.                               *)
(***************************************************************************)
EXTENDS ReviewServer, SequenceTheorems, TLAPS

(***************************************************************************)
(* Growing sidecars                                                        *)
(***************************************************************************)

LEMMA ThreadIsSeq ==
    ASSUME NEW s, NEW n, IsSidecar(s, n), NEW id \in DOMAIN s
    PROVE  s[id] \in Annotations /\ s[id].thread \in Seq(Entries)
  <1>1. s[id] \in Annotations
    BY DEF IsSidecar
  <1> QED
    BY <1>1 DEF Annotations

LEMMA ExtendedReflexive ==
    ASSUME NEW s, NEW n, IsSidecar(s, n)
    PROVE  Extended(s, s)
  BY ThreadIsSeq DEF Extended, IsPrefixOf

LEMMA PrefixTransitive ==
    ASSUME NEW s \in Seq(Entries), NEW t \in Seq(Entries), NEW u \in Seq(Entries),
           IsPrefixOf(s, t), IsPrefixOf(t, u)
    PROVE  IsPrefixOf(s, u)
  BY DEF IsPrefixOf

LEMMA ExtendedTransitive ==
    ASSUME NEW s, NEW t, NEW u, NEW n, IsSidecar(s, n), IsSidecar(t, n), IsSidecar(u, n),
           Extended(s, t), Extended(t, u)
    PROVE  Extended(s, u)
  <1> SUFFICES ASSUME NEW id \in DOMAIN s
               PROVE  id \in DOMAIN u /\ IsPrefixOf(s[id].thread, u[id].thread)
    BY DEF Extended
  <1>1. id \in DOMAIN t /\ id \in DOMAIN u
    BY DEF Extended
  <1>2. s[id].thread \in Seq(Entries) /\ t[id].thread \in Seq(Entries) /\ u[id].thread \in Seq(Entries)
    BY <1>1, ThreadIsSeq
  <1>3. IsPrefixOf(s[id].thread, t[id].thread) /\ IsPrefixOf(t[id].thread, u[id].thread)
    BY <1>1 DEF Extended
  <1> QED
    BY <1>1, <1>2, <1>3, PrefixTransitive

LEMMA ShowsMonotone ==
    ASSUME NEW s, NEW t, NEW n, IsSidecar(s, n), IsSidecar(t, n), Extended(s, t), NEW m, Shows(s, m)
    PROVE  Shows(t, m)
  <1>1. \A id \in DOMAIN s : id \in DOMAIN t
    BY DEF Extended
  <1>2. ASSUME NEW id \in DOMAIN s, NEW op, NEW kind, Has(s[id], op, kind)
        PROVE  Has(t[id], op, kind)
    <2>1. s[id].thread \in Seq(Entries) /\ t[id].thread \in Seq(Entries)
      BY <1>1, ThreadIsSeq
    <2>2. IsPrefixOf(s[id].thread, t[id].thread)
      BY DEF Extended
    <2> QED
      BY <1>2, <2>1, <2>2 DEF Has, IsPrefixOf
  <1> QED
    BY <1>1, <1>2 DEF Shows

LEMMA SidecarGrows ==
    ASSUME NEW s, NEW n \in Nat, NEW k \in Nat, n <= k, IsSidecar(s, n)
    PROVE  IsSidecar(s, k)
  BY DEF IsSidecar, Drawn

LEMMA UpdateExtends ==
    ASSUME NEW s, NEW n, IsSidecar(s, n), NEW id \in DOMAIN s, NEW a \in Annotations,
           IsPrefixOf(s[id].thread, a.thread)
    PROVE  LET t == [s EXCEPT ![id] = a]
           IN  DOMAIN t = DOMAIN s /\ IsSidecar(t, n) /\ Extended(s, t)
  <1> DEFINE t == [s EXCEPT ![id] = a]
  <1>1. DOMAIN t = DOMAIN s
    OBVIOUS
  <1>2. IsSidecar(t, n)
    BY <1>1 DEF IsSidecar
  <1>3. Extended(s, t)
    <2>1. Extended(s, s)
      BY ExtendedReflexive
    <2> QED
      BY <2>1 DEF Extended
  <1> QED
    BY <1>1, <1>2, <1>3

LEMMA AppendExtends ==
    ASSUME NEW s \in Seq(Entries), NEW e \in Entries
    PROVE  /\ Append(s, e) \in Seq(Entries)
           /\ IsPrefixOf(s, Append(s, e))
           /\ Append(s, e)[Len(s) + 1] = e
           /\ Len(Append(s, e)) = Len(s) + 1
  BY DEF IsPrefixOf

LEMMA ConcatExtends ==
    ASSUME NEW s \in Seq(Entries), NEW t \in Seq(Entries)
    PROVE  /\ s \o t \in Seq(Entries)
           /\ IsPrefixOf(s, s \o t)
           /\ \A i \in 1..Len(t) : (s \o t)[Len(s) + i] = t[i]
           /\ Len(s \o t) = Len(s) + Len(t)
  BY ConcatProperties DEF IsPrefixOf

(***************************************************************************)
(* What the handlers make of the sidecar they load                         *)
(***************************************************************************)

Mutation(r) == [op |-> r.op, input |-> r.input, expected |-> r.expected]

\* A successor of the sidecar that request r may propose.
Successor(next, r) ==
    /\ IsSidecar(next, ops)
    /\ Extended(sidecar, next)
    /\ DOMAIN next \subseteq DOMAIN sidecar \union {r.op}
    /\ Shows(next, Mutation(r))

LEMMA InputTypes ==
    ASSUME NEW i \in Inputs
    PROVE  /\ i.kind = "create" => i \in CreateInputs
           /\ i.kind = "reply" => i \in ReplyInputs
           /\ i.kind = "transition" => i \in TransitionInputs
           /\ i.kind = "reattach" => i \in ReattachInputs
  BY DEF Inputs, CreateInputs, ReplyInputs, TransitionInputs, ReattachInputs

LEMMA TransitionEntriesType ==
    ASSUME NEW op \in Identifiers, NEW from \in Statuses, NEW to \in Statuses,
           NEW role \in Roles, NEW at \in Times,
           NEW entries, entries = TransitionEntries(op, from, to, role, at)
    PROVE  /\ entries \in Seq(Entries)
           /\ \E i \in 1..Len(entries) : entries[i].op = op /\ entries[i].kind = "status_change"
  <1> DEFINE change == StatusChange(op, from, to, role, at)
             activity == Activity(op, ActivityKind[to], role, at)
  <1>1. change \in Entries /\ change.op = op /\ change.kind = "status_change"
    BY DEF StatusChange, Entries, ThreadKinds
  <1>2. ActivityKind[to] \in ThreadKinds \union {""}
    BY DEF ActivityKind, ThreadKinds, Statuses
  <1>3. CASE ActivityKind[to] = ""
    <2>1. entries = <<change>>
      BY <1>3 DEF TransitionEntries
    <2> QED
      BY <1>1, <2>1
  <1>4. CASE ActivityKind[to] # ""
    <2>1. entries = <<activity, change>>
      BY <1>4 DEF TransitionEntries
    <2>2. activity \in Entries
      BY <1>2, <1>4 DEF Activity, Entries
    <2> QED
      BY <1>1, <2>1, <2>2
  <1> QED
    BY <1>3, <1>4

LEMMA ClockReading ==
    ASSUME TypeOK, clock < MaxClock
    PROVE  clock + 1 \in Times
  BY BoundsAssumption DEF TypeOK, Times

LEMMA ClampedType ==
    ASSUME TypeOK, NEW r, r.input.target \in DOMAIN sidecar, NEW now \in Times
    PROVE  Clamped(r, now) \in Times
  <1>1. sidecar[r.input.target] \in Annotations
    BY ThreadIsSeq DEF TypeOK
  <1> QED
    BY <1>1 DEF Clamped, Annotations

LEMMA DrawnIdentifiers ==
    ASSUME TypeOK
    PROVE  1..ops \subseteq Identifiers /\ ops \in Nat /\ MaxOps \in Nat
  BY BoundsAssumption DEF TypeOK, Identifiers, Drawn, Ops

LEMMA CreateSuccessor ==
    ASSUME TypeOK, clock < MaxClock, NEW r, IsAccepted(r, ops), r.op \notin DOMAIN sidecar,
           r.input.kind = "create", CreateRefusal(r) = "none"
    PROVE  Successor(WithCreated(r, clock + 1), r)
  <1> DEFINE now == clock + 1
             next == WithCreated(r, now)
             a == Created(r, now)
  <1>1. r.input \in CreateInputs /\ r.document \in Documents /\ r.op \in 1..ops
    BY InputTypes DEF IsAccepted
  <1>2. a \in Annotations
    <2>1. a.source \in Sources \union {NoSource}
      <3>1. CASE r.input.selection # NoSelection /\ r.input.selection.document = r.document
        <4>1. r.input.selection \in Selections
          BY <1>1, <3>1 DEF CreateInputs
        <4>2. r.input.selection.range \in Ranges
          BY <4>1 DEF Selections
        <4>3. Text[r.document][r.input.selection.range] # NoText
          BY <3>1 DEF CreateRefusal, CanSelect
        <4>4. Text[r.document][r.input.selection.range] \in Quotes
          BY <1>1, <4>2, <4>3 DEF Quotes
        <4>5. NewSource(r.document, r.input.selection.range) \in Sources
          BY <1>1, <4>2, <4>4 DEF NewSource, Sources
        <4> QED
          BY <3>1, <4>5 DEF Created
      <3>2. CASE ~(r.input.selection # NoSelection /\ r.input.selection.document = r.document)
        BY <3>2 DEF Created
      <3> QED
        BY <3>1, <3>2
    <2>2. r.input.role \in Roles
      BY <1>1 DEF CreateInputs
    <2>3. now \in Times
      BY ClockReading
    <2>4. \A source \in Sources \union {NoSource}, needs \in BOOLEAN :
             [status |-> "open", role |-> r.input.role, createdAt |-> now, updatedAt |-> now,
              source |-> source, needsReattachment |-> needs, thread |-> <<>>] \in Annotations
      BY <2>2, <2>3 DEF Annotations, Statuses
    <2>5. /\ a = [status |-> "open", role |-> r.input.role, createdAt |-> now, updatedAt |-> now,
                  source |-> a.source, needsReattachment |-> a.needsReattachment, thread |-> <<>>]
          /\ a.needsReattachment \in BOOLEAN
      BY DEF Created
    <2> HIDE DEF a
    <2> QED
      BY <2>1, <2>4, <2>5
  <1>3. DOMAIN next = DOMAIN sidecar \union {r.op}
    BY DEF WithCreated
  <1>4. \A id \in DOMAIN sidecar : next[id] = sidecar[id]
    BY DEF WithCreated
  <1>5. next[r.op] = a
    BY DEF WithCreated
  <1>6. IsSidecar(next, ops)
    <2>1. IsSidecar(sidecar, ops)
      BY DEF TypeOK
    <2>2. \A id \in DOMAIN next : next[id] \in Annotations
      BY <1>2, <1>3, <1>4, <1>5, <2>1 DEF IsSidecar
    <2>3. DOMAIN next \subseteq Drawn(ops)
      BY <1>1, <1>3, <2>1 DEF IsSidecar, Drawn
    <2>4. next = [id \in DOMAIN next |-> next[id]]
      BY DEF WithCreated
    <2> QED
      BY <2>2, <2>3, <2>4 DEF IsSidecar
  <1>7. Extended(sidecar, next)
    <2>1. Extended(sidecar, sidecar)
      BY ExtendedReflexive DEF TypeOK
    <2> QED
      BY <1>3, <1>4, <2>1 DEF Extended
  <1>8. Shows(next, Mutation(r))
    BY <1>3 DEF Shows, Mutation
  <1> QED
    BY <1>3, <1>6, <1>7, <1>8 DEF Successor

LEMMA ReplySuccessor ==
    ASSUME TypeOK, clock < MaxClock, NEW r, IsAccepted(r, ops),
           r.input.kind = "reply", ReplyRefusal(r) = "none"
    PROVE  Successor(WithReply(r, clock + 1), r)
  <1> DEFINE id == r.input.target
             old == sidecar[id]
             now == clock + 1
             reply == Activity(r.op, "reply", r.input.role, now)
             new == [old EXCEPT !.thread = Append(old.thread, reply), !.updatedAt = now]
             next == [sidecar EXCEPT ![id] = new]
  <1>1. r.input \in ReplyInputs /\ r.op \in 1..ops /\ id \in DOMAIN sidecar
    BY InputTypes DEF IsAccepted, ReplyRefusal
  <1>2. IsSidecar(sidecar, ops)
    BY DEF TypeOK
  <1>3. old \in Annotations /\ old.thread \in Seq(Entries)
    BY <1>1, <1>2, ThreadIsSeq
  <1>4. now \in Times
    BY ClockReading
  <1>5. reply \in Entries
    BY <1>1, <1>4, DrawnIdentifiers DEF Activity, Entries, ReplyInputs, ThreadKinds
  <1>6. new \in Annotations /\ new.thread = Append(old.thread, reply)
    BY <1>3, <1>4, <1>5, AppendExtends DEF Annotations
  <1>7. DOMAIN next = DOMAIN sidecar /\ IsSidecar(next, ops) /\ Extended(sidecar, next)
    BY <1>1, <1>2, <1>3, <1>5, <1>6, AppendExtends, UpdateExtends
  <1>8. Has(new, r.op, "reply")
    <2>1. reply.op = r.op /\ reply.kind = "reply"
      BY DEF Activity
    <2>2. new.thread[Len(old.thread) + 1] = reply /\ Len(new.thread) = Len(old.thread) + 1
      BY <1>3, <1>5, <1>6, AppendExtends
    <2>3. Len(old.thread) \in Nat
      BY <1>3
    <2> HIDE DEF old, reply, new
    <2> QED
      BY <2>1, <2>2, <2>3 DEF Has
  <1>9. Shows(next, Mutation(r))
    BY <1>1, <1>7, <1>8 DEF Shows, Mutation
  <1>10. WithReply(r, now) = next
    BY DEF WithReply, WithUpdate
  <1> QED
    BY <1>7, <1>9, <1>10 DEF Successor

LEMMA TransitionSuccessor ==
    ASSUME TypeOK, clock < MaxClock, NEW r, IsAccepted(r, ops),
           r.input.kind = "transition", TransitionRefusal(r) = "none"
    PROVE  Successor(WithTransition(r, clock + 1), r)
  <1> DEFINE id == r.input.target
             old == sidecar[id]
             at == Clamped(r, clock + 1)
             entries == TransitionEntries(r.op, old.status, r.input.to, r.input.role, at)
             new == [old EXCEPT !.status = r.input.to, !.thread = old.thread \o entries,
                                !.updatedAt = at]
             next == [sidecar EXCEPT ![id] = new]
  <1>1. r.input \in TransitionInputs /\ r.op \in 1..ops /\ id \in DOMAIN sidecar
    BY InputTypes DEF IsAccepted, TransitionRefusal
  <1>2. IsSidecar(sidecar, ops)
    BY DEF TypeOK
  <1>3. old \in Annotations /\ old.thread \in Seq(Entries) /\ old.status \in Statuses
    BY <1>1, <1>2, ThreadIsSeq DEF Annotations
  <1>4. at \in Times
    BY <1>1, ClockReading, ClampedType
  <1>5. /\ entries \in Seq(Entries)
        /\ \E i \in 1..Len(entries) : entries[i].op = r.op /\ entries[i].kind = "status_change"
    <2>1. r.op \in Identifiers /\ r.input.to \in Statuses /\ r.input.role \in Roles
      BY <1>1, DrawnIdentifiers DEF TransitionInputs
    <2>2. entries = TransitionEntries(r.op, old.status, r.input.to, r.input.role, at)
      OBVIOUS
    <2> HIDE DEF old, at, entries
    <2> QED
      BY <1>3, <1>4, <2>1, <2>2, TransitionEntriesType
  <1>6. /\ old.thread \o entries \in Seq(Entries)
        /\ IsPrefixOf(old.thread, old.thread \o entries)
    BY <1>3, <1>5, ConcatExtends
  <1>7. new \in Annotations /\ new.thread = old.thread \o entries
    BY <1>1, <1>3, <1>4, <1>6 DEF Annotations, TransitionInputs
  <1>8. DOMAIN next = DOMAIN sidecar /\ IsSidecar(next, ops) /\ Extended(sidecar, next)
    BY <1>1, <1>2, <1>6, <1>7, UpdateExtends
  <1>9. Has(new, r.op, "status_change")
    <2>1. PICK i \in 1..Len(entries) : entries[i].op = r.op /\ entries[i].kind = "status_change"
      BY <1>5
    <2> HIDE DEF old, entries, new
    <2>2. new.thread[Len(old.thread) + i] = entries[i] /\ Len(old.thread) + i \in 1..Len(new.thread)
      <3>1. /\ \A j \in 1..Len(entries) : (old.thread \o entries)[Len(old.thread) + j] = entries[j]
            /\ Len(old.thread \o entries) = Len(old.thread) + Len(entries)
        BY <1>3, <1>5, ConcatExtends
      <3>2. Len(old.thread) \in Nat /\ Len(entries) \in Nat
        BY <1>3, <1>5
      <3> QED
        BY <1>7, <3>1, <3>2
    <2> QED
      BY <2>1, <2>2 DEF Has
  <1>10. Shows(next, Mutation(r))
    BY <1>1, <1>8, <1>9 DEF Shows, Mutation
  <1>11. WithTransition(r, clock + 1) = next
    BY DEF WithTransition, WithUpdate
  <1> QED
    BY <1>8, <1>10, <1>11 DEF Successor

LEMMA ReattachSuccessor ==
    ASSUME TypeOK, clock < MaxClock, NEW r, IsAccepted(r, ops),
           r.input.kind = "reattach", ReattachRefusal(r) = "none"
    PROVE  Successor(WithReattachment(r, clock + 1), r)
  <1> DEFINE id == r.input.target
             old == sidecar[id]
             at == Clamped(r, clock + 1)
             source == NewSource(r.document, r.input.selection.range)
             new == [old EXCEPT !.source = source, !.needsReattachment = FALSE, !.updatedAt = at]
             next == [sidecar EXCEPT ![id] = new]
  <1>1. /\ r.input \in ReattachInputs /\ r.document \in Documents /\ id \in DOMAIN sidecar
        /\ Text[r.document][r.input.selection.range] # NoText
    BY InputTypes DEF IsAccepted, ReattachRefusal, CanSelect
  <1>2. IsSidecar(sidecar, ops)
    BY DEF TypeOK
  <1>3. old \in Annotations /\ old.thread \in Seq(Entries)
    BY <1>1, <1>2, ThreadIsSeq
  <1>4. at \in Times
    BY <1>1, ClockReading, ClampedType
  <1>5. source \in Sources
    <2>1. r.input.selection.range \in Ranges
      BY <1>1 DEF ReattachInputs, Selections
    <2>2. Text[r.document][r.input.selection.range] \in Quotes
      BY <1>1, <2>1 DEF Quotes
    <2> QED
      BY <1>1, <2>1, <2>2 DEF NewSource, Sources
  <1>6. new \in Annotations /\ new.thread = old.thread
    BY <1>3, <1>4, <1>5 DEF Annotations
  <1>7. DOMAIN next = DOMAIN sidecar /\ IsSidecar(next, ops) /\ Extended(sidecar, next)
    <2>1. IsPrefixOf(old.thread, new.thread)
      BY <1>3, <1>6 DEF IsPrefixOf
    <2> QED
      BY <1>1, <1>2, <1>6, <2>1, UpdateExtends
  <1>8. Shows(next, Mutation(r))
    BY <1>1, <1>7 DEF Shows, Mutation
  <1>9. WithReattachment(r, clock + 1) = next
    BY DEF WithReattachment, WithUpdate
  <1> QED
    BY <1>7, <1>8, <1>9 DEF Successor

(***************************************************************************)
(* The inductive invariant: how what each request has read relates to what *)
(* the file holds now.  A prepared successor need not extend the file (it  *)
(* may have been loaded before another request was saved), but it extends  *)
(* the sidecar whose revision the client sent, which is what Save checks.  *)
(***************************************************************************)

Active(r) == r.phase \in {"accepted", "prepared"}

RequestInv(c) ==
    /\ Extended(view[c], sidecar)
    /\ req[c].phase = "accepted" =>
          Extended(req[c].expected, sidecar) /\ req[c].op \notin DOMAIN sidecar
    /\ req[c].phase = "prepared" =>
          /\ Extended(req[c].expected, req[c].next)
          /\ DOMAIN req[c].next \subseteq DOMAIN sidecar \union {req[c].op}
          /\ Shows(req[c].next, Mutation(req[c]))
    /\ req[c].phase = "answered" => Extended(req[c].revision, sidecar)

DistinctOps ==
    \A c, d \in Clients : c # d /\ Active(req[c]) /\ Active(req[d]) => req[c].op # req[d].op

IInv ==
    /\ TypeOK
    /\ \A c \in Clients : RequestInv(c)
    /\ DistinctOps
    /\ AppliedPersists

LEMMA RequestGrows ==
    ASSUME NEW r, NEW n \in Nat, NEW k \in Nat, n <= k, IsRequest(r, n)
    PROVE  IsRequest(r, k)
  <1>1. \A s : IsSidecar(s, n) => IsSidecar(s, k)
    BY SidecarGrows
  <1>2. 1..n \subseteq 1..k
    OBVIOUS
  <1>3. IsAccepted(r, n) => IsAccepted(r, k)
    BY <1>1, <1>2 DEF IsAccepted
  <1>4. IsPrepared(r, n) => IsPrepared(r, k)
    BY <1>1, <1>2 DEF IsPrepared
  <1>5. IsAnswered(r, n) => IsAnswered(r, k)
    BY <1>1 DEF IsAnswered
  <1> QED
    BY <1>3, <1>4, <1>5 DEF IsRequest

\* The other clients' requests survive whatever extends the file.
LEMMA OthersKeepInv ==
    ASSUME IInv, ops' \in Nat, ops <= ops',
           IsSidecar(sidecar', ops'), Extended(sidecar, sidecar'),
           NEW d \in Clients, req'[d] = req[d], view'[d] = view[d],
           req[d].phase = "accepted" => req[d].op \notin DOMAIN sidecar'
    PROVE  RequestInv(d)'
  <1>1. ops \in Nat /\ IsSidecar(sidecar, ops') /\ IsSidecar(view[d], ops')
    <2>1. ops \in Nat /\ IsSidecar(sidecar, ops) /\ IsSidecar(view[d], ops)
      BY DrawnIdentifiers DEF IInv, TypeOK
    <2> QED
      BY <2>1, SidecarGrows
  <1>2. \A s : IsSidecar(s, ops') /\ Extended(s, sidecar) => Extended(s, sidecar')
    BY <1>1, ExtendedTransitive
  <1>3. DOMAIN sidecar \subseteq DOMAIN sidecar'
    BY DEF Extended
  <1>4. RequestInv(d) /\ IsRequest(req[d], ops')
    BY <1>1, RequestGrows DEF IInv, TypeOK
  <1>5. Extended(view[d], sidecar')
    BY <1>1, <1>2, <1>4 DEF RequestInv
  <1>6. CASE req[d].phase = "accepted"
    BY <1>2, <1>4, <1>5, <1>6 DEF RequestInv, IsRequest, IsAccepted, Idle
  <1>7. CASE req[d].phase = "prepared"
    BY <1>3, <1>4, <1>5, <1>7 DEF RequestInv
  <1>8. CASE req[d].phase = "answered"
    BY <1>2, <1>4, <1>5, <1>8 DEF RequestInv, IsRequest, IsAnswered, Idle
  <1>9. CASE req[d].phase \notin {"accepted", "prepared", "answered"}
    BY <1>5, <1>9 DEF RequestInv
  <1> QED
    BY <1>6, <1>7, <1>8, <1>9

\* A step of one client, whatever it does to the file.
LEMMA ClientStep ==
    ASSUME IInv, NEW c \in Clients,
           document' \in Documents, clock' \in Times, page' \in [Clients -> Documents],
           ops' \in 0..MaxOps, ops <= ops',
           IsSidecar(sidecar', ops'), Extended(sidecar, sidecar'),
           DOMAIN req' = Clients, DOMAIN view' = Clients,
           \A d \in Clients \ {c} : req'[d] = req[d] /\ view'[d] = view[d],
           \A d \in Clients \ {c} : req[d].phase = "accepted" => req[d].op \notin DOMAIN sidecar',
           IsRequest(req'[c], ops'), IsSidecar(view'[c], ops'), RequestInv(c)',
           Active(req'[c]) => \A d \in Clients \ {c} : Active(req[d]) => req[d].op # req'[c].op,
           \A m \in applied' \ applied :
              /\ DOMAIN m = {"op", "input", "expected"}
              /\ m.op \in 1..ops' /\ m.input \in Inputs /\ IsSidecar(m.expected, ops')
              /\ Shows(sidecar', m)
    PROVE  IInv'
  <1>1. ops \in Nat /\ ops' \in Nat /\ MaxOps \in Nat
    BY DrawnIdentifiers DEF IInv
  <1>2. \A s : IsSidecar(s, ops) => IsSidecar(s, ops')
    BY <1>1, SidecarGrows
  <1>3. \A d \in Clients : IsRequest(req'[d], ops') /\ IsSidecar(view'[d], ops')
    BY <1>1, <1>2, RequestGrows DEF IInv, TypeOK
  <1>4. TypeOK'
    <2>1. \A m \in applied' : /\ DOMAIN m = {"op", "input", "expected"}
                              /\ m.op \in 1..ops' /\ m.input \in Inputs
                              /\ IsSidecar(m.expected, ops')
      BY <1>1, <1>2 DEF IInv, TypeOK
    <2> QED
      BY <1>3, <2>1 DEF TypeOK
  <1>5. \A d \in Clients : RequestInv(d)'
    BY <1>1, OthersKeepInv
  <1>6. DistinctOps'
    BY DEF IInv, DistinctOps
  <1>7. AppliedPersists'
    <2>1. IsSidecar(sidecar, ops')
      BY <1>2 DEF IInv, TypeOK
    <2>2. \A m \in applied : Shows(sidecar', m)
      BY <2>1, ShowsMonotone DEF IInv, AppliedPersists
    <2> QED
      BY <2>2 DEF AppliedPersists
  <1> QED
    BY <1>4, <1>5, <1>6, <1>7 DEF IInv

\* A step of one client that leaves the file and the operations alone.
LEMMA QuietStep ==
    ASSUME IInv, NEW c \in Clients,
           document' \in Documents, clock' \in Times, page' \in [Clients -> Documents],
           UNCHANGED <<sidecar, ops, applied>>,
           DOMAIN req' = Clients, DOMAIN view' = Clients,
           \A d \in Clients \ {c} : req'[d] = req[d] /\ view'[d] = view[d],
           IsRequest(req'[c], ops), IsSidecar(view'[c], ops), RequestInv(c)',
           Active(req'[c]) => Active(req[c]) /\ req'[c].op = req[c].op
    PROVE  IInv'
  <1>1. ops' \in 0..MaxOps /\ ops <= ops' /\ IsSidecar(sidecar', ops')
    BY BoundsAssumption DEF IInv, TypeOK
  <1>2. Extended(sidecar, sidecar')
    BY ExtendedReflexive DEF IInv, TypeOK
  <1>3. \A d \in Clients : req[d].phase = "accepted" => req[d].op \notin DOMAIN sidecar'
    BY DEF IInv, RequestInv
  <1>4. Active(req'[c]) => \A d \in Clients \ {c} : Active(req[d]) => req[d].op # req'[c].op
    BY DEF IInv, DistinctOps
  <1>5. IsRequest(req'[c], ops') /\ IsSidecar(view'[c], ops') /\ applied' \ applied = {}
    OBVIOUS
  <1> QED
    BY <1>1, <1>2, <1>3, <1>4, <1>5, ClientStep

LEMMA WorldStep ==
    ASSUME IInv, document' \in Documents, clock' \in Times, page' \in [Clients -> Documents],
           UNCHANGED <<sidecar, ops, req, view, applied>>
    PROVE  IInv'
  BY DEF IInv, TypeOK, RequestInv, DistinctOps, AppliedPersists

LEMMA AcceptStep ==
    ASSUME IInv, NEW c \in Clients, NEW input \in Requests, Accept(c, input)
    PROVE  IInv'
  <1> DEFINE r == [phase |-> "accepted", op |-> ops + 1, input |-> input,
                   document |-> document, expected |-> view[c]]
  <1>1. /\ UNCHANGED <<sidecar, document, clock, view, page, applied>>
        /\ ops' = ops + 1 /\ ops \in Nat /\ ops' \in 0..MaxOps
        /\ req' = [req EXCEPT ![c] = r]
    BY DrawnIdentifiers DEF Accept, IInv, TypeOK
  <1>2. TypeOK /\ RequestInv(c)
    BY DEF IInv
  <1>3. IsSidecar(sidecar, ops) /\ IsSidecar(view[c], ops)
    BY <1>2 DEF TypeOK
  <1>4. IsSidecar(sidecar', ops') /\ IsSidecar(view'[c], ops')
    BY <1>1, <1>3, SidecarGrows
  <1>5. Extended(sidecar, sidecar')
    BY <1>1, <1>3, ExtendedReflexive
  <1>6. DOMAIN req' = Clients /\ req'[c] = r /\ \A d \in Clients \ {c} : req'[d] = req[d]
    BY <1>1, <1>2 DEF TypeOK
  <1>7. IsRequest(req'[c], ops')
    <2>1. r.op \in 1..ops' /\ r.input \in Inputs /\ r.document \in Documents
      BY <1>1, <1>2, RequestsAssumption DEF TypeOK
    <2>2. IsSidecar(r.expected, ops')
      BY <1>1, <1>4
    <2>3. DOMAIN r = {"phase", "op", "input", "document", "expected"} /\ r.phase = "accepted"
      OBVIOUS
    <2> QED
      BY <1>6, <2>1, <2>2, <2>3 DEF IsRequest, IsAccepted
  <1>8. RequestInv(c)'
    <2>1. ops + 1 \notin DOMAIN sidecar
      <3>1. ops + 1 \in 1..MaxOps /\ ops + 1 \notin 1..ops
        BY <1>1
      <3>2. ops + 1 \notin PastOps
        BY <3>1, BoundsAssumption
      <3> QED
        BY <1>3, <3>1, <3>2 DEF IsSidecar, Drawn
    <2>2. Extended(view[c], sidecar)
      BY <1>2 DEF RequestInv
    <2> QED
      BY <1>1, <1>6, <2>1, <2>2 DEF RequestInv
  <1>9. \A d \in Clients \ {c} : Active(req[d]) => req[d].op # req'[c].op
    <2>1. \A d \in Clients : Active(req[d]) => req[d].op \in 1..ops
      BY <1>2 DEF TypeOK, IsRequest, IsAccepted, IsPrepared, Active, Idle
    <2> QED
      BY <1>1, <1>6, <2>1
  <1>10. \A d \in Clients \ {c} : req[d].phase = "accepted" => req[d].op \notin DOMAIN sidecar'
    BY <1>1 DEF IInv, RequestInv
  <1>11. /\ document' \in Documents /\ clock' \in Times /\ page' \in [Clients -> Documents]
         /\ DOMAIN view' = Clients /\ \A d \in Clients \ {c} : view'[d] = view[d]
         /\ ops <= ops' /\ applied' \ applied = {}
    BY <1>1, <1>2 DEF TypeOK
  <1> QED
    BY <1>1, <1>4, <1>5, <1>6, <1>7, <1>8, <1>9, <1>10, <1>11, ClientStep

\* The common end of the four handlers.
LEMMA HandleStep ==
    ASSUME IInv, NEW c \in Clients, req[c].phase = "accepted", IsAccepted(req[c], ops),
           NEW outcome \in Outcomes \union {"none"}, NEW next,
           Refuse(c, outcome) \/ Propose(c, outcome, next),
           outcome = "none" /\ clock < MaxClock => Successor(next, req[c]),
           UNCHANGED <<sidecar, document, ops, view, page, applied>>
    PROVE  IInv'
  <1>1. TypeOK /\ RequestInv(c)
    BY DEF IInv
  <1>2. IsSidecar(sidecar, ops) /\ IsSidecar(view[c], ops) /\ IsSidecar(view'[c], ops)
    BY <1>1 DEF TypeOK
  <1>3. /\ document' \in Documents /\ page' \in [Clients -> Documents]
        /\ DOMAIN view' = Clients /\ \A d \in Clients : view'[d] = view[d]
    BY <1>1 DEF TypeOK
  <1>4. clock' \in Times
    BY <1>1, ClockReading DEF Refuse, Propose, ReadClock, TypeOK
  <1>5. ASSUME NEW kind \in Outcomes, Answer(c, kind, view[c])
        PROVE  IInv'
    <2>1. /\ DOMAIN req' = Clients /\ \A d \in Clients \ {c} : req'[d] = req[d]
          /\ req'[c] = [phase |-> "answered", outcome |-> kind, revision |-> view[c]]
      BY <1>1, <1>5 DEF Answer, TypeOK
    <2>2. IsRequest(req'[c], ops)
      BY <1>2, <2>1 DEF IsRequest, IsAnswered
    <2>3. RequestInv(c)' /\ ~Active(req'[c])
      BY <1>1, <2>1 DEF RequestInv, Active
    <2> QED
      BY <1>2, <1>3, <1>4, <2>1, <2>2, <2>3, QuietStep
  <1>6. CASE Refuse(c, outcome)
    BY <1>5, <1>6 DEF Refuse
  <1>7. CASE Propose(c, outcome, next) /\ ~SidecarValid(next)
    BY <1>5, <1>7 DEF Propose, Outcomes
  <1>8. CASE Propose(c, outcome, next) /\ SidecarValid(next)
    <2> DEFINE r == [phase |-> "prepared", op |-> req[c].op, input |-> req[c].input,
                     expected |-> req[c].expected, loaded |-> sidecar, next |-> next]
    <2>1. Successor(next, req[c])
      BY <1>8 DEF Propose, ReadClock
    <2>2. /\ DOMAIN req' = Clients /\ \A d \in Clients \ {c} : req'[d] = req[d]
          /\ req'[c] = r
      BY <1>1, <1>8 DEF Propose, TypeOK
    <2>3. IsRequest(req'[c], ops)
      <3>1. r.op \in 1..ops /\ r.input \in Inputs /\ IsSidecar(r.expected, ops)
        BY DEF IsAccepted
      <3>2. IsSidecar(r.loaded, ops) /\ IsSidecar(r.next, ops)
        BY <1>2, <2>1 DEF Successor
      <3>3. DOMAIN r = {"phase", "op", "input", "expected", "loaded", "next"} /\ r.phase = "prepared"
        OBVIOUS
      <3> QED
        BY <2>2, <3>1, <3>2, <3>3 DEF IsRequest, IsPrepared
    <2>4. RequestInv(c)'
      <3>1. Extended(req[c].expected, sidecar) /\ IsSidecar(req[c].expected, ops)
        BY <1>1 DEF RequestInv, IsAccepted
      <3>2. Extended(req[c].expected, next)
        BY <1>2, <2>1, <3>1, ExtendedTransitive DEF Successor
      <3>3. Mutation(r) = Mutation(req[c])
        BY DEF Mutation
      <3> QED
        BY <1>1, <2>1, <2>2, <3>2, <3>3 DEF RequestInv, Successor
    <2>5. Active(req'[c]) => Active(req[c]) /\ req'[c].op = req[c].op
      BY <2>2 DEF Active
    <2> QED
      BY <1>2, <1>3, <1>4, <2>2, <2>3, <2>4, <2>5, QuietStep
  <1> QED
    BY <1>6, <1>7, <1>8

LEMMA AcceptedIsTyped ==
    ASSUME IInv, NEW c \in Clients, req[c].phase = "accepted"
    PROVE  IsAccepted(req[c], ops) /\ req[c].op \notin DOMAIN sidecar
  BY DEF IInv, TypeOK, IsRequest, RequestInv, Idle

LEMMA HandlerSteps ==
    ASSUME IInv, NEW c \in Clients, Create(c) \/ Reply(c) \/ Transition(c) \/ Reattach(c)
    PROVE  IInv'
  <1> DEFINE r == req[c]
  <1>1. r.phase = "accepted" /\ UNCHANGED <<sidecar, document, ops, view, page, applied>>
    BY DEF Create, Reply, Transition, Reattach, Accepted
  <1>2. IsAccepted(r, ops) /\ r.op \notin DOMAIN sidecar /\ TypeOK
    BY <1>1, AcceptedIsTyped DEF IInv
  <1>3. CASE Create(c)
    <2>1. CreateRefusal(r) \in Outcomes \union {"none"}
      BY DEF CreateRefusal, Outcomes
    <2>2. r.input.kind = "create"
      BY <1>3 DEF Create, Accepted
    <2>3. Refuse(c, CreateRefusal(r)) \/ Propose(c, CreateRefusal(r), WithCreated(r, clock + 1))
      BY <1>3 DEF Create
    <2> QED
      BY <1>1, <1>2, <2>1, <2>2, <2>3, CreateSuccessor, HandleStep
  <1>4. CASE Reply(c)
    <2>1. ReplyRefusal(r) \in Outcomes \union {"none"}
      BY DEF ReplyRefusal, Outcomes
    <2>2. r.input.kind = "reply"
      BY <1>4 DEF Reply, Accepted
    <2>3. Refuse(c, ReplyRefusal(r)) \/ Propose(c, ReplyRefusal(r), WithReply(r, clock + 1))
      BY <1>4 DEF Reply
    <2> QED
      BY <1>1, <1>2, <2>1, <2>2, <2>3, ReplySuccessor, HandleStep
  <1>5. CASE Transition(c)
    <2>1. TransitionRefusal(r) \in Outcomes \union {"none"}
      BY DEF TransitionRefusal, Outcomes
    <2>2. r.input.kind = "transition"
      BY <1>5 DEF Transition, Accepted
    <2>3. Refuse(c, TransitionRefusal(r)) \/ Propose(c, TransitionRefusal(r), WithTransition(r, clock + 1))
      BY <1>5 DEF Transition
    <2> QED
      BY <1>1, <1>2, <2>1, <2>2, <2>3, TransitionSuccessor, HandleStep
  <1>6. CASE Reattach(c)
    <2>1. ReattachRefusal(r) \in Outcomes \union {"none"}
      BY DEF ReattachRefusal, Outcomes
    <2>2. r.input.kind = "reattach"
      BY <1>6 DEF Reattach, Accepted
    <2>3. Refuse(c, ReattachRefusal(r)) \/ Propose(c, ReattachRefusal(r), WithReattachment(r, clock + 1))
      BY <1>6 DEF Reattach
    <2> QED
      BY <1>1, <1>2, <2>1, <2>2, <2>3, ReattachSuccessor, HandleStep
  <1> QED
    BY <1>3, <1>4, <1>5, <1>6

\* What the two ways to the file have in common: the successor extends it.
LEMMA WriteExtends ==
    ASSUME IInv, NEW c \in Clients, Prepared(c), Matches(c), Write(c)
    PROVE  /\ IsSidecar(sidecar', ops) /\ Extended(sidecar, sidecar')
           /\ \A d \in Clients \ {c} : req[d].phase = "accepted" => req[d].op \notin DOMAIN sidecar'
           /\ \A m \in applied' \ applied :
                 /\ DOMAIN m = {"op", "input", "expected"}
                 /\ m.op \in 1..ops /\ m.input \in Inputs /\ IsSidecar(m.expected, ops)
                 /\ Shows(sidecar', m)
  <1>1. req[c].phase = "prepared" /\ sidecar = req[c].expected /\ sidecar' = req[c].next
    BY DEF Prepared, Matches, Write
  <1>2. TypeOK /\ RequestInv(c) /\ IsPrepared(req[c], ops)
    BY <1>1 DEF IInv, TypeOK, IsRequest, Idle
  <1>3. IsSidecar(sidecar', ops) /\ Extended(sidecar, sidecar')
    BY <1>1, <1>2 DEF RequestInv, IsPrepared
  <1>4. ASSUME NEW d \in Clients \ {c}, req[d].phase = "accepted"
        PROVE  req[d].op \notin DOMAIN sidecar'
    <2>1. req[d].op \notin DOMAIN sidecar
      BY <1>4, AcceptedIsTyped
    <2>2. req[d].op # req[c].op
      BY <1>1, <1>4 DEF IInv, DistinctOps, Active
    <2> QED
      BY <1>1, <1>2, <2>1, <2>2 DEF RequestInv
  <1>5. \A m \in applied' \ applied : m = Mutation(req[c])
    BY DEF Write, Mutation
  <1>6. /\ DOMAIN Mutation(req[c]) = {"op", "input", "expected"}
        /\ Mutation(req[c]).op \in 1..ops /\ Mutation(req[c]).input \in Inputs
        /\ IsSidecar(Mutation(req[c]).expected, ops)
        /\ Shows(sidecar', Mutation(req[c]))
    BY <1>1, <1>2 DEF RequestInv, IsPrepared, Mutation
  <1> QED
    BY <1>3, <1>4, <1>5, <1>6

\* A step that answers a prepared request, with or without writing.
LEMMA SaveStep ==
    ASSUME IInv, NEW c \in Clients, Save(c) \/ SaveFails(c)
    PROVE  IInv'
  <1>1. /\ Prepared(c) /\ UNCHANGED <<document, clock, ops, view, page>>
        /\ \/ Matches(c) /\ Write(c)
           \/ UNCHANGED <<sidecar, applied>>
    BY DEF Save, SaveFails
  <1>2. TypeOK /\ RequestInv(c)
    BY DEF IInv
  <1>3. PICK outcome, revision :
           /\ outcome \in Outcomes
           /\ Answer(c, outcome, revision)
           /\ revision = sidecar' \/ revision = view[c]
    BY DEF Save, SaveFails, Write, Outcomes
  <1>4. /\ DOMAIN req' = Clients /\ \A d \in Clients \ {c} : req'[d] = req[d]
        /\ req'[c] = [phase |-> "answered", outcome |-> outcome, revision |-> revision]
    BY <1>2, <1>3 DEF Answer, TypeOK
  <1>5. IsSidecar(sidecar, ops) /\ IsSidecar(view[c], ops)
    BY <1>2 DEF TypeOK
  <1>6. /\ IsSidecar(sidecar', ops) /\ Extended(sidecar, sidecar')
        /\ \A d \in Clients \ {c} : req[d].phase = "accepted" => req[d].op \notin DOMAIN sidecar'
        /\ \A m \in applied' \ applied :
              /\ DOMAIN m = {"op", "input", "expected"}
              /\ m.op \in 1..ops /\ m.input \in Inputs /\ IsSidecar(m.expected, ops)
              /\ Shows(sidecar', m)
    <2>1. CASE Matches(c) /\ Write(c)
      BY <1>1, <2>1, WriteExtends
    <2>2. CASE UNCHANGED <<sidecar, applied>>
      BY <1>5, <2>2, ExtendedReflexive, AcceptedIsTyped
    <2> QED
      BY <1>1, <2>1, <2>2
  <1>7. IsSidecar(revision, ops)
    BY <1>3, <1>5, <1>6
  <1>8. Extended(view[c], sidecar') /\ Extended(revision, sidecar')
    <2>1. Extended(view[c], sidecar')
      BY <1>2, <1>5, <1>6, ExtendedTransitive DEF RequestInv
    <2>2. Extended(sidecar', sidecar')
      BY <1>6, ExtendedReflexive
    <2> QED
      BY <1>3, <2>1, <2>2
  <1>9. RequestInv(c)' /\ ~Active(req'[c])
    BY <1>1, <1>4, <1>8 DEF RequestInv, Active
  <1>10. IsRequest(req'[c], ops')
    BY <1>1, <1>3, <1>4, <1>7 DEF IsRequest, IsAnswered
  <1>11. /\ document' \in Documents /\ clock' \in Times /\ page' \in [Clients -> Documents]
         /\ ops' = ops /\ ops' \in 0..MaxOps /\ ops <= ops'
         /\ DOMAIN view' = Clients /\ \A d \in Clients : view'[d] = view[d]
    BY <1>1, <1>2, BoundsAssumption DEF TypeOK
  <1> QED
    BY <1>4, <1>5, <1>6, <1>9, <1>10, <1>11, ClientStep

LEMMA DeliverStep ==
    ASSUME IInv, NEW c \in Clients, Deliver(c) \/ Lose(c) \/ Refresh(c)
    PROVE  IInv'
  <1>1. UNCHANGED <<sidecar, document, clock, ops, page, applied>>
    BY DEF Deliver, Lose, Refresh
  <1>2. TypeOK /\ RequestInv(c) /\ IsRequest(req[c], ops)
    BY DEF IInv, TypeOK
  <1>3. /\ DOMAIN req' = Clients /\ DOMAIN view' = Clients
        /\ \A d \in Clients \ {c} : req'[d] = req[d] /\ view'[d] = view[d]
        /\ req'[c] = Idle \/ (req[c].phase = "idle" /\ req'[c] = req[c])
    BY <1>2 DEF Deliver, Lose, Refresh, TypeOK
  <1>4. \/ view'[c] = view[c] \/ view'[c] = sidecar
        \/ req[c].phase = "answered" /\ view'[c] = req[c].revision
    BY <1>2 DEF Deliver, Lose, Refresh, TypeOK
  <1>5. IsSidecar(sidecar, ops) /\ Extended(sidecar, sidecar)
    BY <1>2, ExtendedReflexive DEF TypeOK
  <1>6. IsSidecar(view'[c], ops) /\ Extended(view'[c], sidecar)
    BY <1>2, <1>4, <1>5 DEF TypeOK, RequestInv, IsRequest, IsAnswered, Idle
  <1>7. req'[c].phase = "idle"
    BY <1>3 DEF Idle
  <1>8. RequestInv(c)' /\ ~Active(req'[c])
    BY <1>1, <1>6, <1>7 DEF RequestInv, Active
  <1>9. IsRequest(req'[c], ops)
    BY <1>2, <1>3 DEF IsRequest
  <1> QED
    BY <1>1, <1>2, <1>3, <1>6, <1>8, <1>9, QuietStep DEF TypeOK

LEMMA RestartStep ==
    ASSUME IInv, Restart
    PROVE  IInv'
  <1>1. UNCHANGED <<sidecar, document, clock, ops, view, page, applied>>
    BY DEF Restart
  <1>2. DOMAIN req' = Clients /\ \A c \in Clients : req'[c] = Idle /\ req'[c].phase = "idle"
    BY DEF Restart, Idle
  <1> QED
    BY <1>1, <1>2 DEF IInv, TypeOK, IsRequest, RequestInv, DistinctOps, Active, AppliedPersists

(***************************************************************************)
(* Theorems                                                                *)
(***************************************************************************)

LEMMA InitEstablishesIInv == Init => IInv
  <1> SUFFICES ASSUME Init PROVE IInv
    OBVIOUS
  <1>1. IsSidecar(sidecar, 0)
    BY PastAssumption DEF Init
  <1>2. Extended(sidecar, sidecar)
    BY <1>1, ExtendedReflexive
  <1>3. \A c \in Clients : req[c] = Idle /\ req[c].phase = "idle" /\ view[c] = sidecar
    BY DEF Init, Idle
  <1>4. TypeOK
    BY <1>1, <1>3, BoundsAssumption DEF Init, TypeOK, IsRequest, Times
  <1>5. \A c \in Clients : RequestInv(c)
    BY <1>2, <1>3 DEF RequestInv
  <1> QED
    BY <1>3, <1>4, <1>5 DEF Init, IInv, DistinctOps, Active, AppliedPersists

LEMMA NextPreservesIInv == IInv /\ [Next]_vars => IInv'
  <1> SUFFICES ASSUME IInv, [Next]_vars PROVE IInv'
    OBVIOUS
  <1>1. ASSUME NEW c \in Clients, Send(c)
        PROVE  IInv'
    BY <1>1, AcceptStep DEF Send
  <1>2. ASSUME NEW c \in Clients, Handle(c) \/ SaveFails(c)
        PROVE  IInv'
    BY <1>2, HandlerSteps, SaveStep DEF Handle
  <1>3. ASSUME NEW c \in Clients, Deliver(c) \/ Lose(c) \/ Refresh(c)
        PROVE  IInv'
    BY <1>3, DeliverStep
  <1>4. ASSUME NEW c \in Clients, OpenPage(c)
        PROVE  IInv'
    <2>1. document' \in Documents /\ clock' \in Times /\ page' \in [Clients -> Documents]
      BY <1>4 DEF OpenPage, IInv, TypeOK
    <2> QED
      BY <1>4, <2>1, WorldStep DEF OpenPage
  <1>5. CASE EditDocument
    <2>1. document' \in Documents /\ clock' \in Times /\ page' \in [Clients -> Documents]
      BY <1>5 DEF EditDocument, IInv, TypeOK
    <2> QED
      BY <1>5, <2>1, WorldStep DEF EditDocument
  <1>6. CASE SetClockBack
    <2>1. document' \in Documents /\ clock' \in Times /\ page' \in [Clients -> Documents]
      BY <1>6, BoundsAssumption DEF SetClockBack, IInv, TypeOK, Times
    <2> QED
      BY <1>6, <2>1, WorldStep DEF SetClockBack
  <1>7. CASE Restart
    BY <1>7, RestartStep
  <1>8. CASE UNCHANGED vars
    BY <1>8, WorldStep DEF vars, IInv, TypeOK
  <1> QED
    BY <1>1, <1>2, <1>3, <1>4, <1>5, <1>6, <1>7, <1>8 DEF Next

LEMMA InductiveInvariant == Spec => []IInv
  BY InitEstablishesIInv, NextPreservesIInv, PTL DEF Spec

\* Sidecars, requests and revisions keep their types under every interleaving of
\* the handlers, whatever the number of clients and requests.
THEOREM TypeCorrect == Spec => []TypeOK
  <1>1. IInv => TypeOK
    BY DEF IInv
  <1> QED
    BY <1>1, InductiveInvariant, PTL

\* No lost update: the If-Match check of Store.Save keeps every comment, reply and
\* move that ever reached the file, however many clients race.
THEOREM NoLostUpdate == Spec => []AppliedPersists
  <1>1. IInv => AppliedPersists
    BY DEF IInv
  <1> QED
    BY <1>1, InductiveInvariant, PTL

LEMMA StepExtends == IInv /\ [Next]_vars => [Extended(sidecar, sidecar')]_sidecar
  <1> SUFFICES ASSUME IInv, Next, sidecar' # sidecar
               PROVE  Extended(sidecar, sidecar')
    BY DEF vars
  <1>1. PICK c \in Clients : Save(c) \/ SaveFails(c)
    BY DEF Next, Send, Accept, Handle, Create, Reply, Transition, Reattach, Deliver, Lose,
           Refresh, OpenPage, EditDocument, SetClockBack, Restart
  <1> QED
    BY <1>1, WriteExtends DEF Save, SaveFails

\* Persisted thread entries are immutable and comments are never removed, by
\* whatever sequence of requests, faults and restarts.
THEOREM AppendOnly == Spec => ThreadsOnlyGrow
  BY InductiveInvariant, StepExtends, PTL DEF Spec, ThreadsOnlyGrow
=============================================================================
