--------------------------- MODULE FileDiff_proofs ---------------------------
(***************************************************************************)
(* Whatever git prints, an aligned diff shows both sources completely: the *)
(* rows account for the lines up to oldShown and newShown, and every step  *)
(* appends the rows of the lines behind.  From complete rows it follows    *)
(* that the renderer accepts them, that its source map has every line of   *)
(* the document, and that the overview's links lead to the changes.  A     *)
(* patch that describes both sources is followed to its end: the cursors   *)
(* stay where its records put them.                                        *)
(***************************************************************************)
EXTENDS FileDiff, FiniteSetTheorems, SequenceTheorems, WellFoundedInduction, TLAPS

RowsFollow ==
    /\ ShowsBase(oldShown) /\ ShowsCurrent(newShown) /\ RowsAreHonest
    /\ stage \in {"aligned", "rendered", "invalid"} => oldShown = Len(base) /\ newShown = Len(current)

-----------------------------------------------------------------------------
(* Lemmas about numbered rows *)

\* Numbers in order go on in order: what appending rows does to either side.
LEMMA InOrderConcat ==
    ASSUME NEW a \in Nat, NEW b \in Nat, NEW f \in [1..a -> Nat], NEW g \in [1..b -> Nat],
           NEW h \in [1..(a + b) -> Nat], NEW l \in Nat, NEW m \in Nat, NEW n \in Nat, l <= m, m <= n,
           \A k \in 1..(a + b) : h[k] = IF k <= a THEN f[k] ELSE g[k - a],
           InOrder(f, l, m), InOrder(g, m, n)
    PROVE  InOrder(h, l, n)
<1>1. DOMAIN h = 1..(a + b) /\ DOMAIN f = 1..a /\ DOMAIN g = 1..b
  OBVIOUS
<1>2. \A k \in 1..a : h[k] = f[k] /\ k \in 1..(a + b)
  OBVIOUS
<1>3. \A k \in 1..(a + b) : k > a => h[k] = g[k - a] /\ k - a \in 1..b
  OBVIOUS
<1>4. \A k \in 1..b : h[k + a] = g[k] /\ k + a \in 1..(a + b)
  <2> TAKE k \in 1..b
  <2>1. k + a \in 1..(a + b) /\ ~(k + a <= a) /\ (k + a) - a = k  OBVIOUS
  <2> QED BY <2>1
<1>5. \A k \in 1..a : f[k] \in Nat /\ (f[k] # 0 => f[k] \in (l + 1)..m)
  BY DEF InOrder
<1>6. \A k \in 1..b : g[k] \in Nat /\ (g[k] # 0 => g[k] \in (m + 1)..n)
  BY DEF InOrder
<1>a. \A x \in (l + 1)..m : \E k \in DOMAIN f : f[k] = x
  <2>1. (l + 1)..m = {f[k] : k \in DOMAIN f} \ {0}  BY Zenon DEF InOrder
  <2> QED BY <2>1
<1>b. \A x \in (m + 1)..n : \E k \in DOMAIN g : g[k] = x
  <2>1. (m + 1)..n = {g[k] : k \in DOMAIN g} \ {0}  BY Zenon DEF InOrder
  <2> QED BY <2>1
<1>c. \A j, k \in DOMAIN f : j < k /\ f[j] > 0 /\ f[k] > 0 => f[j] < f[k]  BY Zenon DEF InOrder
<1>d. \A j, k \in DOMAIN g : j < k /\ g[j] > 0 /\ g[k] > 0 => g[j] < g[k]  BY Zenon DEF InOrder
<1>7. {h[k] : k \in DOMAIN h} \ {0} = (l + 1)..n
  <2>1. ASSUME NEW k \in DOMAIN h, h[k] # 0  PROVE h[k] \in (l + 1)..n
    <3>1. CASE k <= a  BY <3>1, <2>1, <1>1, <1>2, <1>5
    <3>2. CASE k > a   BY <3>2, <2>1, <1>1, <1>3, <1>6
    <3> QED BY <3>1, <3>2, <1>1
  <2>2. ASSUME NEW x \in (l + 1)..n  PROVE \E k \in DOMAIN h : h[k] = x
    <3>1. CASE x <= m
      <4>1. PICK k \in DOMAIN f : f[k] = x  BY <3>1, <1>a
      <4>2. k \in DOMAIN h /\ h[k] = x  BY <4>1, <1>1, <1>2
      <4> QED BY <4>2
    <3>2. CASE x > m
      <4>1. PICK k \in DOMAIN g : g[k] = x  BY <3>2, <1>b
      <4>2. k + a \in DOMAIN h /\ h[k + a] = x  BY <4>1, <1>1, <1>4
      <4> QED BY <4>2
    <3> QED BY <3>1, <3>2
  <2> QED BY <2>1, <2>2
<1>8. ASSUME NEW j \in DOMAIN h, NEW k \in DOMAIN h, j < k, h[j] > 0, h[k] > 0  PROVE h[j] < h[k]
  <2>1. CASE k <= a
    <3>1. h[j] = f[j] /\ h[k] = f[k] /\ j \in DOMAIN f /\ k \in DOMAIN f  BY <2>1, <1>8, <1>1, <1>2
    <3> QED BY <3>1, <1>8, <1>c
  <2>2. CASE k > a /\ j <= a
    <3>1. h[j] = f[j] /\ j \in 1..a  BY <2>2, <1>1, <1>2
    <3>2. h[k] = g[k - a] /\ k - a \in 1..b  BY <2>2, <1>1, <1>3
    <3>3. f[j] # 0 /\ g[k - a] # 0  BY <3>1, <3>2, <1>8
    <3>4. f[j] \in (l + 1)..m  BY <3>1, <3>3, <1>5
    <3>5. g[k - a] \in (m + 1)..n  BY <3>2, <3>3, <1>6
    <3>6. f[j] < g[k - a]
      <4> DEFINE x == f[j]
                 y == g[k - a]
      <4>1. x \in (l + 1)..m /\ y \in (m + 1)..n  BY <3>4, <3>5
      <4> HIDE DEF x, y
      <4>2. x < y  BY <4>1
      <4> QED BY <4>2 DEF x, y
    <3> QED BY <3>1, <3>2, <3>6
  <2>3. CASE j > a
    <3>1. h[j] = g[j - a] /\ j - a \in 1..b  BY <2>3, <1>1, <1>3
    <3>2. h[k] = g[k - a] /\ k - a \in 1..b  BY <2>3, <1>8, <1>1, <1>3
    <3>3. j - a < k - a  BY <1>8, <1>1
    <3> QED BY <3>1, <3>2, <3>3, <1>8, <1>1, <1>d
  <2> QED BY <2>1, <2>2, <2>3, <1>1
<1>9. InOrder(h, l, n)
  BY <1>7, <1>8 DEF InOrder
<1> QED BY <1>9

\* Both sides of appended rows are appended.
LEMMA NumbersConcat ==
    ASSUME NEW s \in Seq(Rows), NEW t \in Seq(Rows)
    PROVE  /\ OldNumbers(s) \in [1..Len(s) -> Nat] /\ NewNumbers(s) \in [1..Len(s) -> Nat]
           /\ OldNumbers(t) \in [1..Len(t) -> Nat] /\ NewNumbers(t) \in [1..Len(t) -> Nat]
           /\ OldNumbers(s \o t) \in [1..(Len(s) + Len(t)) -> Nat]
           /\ NewNumbers(s \o t) \in [1..(Len(s) + Len(t)) -> Nat]
           /\ \A k \in 1..(Len(s) + Len(t)) :
                 /\ OldNumbers(s \o t)[k] = IF k <= Len(s) THEN OldNumbers(s)[k] ELSE OldNumbers(t)[k - Len(s)]
                 /\ NewNumbers(s \o t)[k] = IF k <= Len(s) THEN NewNumbers(s)[k] ELSE NewNumbers(t)[k - Len(s)]
<1>1. \A u \in Seq(Rows) : OldNumbers(u) \in [1..Len(u) -> Nat] /\ NewNumbers(u) \in [1..Len(u) -> Nat]
  <2> TAKE u \in Seq(Rows)
  <2>1. Len(u) \in Nat /\ \A k \in 1..Len(u) : u[k] \in Rows  OBVIOUS
  <2>2. \A k \in 1..Len(u) : u[k].old \in Nat /\ u[k].new \in Nat  BY <2>1 DEF Rows
  <2> QED BY <2>1, <2>2 DEF OldNumbers, NewNumbers
<1>2. /\ s \o t \in Seq(Rows) /\ Len(s \o t) = Len(s) + Len(t) /\ Len(s) \in Nat /\ Len(t) \in Nat
      /\ \A k \in 1..(Len(s) + Len(t)) :
            (s \o t)[k] = IF k <= Len(s) THEN s[k] ELSE t[k - Len(s)]
  OBVIOUS
<1>3. ASSUME NEW k \in 1..(Len(s) + Len(t))
      PROVE  /\ OldNumbers(s \o t)[k] = IF k <= Len(s) THEN OldNumbers(s)[k] ELSE OldNumbers(t)[k - Len(s)]
             /\ NewNumbers(s \o t)[k] = IF k <= Len(s) THEN NewNumbers(s)[k] ELSE NewNumbers(t)[k - Len(s)]
  <2>1. k \in 1..Len(s \o t)  BY <1>2
  <2>2. OldNumbers(s \o t)[k] = (s \o t)[k].old /\ NewNumbers(s \o t)[k] = (s \o t)[k].new
    BY <2>1 DEF OldNumbers, NewNumbers
  <2>3. CASE k <= Len(s)
    <3>1. k \in 1..Len(s) /\ (s \o t)[k] = s[k]  BY <2>3, <1>2
    <3> QED BY <3>1, <2>2, <2>3 DEF OldNumbers, NewNumbers
  <2>4. CASE ~(k <= Len(s))
    <3>1. k - Len(s) \in 1..Len(t) /\ (s \o t)[k] = t[k - Len(s)]  BY <2>4, <1>2
    <3> QED BY <3>1, <2>2, <2>4 DEF OldNumbers, NewNumbers
  <2> QED BY <2>3, <2>4
<1> QED BY <1>1, <1>2, <1>3

\* Appending rows that go on where the others stop keeps the rows complete.
LEMMA RowsConcat ==
    ASSUME NEW s \in Seq(Rows), NEW t \in Seq(Rows),
           NEW i \in Nat, NEW o \in Nat, NEW p \in Nat, i <= o, o <= p,
           NEW l \in Nat, NEW m \in Nat, NEW n \in Nat, l <= m, m <= n,
           InOrder(OldNumbers(s), i, o), InOrder(OldNumbers(t), o, p),
           InOrder(NewNumbers(s), l, m), InOrder(NewNumbers(t), m, n),
           \A k \in DOMAIN s : Honest(s[k]), \A k \in DOMAIN t : Honest(t[k])
    PROVE  /\ s \o t \in Seq(Rows)
           /\ InOrder(OldNumbers(s \o t), i, p) /\ InOrder(NewNumbers(s \o t), l, n)
           /\ \A k \in DOMAIN (s \o t) : Honest((s \o t)[k])
<1>1. s \o t \in Seq(Rows)  OBVIOUS
<1> DEFINE a == Len(s)  b == Len(t)
<1>a. a \in Nat /\ b \in Nat  OBVIOUS
<1>2. InOrder(OldNumbers(s \o t), i, p)
  <2> DEFINE f == OldNumbers(s)  g == OldNumbers(t)  h == OldNumbers(s \o t)
  <2>1. /\ f \in [1..a -> Nat] /\ g \in [1..b -> Nat] /\ h \in [1..(a + b) -> Nat]
        /\ \A k \in 1..(a + b) : h[k] = IF k <= a THEN f[k] ELSE g[k - a]
    BY NumbersConcat
  <2>2. InOrder(f, i, o) /\ InOrder(g, o, p)  OBVIOUS
  <2> HIDE DEF a, b, f, g, h
  <2>3. InOrder(h, i, p)  BY <1>a, <2>1, <2>2, InOrderConcat
  <2> QED BY <2>3 DEF h
<1>3. InOrder(NewNumbers(s \o t), l, n)
  <2> DEFINE f == NewNumbers(s)  g == NewNumbers(t)  h == NewNumbers(s \o t)
  <2>1. /\ f \in [1..a -> Nat] /\ g \in [1..b -> Nat] /\ h \in [1..(a + b) -> Nat]
        /\ \A k \in 1..(a + b) : h[k] = IF k <= a THEN f[k] ELSE g[k - a]
    BY NumbersConcat
  <2>2. InOrder(f, l, m) /\ InOrder(g, m, n)  OBVIOUS
  <2> HIDE DEF a, b, f, g, h
  <2>3. InOrder(h, l, n)  BY <1>a, <2>1, <2>2, InOrderConcat
  <2> QED BY <2>3 DEF h
<1>4. ASSUME NEW k \in DOMAIN (s \o t)  PROVE Honest((s \o t)[k])
  <2>1. CASE k <= Len(s)
    <3>1. k \in DOMAIN s /\ (s \o t)[k] = s[k]  BY <2>1
    <3> QED BY <3>1
  <2>2. CASE k > Len(s)
    <3>1. k - Len(s) \in DOMAIN t /\ (s \o t)[k] = t[k - Len(s)]  BY <2>2
    <3> QED BY <3>1
  <2> QED BY <2>1, <2>2
<1> QED BY <1>1, <1>2, <1>3, <1>4
-----------------------------------------------------------------------------
(* The rows every step appends *)

LEMMA TextTypes == TextOf \in [Lines -> Texts] /\ NoText \in Texts
  BY LinesAssumption DEF TextOf

\* A step that appends rows for the lines up to o and n.
Appends(more, o, n) ==
    /\ more \in Seq(Rows) /\ oldShown <= o /\ newShown <= n /\ o \in Nat /\ n \in Nat
    /\ InOrder(OldNumbers(more), oldShown, o) /\ InOrder(NewNumbers(more), newShown, n)
    /\ \A k \in DOMAIN more : Honest(more[k])

LEMMA SourcesAreLines ==
    ASSUME TypeOK
    PROVE  base \in Seq(Lines) /\ current \in Seq(Lines) /\ Len(base) \in Nat /\ Len(current) \in Nat
  BY LinesAssumption DEF TypeOK

\* appendUnchanged and a context line: k lines of the same text on both sides.
LEMMA UnchangedAppends ==
    ASSUME TypeOK, oldShown = oldCursor, newShown = newCursor, NEW k \in Nat,
           oldCursor + k <= Len(base), newCursor + k <= Len(current), SameText(oldCursor, newCursor, k)
    PROVE  Appends(UnchangedRows(k), oldCursor + k, newCursor + k)
<1> DEFINE more == UnchangedRows(k)
<1>1. oldCursor \in Nat /\ newCursor \in Nat  BY DEF TypeOK
<1>2. \A i \in 1..k : /\ more[i] = Unchanged(oldCursor + i, newCursor + i)
                       /\ more[i] \in Rows /\ more[i].old = oldCursor + i /\ more[i].new = newCursor + i
                       /\ more[i].kind = "unchanged"
  BY <1>1 DEF UnchangedRows, Unchanged, Rows, Kinds
<1>3. more \in Seq(Rows) /\ Len(more) = k /\ DOMAIN more = 1..k
  BY <1>2 DEF UnchangedRows
<1>4. OldNumbers(more) = [i \in 1..k |-> oldCursor + i] /\ NewNumbers(more) = [i \in 1..k |-> newCursor + i]
  BY <1>2, <1>3 DEF OldNumbers, NewNumbers
<1>5. \A n \in Nat : InOrder([i \in 1..k |-> n + i], n, n + k)
  <2> TAKE n \in Nat
  <2> DEFINE f == [i \in 1..k |-> n + i]
  <2>1. {f[i] : i \in DOMAIN f} \ {0} = (n + 1)..(n + k)
    <3>1. \A i \in 1..k : f[i] = n + i /\ n + i \in (n + 1)..(n + k)  OBVIOUS
    <3>2. \A x \in (n + 1)..(n + k) : x - n \in 1..k /\ f[x - n] = x /\ x # 0  OBVIOUS
    <3>3. DOMAIN f = 1..k  OBVIOUS
    <3> HIDE DEF f
    <3> QED BY <3>1, <3>2, <3>3
  <2>2. \A i, j \in DOMAIN f : i < j => f[i] < f[j]  OBVIOUS
  <2> QED BY <2>1, <2>2 DEF InOrder
<1>6. ASSUME NEW i \in DOMAIN more  PROVE Honest(more[i])
  <2>1. i \in 1..k  BY <1>3
  <2>2. TextOf[base[oldCursor + i]] = TextOf[current[newCursor + i]]  BY <2>1 DEF SameText
  <2> HIDE DEF more
  <2> QED BY <1>1, <1>2, <2>1, <2>2 DEF Honest, HasOld, HasNew
<1> QED BY <1>1, <1>3, <1>4, <1>5, <1>6 DEF Appends

\* appendChangedGroup: every line of the pending group, paired while both last.
LEMMA GroupAppends ==
    ASSUME TypeOK
    PROVE  Appends(GroupRows, oldCursor, newCursor)
<1> DEFINE more == GroupRows
           a == oldCursor - oldShown
           b == newCursor - newShown
           k == Larger(a, b)
<1>1. /\ oldCursor \in Nat /\ newCursor \in Nat /\ oldShown \in Nat /\ newShown \in Nat
      /\ oldShown <= oldCursor /\ newShown <= newCursor
  BY DEF TypeOK
<1>2. a \in Nat /\ b \in Nat /\ k \in Nat /\ a <= k /\ b <= k /\ (k = a \/ k = b)  BY <1>1 DEF Larger
<1>3. \A i \in 1..k :
        /\ more[i].old = IF i <= a THEN oldShown + i ELSE 0
        /\ more[i].new = IF i <= b THEN newShown + i ELSE 0
        /\ more[i].kind = IF i <= a /\ i <= b THEN "modified" ELSE IF i <= a THEN "deleted" ELSE "added"
        /\ more[i] \in Rows
  <2> TAKE i \in 1..k
  <2>1. more[i] = PairedRow(i)  BY DEF GroupRows
  <2>2. (oldShown + i <= oldCursor <=> i <= a) /\ (newShown + i <= newCursor <=> i <= b)  BY <1>1, <1>2
  <2>3. oldShown + i \in Nat /\ newShown + i \in Nat  BY <1>1, <1>2
  <2> HIDE DEF more, k, a, b
  <2>4. more[i] = [kind |-> IF i <= a /\ i <= b THEN "modified" ELSE IF i <= a THEN "deleted" ELSE "added",
                   old |-> IF i <= a THEN oldShown + i ELSE 0, new |-> IF i <= b THEN newShown + i ELSE 0]
    BY <2>1, <2>2 DEF PairedRow
  <2> QED BY <2>3, <2>4 DEF Rows, Kinds
<1>4. more \in Seq(Rows) /\ Len(more) = k /\ DOMAIN more = 1..k
  BY <1>2, <1>3 DEF GroupRows
<1>5. /\ OldNumbers(more) = [i \in 1..k |-> IF i <= a THEN oldShown + i ELSE 0]
      /\ NewNumbers(more) = [i \in 1..k |-> IF i <= b THEN newShown + i ELSE 0]
  BY <1>3, <1>4 DEF OldNumbers, NewNumbers
<1>6. ASSUME NEW n \in Nat, NEW c \in Nat, c <= k
      PROVE  InOrder([i \in 1..k |-> IF i <= c THEN n + i ELSE 0], n, n + c)
  <2> DEFINE f == [i \in 1..k |-> IF i <= c THEN n + i ELSE 0]
  <2>1. {f[i] : i \in DOMAIN f} \ {0} = (n + 1)..(n + c)
    <3>1. \A i \in 1..k : f[i] # 0 => f[i] \in (n + 1)..(n + c)  BY <1>2
    <3>2. \A x \in (n + 1)..(n + c) : x - n \in 1..k /\ f[x - n] = x /\ x # 0  BY <1>2, <1>6
    <3>3. DOMAIN f = 1..k  OBVIOUS
    <3> HIDE DEF f, k
    <3> QED BY <3>1, <3>2, <3>3
  <2>2. \A i, j \in DOMAIN f : i < j /\ f[i] > 0 /\ f[j] > 0 => f[i] < f[j]  BY <1>2
  <2> QED BY <2>1, <2>2 DEF InOrder
<1>7. oldShown + a = oldCursor /\ newShown + b = newCursor  BY <1>1
<1>8. ASSUME NEW i \in DOMAIN more  PROVE Honest(more[i])
  <2>1. i \in 1..k /\ (i <= a \/ i <= b)  BY <1>2, <1>4
  <2> HIDE DEF more, k, a, b
  <2>2. more[i].kind \in {"modified", "deleted", "added"}  BY <1>3, <2>1
  <2>3. more[i].old > 0 <=> i <= a  BY <1>1, <1>3, <2>1
  <2>4. more[i].new > 0 <=> i <= b  BY <1>1, <1>3, <2>1
  <2>5. (more[i].kind # "added" <=> i <= a) /\ (more[i].kind # "deleted" <=> i <= b)  BY <1>3, <2>1
  <2> QED BY <2>2, <2>3, <2>4, <2>5 DEF Honest, HasOld, HasNew
<1>9. InOrder(OldNumbers(more), oldShown, oldCursor) /\ InOrder(NewNumbers(more), newShown, newCursor)
  <2> HIDE DEF more, k, a, b
  <2> QED BY <1>1, <1>2, <1>5, <1>6, <1>7
<1> QED BY <1>1, <1>4, <1>8, <1>9 DEF Appends
-----------------------------------------------------------------------------
(* Invariance *)

\* The rows of both sources up to the shown lines, after a step that appends.
LEMMA AppendStep ==
    ASSUME TypeOK, RowsFollow, NEW more, NEW o, NEW n, Appends(more, o, n),
           rows' = rows \o more, oldShown' = o, newShown' = n, UNCHANGED <<base, current>>
    PROVE  rows' \in Seq(Rows) /\ ShowsBase(oldShown)' /\ ShowsCurrent(newShown)' /\ RowsAreHonest'
<1>1. rows \in Seq(Rows) /\ oldShown \in Nat /\ newShown \in Nat  BY DEF TypeOK
<1>2. /\ InOrder(OldNumbers(rows), 0, oldShown) /\ InOrder(NewNumbers(rows), 0, newShown)
      /\ \A k \in DOMAIN rows : Honest(rows[k])
  BY DEF RowsFollow, ShowsBase, ShowsCurrent, RowsAreHonest
<1>3. /\ more \in Seq(Rows) /\ oldShown <= o /\ newShown <= n /\ o \in Nat /\ n \in Nat
      /\ InOrder(OldNumbers(more), oldShown, o) /\ InOrder(NewNumbers(more), newShown, n)
      /\ \A k \in DOMAIN more : Honest(more[k])
  BY DEF Appends
<1>4. /\ rows \o more \in Seq(Rows)
      /\ InOrder(OldNumbers(rows \o more), 0, o) /\ InOrder(NewNumbers(rows \o more), 0, n)
      /\ \A k \in DOMAIN (rows \o more) : Honest((rows \o more)[k])
  <2>1. 0 <= oldShown /\ 0 <= newShown /\ 0 \in Nat  BY <1>1
  <2> QED BY <1>1, <1>2, <1>3, <2>1, RowsConcat
<1>5. \A row : Honest(row)' <=> Honest(row)  BY DEF Honest, HasOld, HasNew
<1>6. RowsAreHonest'
  <2>1. ASSUME NEW k \in DOMAIN rows'  PROVE Honest(rows[k])'
    BY <1>4, <2>1 DEF Honest, HasOld, HasNew
  <2> QED BY <2>1 DEF RowsAreHonest
<1>7. ShowsBase(oldShown)' /\ ShowsCurrent(newShown)'
  BY <1>4 DEF ShowsBase, ShowsCurrent, InOrder, OldNumbers, NewNumbers
<1> QED BY <1>4, <1>6, <1>7

LEMMA RowsStay ==
    ASSUME RowsFollow, UNCHANGED <<rows, oldShown, newShown, base, current>>
    PROVE  ShowsBase(oldShown)' /\ ShowsCurrent(newShown)' /\ RowsAreHonest'
  BY DEF RowsFollow, ShowsBase, ShowsCurrent, RowsAreHonest, Honest, HasOld, HasNew, InOrder,
         OldNumbers, NewNumbers

IInv == TypeOK /\ RowsFollow

LEMMA InitIInv == Init => IInv
<1> SUFFICES ASSUME Init PROVE IInv  OBVIOUS
<1>1. rows = <<>> /\ oldShown = 0 /\ newShown = 0 /\ stage = "read"  BY DEF Init
<1>2. InOrder(OldNumbers(rows), 0, 0) /\ InOrder(NewNumbers(rows), 0, 0)
  BY <1>1 DEF InOrder, OldNumbers, NewNumbers
<1>3. RowsFollow  BY <1>1, <1>2 DEF RowsFollow, ShowsBase, ShowsCurrent, RowsAreHonest
<1>4. base \in Seq(Lines) /\ current \in Seq(Lines)  BY LinesAssumption DEF Init
<1>5. TypeOK
  <2>1. patch \in Patches /\ rows \in Seq(Rows)  BY DEF Init, Patches
  <2>2. hunk \in HunkHeaders  BY TextTypes DEF Init, NoHunk, HunkHeaders
  <2>3. stage \in Stages /\ stage = "read"  BY DEF Init, Stages
  <2> QED BY <1>4, <2>1, <2>2, <2>3 DEF Init, TypeOK
<1> QED BY <1>3, <1>5 DEF IInv

\* The patch that is about to be aligned is a sequence of records.
LEMMA PatchType ==
    ASSUME TypeOK, ReadPatch
    PROVE  patch' \in Patches
<1>1. <<>> \in Patches  BY DEF Patches
<1>2. ASSUME NEW b \in Contents, NEW w \in Contents  PROVE GitDiff[b, w] \subseteq Patches
  <2>1. <<b, w>> \in Contents \X Contents  OBVIOUS
  <2>2. GitDiff \in [Contents \X Contents -> SUBSET Patches]  BY GitAssumption
  <2>3. GitDiff[<<b, w>>] \in SUBSET Patches  BY <2>1, <2>2, Zenon
  <2> QED BY <2>3
<1>3. PrintedPatches \subseteq Patches
  <2>1. base \in Contents /\ worktree \in Contents /\ <<>> \in Contents  BY GitAssumption DEF TypeOK
  <2>2. GitDiff[base, worktree] \subseteq Patches /\ GitDiff[base, <<>>] \subseteq Patches  BY <1>2, <2>1
  <2> QED BY <1>1, <2>2 DEF PrintedPatches
<1>4. AddedFilePatch \in Patches
  <2> DEFINE head == [tag |-> "hunk", oldStart |-> 0, oldCount |-> 0, newStart |-> 1, newCount |-> Len(current),
                      text |-> NoText]
             tail == [i \in 1..Len(current) |-> [tag |-> "+", text |-> TextOf[current[i]]]]
  <2>1. Len(current) \in Nat /\ \A i \in 1..Len(current) : current[i] \in Lines  BY SourcesAreLines
  <2>2. head \in Records  BY <2>1, TextTypes DEF Records, HunkHeaders
  <2>3. \A i \in 1..Len(current) : tail[i] \in Records
    <3> TAKE i \in 1..Len(current)
    <3>1. TextOf[current[i]] \in Texts  BY <2>1, TextTypes
    <3> QED BY <3>1 DEF Records, TextRecords
  <2>4. tail \in Seq(Records)  BY <2>1, <2>3
  <2>5. <<head>> \in Seq(Records)  BY <2>2
  <2> HIDE DEF head, tail
  <2>6. <<head>> \o tail \in Seq(Records)  BY <2>4, <2>5
  <2> QED BY <2>6 DEF Patches, AddedFilePatch, head, tail
<1> QED BY <1>3, <1>4 DEF ReadPatch
-----------------------------------------------------------------------------
(* One lemma per action that appends rows *)

\* A record of the patch carries the tag its action looks for.
LEMMA RecordTypes ==
    ASSUME TypeOK, at <= Len(patch)
    PROVE  /\ patch[at] \in Records
           /\ patch[at].tag = "hunk" => patch[at] \in HunkHeaders
<1>1. patch \in Seq(Records) /\ at \in 1..Len(patch)  BY DEF TypeOK, Patches
<1>2. patch[at] \in Records  BY <1>1
<1> QED BY <1>2 DEF Records, HunkHeaders, TextRecords

LEMMA EnterHunkStep ==
    ASSUME IInv, EnterHunk
    PROVE  IInv'
<1>1. TypeOK /\ RowsFollow  BY DEF IInv
<1>2. /\ stage = "between" /\ at <= Len(patch) /\ patch[at].tag = "hunk" /\ HunkFits(patch[at])
      /\ hunk' = patch[at] /\ hunkCount' = hunkCount + 1 /\ oldUsed' = 0 /\ newUsed' = 0 /\ at' = at + 1
      /\ stage' = "inside" /\ UNCHANGED <<inputs, overview>>
  BY DEF EnterHunk
<1> DEFINE gap == HunkIndex(patch[at].oldStart, patch[at].oldCount) - oldCursor
<1>3. /\ rows' = rows \o UnchangedRows(gap) /\ oldCursor' = oldCursor + gap /\ oldShown' = oldCursor + gap
      /\ newCursor' = newCursor + gap /\ newShown' = newCursor + gap
  BY DEF EnterHunk
<1>4. oldShown = oldCursor /\ newShown = newCursor /\ oldCursor \in Nat /\ newCursor \in Nat
  BY <1>1, <1>2 DEF TypeOK
<1>5. patch[at] \in HunkHeaders  BY <1>1, <1>2, RecordTypes
<1>6. /\ gap \in Nat /\ oldCursor + gap <= Len(base) /\ newCursor + gap <= Len(current)
      /\ SameText(oldCursor, newCursor, gap)
  <2> DEFINE o == HunkIndex(patch[at].oldStart, patch[at].oldCount)
             n == HunkIndex(patch[at].newStart, patch[at].newCount)
  <2>1. o \in oldCursor..Len(base) /\ n \in newCursor..Len(current) /\ o - oldCursor = n - newCursor
        /\ SameText(oldCursor, newCursor, o - oldCursor)
    BY <1>2 DEF HunkFits
  <2>2. Len(base) \in Nat /\ Len(current) \in Nat  BY <1>1, SourcesAreLines
  <2> HIDE DEF o, n
  <2>3. /\ o - oldCursor \in Nat /\ oldCursor + (o - oldCursor) <= Len(base)
        /\ newCursor + (o - oldCursor) <= Len(current)
    BY <2>1, <2>2, <1>4
  <2> QED BY <2>1, <2>3 DEF o
<1> HIDE DEF gap
<1>7. Appends(UnchangedRows(gap), oldCursor + gap, newCursor + gap)  BY <1>1, <1>4, <1>6, UnchangedAppends
<1>8. rows' \in Seq(Rows) /\ ShowsBase(oldShown)' /\ ShowsCurrent(newShown)' /\ RowsAreHonest'
  BY <1>1, <1>2, <1>3, <1>7, AppendStep DEF inputs
<1>9. RowsFollow'  BY <1>2, <1>8 DEF RowsFollow
<1>10. TypeOK'
  <2>1. /\ oldCursor' \in 0..Len(base') /\ oldShown' \in 0..oldCursor'
        /\ newCursor' \in 0..Len(current') /\ newShown' \in 0..newCursor'
    <3>1. UNCHANGED <<base, current>> /\ Len(base) \in Nat /\ Len(current) \in Nat
      BY <1>1, <1>2, SourcesAreLines DEF inputs
    <3> QED BY <1>3, <1>4, <1>6, <3>1
  <2> QED BY <1>1, <1>2, <1>5, <1>8, <2>1 DEF TypeOK, Stages, inputs
<1> QED BY <1>9, <1>10 DEF IInv

LEMMA FinishStep ==
    ASSUME IInv, Finish
    PROVE  IInv'
<1>1. TypeOK /\ RowsFollow  BY DEF IInv
<1> DEFINE rest == Len(base) - oldCursor
<1>2. oldShown = oldCursor /\ newShown = newCursor /\ oldCursor \in Nat /\ newCursor \in Nat
      /\ oldCursor <= Len(base) /\ newCursor <= Len(current)
  BY <1>1 DEF TypeOK, Finish
<1>3. Len(base) \in Nat /\ Len(current) \in Nat  BY <1>1, SourcesAreLines
<1>4. rest \in Nat /\ oldCursor + rest = Len(base) /\ newCursor + rest = Len(current)
      /\ SameText(oldCursor, newCursor, rest)
  BY <1>2, <1>3 DEF Finish, RestFits
<1>5. /\ rows' = rows \o UnchangedRows(rest) /\ oldShown' = Len(base) /\ newShown' = Len(current)
      /\ oldCursor' = Len(base) /\ newCursor' = Len(current) /\ stage' = "aligned"
      /\ UNCHANGED <<inputs, progress, overview>>
  BY DEF Finish
<1> HIDE DEF rest
<1>6. Appends(UnchangedRows(rest), Len(base), Len(current))
  <2>1. oldCursor + rest <= Len(base) /\ newCursor + rest <= Len(current)  BY <1>3, <1>4
  <2>2. Appends(UnchangedRows(rest), oldCursor + rest, newCursor + rest)
    BY <1>1, <1>2, <1>4, <2>1, UnchangedAppends
  <2> QED BY <1>4, <2>2
<1>7. rows' \in Seq(Rows) /\ ShowsBase(oldShown)' /\ ShowsCurrent(newShown)' /\ RowsAreHonest'
  BY <1>1, <1>5, <1>6, AppendStep DEF inputs
<1>8. RowsFollow'  BY <1>5, <1>7 DEF RowsFollow, inputs
<1>9. TypeOK'
  BY <1>1, <1>3, <1>5, <1>7 DEF TypeOK, Stages, inputs, progress
<1> QED BY <1>8, <1>9 DEF IInv

LEMMA LeaveHunkStep ==
    ASSUME IInv, LeaveHunk
    PROVE  IInv'
<1>1. TypeOK /\ RowsFollow  BY DEF IInv
<1>2. Appends(GroupRows, oldCursor, newCursor)  BY <1>1, GroupAppends
<1>3. /\ rows' = rows \o GroupRows /\ oldShown' = oldCursor /\ newShown' = newCursor
      /\ stage' = "between" /\ UNCHANGED <<inputs, progress, oldCursor, newCursor, overview>>
  BY DEF LeaveHunk
<1>4. rows' \in Seq(Rows) /\ ShowsBase(oldShown)' /\ ShowsCurrent(newShown)' /\ RowsAreHonest'
  BY <1>1, <1>2, <1>3, AppendStep DEF inputs
<1>5. RowsFollow'  BY <1>3, <1>4 DEF RowsFollow
<1>6. oldCursor \in 0..oldCursor /\ newCursor \in 0..newCursor  BY <1>1 DEF TypeOK
<1>7. TypeOK'  BY <1>1, <1>3, <1>4, <1>6 DEF TypeOK, Stages, inputs, progress
<1> QED BY <1>5, <1>7 DEF IInv

\* A context line closes the pending group and adds a row of its own.
LEMMA ContextStep ==
    ASSUME IInv, Context
    PROVE  IInv'
<1>1. TypeOK /\ RowsFollow  BY DEF IInv
<1> DEFINE last == Unchanged(oldCursor + 1, newCursor + 1)
<1>2. /\ stage = "inside" /\ at <= Len(patch) /\ patch[at].tag = " " /\ RecordFits(patch[at])
      /\ at' = at + 1 /\ UNCHANGED <<inputs, stage, hunk, hunkCount, overview>>
      /\ rows' = rows \o (GroupRows \o <<last>>)
      /\ oldCursor' = oldCursor + 1 /\ oldShown' = oldCursor + 1 /\ oldUsed' = oldUsed + 1
      /\ newCursor' = newCursor + 1 /\ newShown' = newCursor + 1 /\ newUsed' = newUsed + 1
  BY DEF Context, Consume
<1>3. /\ oldCursor \in Nat /\ newCursor \in Nat /\ oldCursor + 1 <= Len(base) /\ newCursor + 1 <= Len(current)
      /\ TextOf[base[oldCursor + 1]] = TextOf[current[newCursor + 1]]
      /\ Len(base) \in Nat /\ Len(current) \in Nat
  <2>1. oldCursor \in Nat /\ newCursor \in Nat /\ Len(base) \in Nat /\ Len(current) \in Nat
    BY <1>1, SourcesAreLines DEF TypeOK
  <2>2. OldFits(Strip[patch[at].text]) /\ NewFits(Strip[patch[at].text])  BY <1>2 DEF RecordFits
  <2> QED BY <2>1, <2>2 DEF OldFits, NewFits
<1>4. Appends(GroupRows, oldCursor, newCursor)  BY <1>1, GroupAppends
<1>5. /\ last \in Rows /\ last.old = oldCursor + 1 /\ last.new = newCursor + 1 /\ last.kind = "unchanged"
  BY <1>3 DEF Unchanged, Rows, Kinds
<1> HIDE DEF last
<1>6. /\ <<last>> \in Seq(Rows) /\ InOrder(OldNumbers(<<last>>), oldCursor, oldCursor + 1)
      /\ InOrder(NewNumbers(<<last>>), newCursor, newCursor + 1)
      /\ \A k \in DOMAIN <<last>> : Honest(<<last>>[k])
  <2>1. Len(<<last>>) = 1 /\ DOMAIN <<last>> = 1..1 /\ <<last>>[1] = last /\ <<last>> \in Seq(Rows)  BY <1>5
  <2>2. OldNumbers(<<last>>) = [k \in 1..1 |-> oldCursor + 1] /\ NewNumbers(<<last>>) = [k \in 1..1 |-> newCursor + 1]
    BY <1>5, <2>1 DEF OldNumbers, NewNumbers
  <2>3. ASSUME NEW n \in Nat  PROVE InOrder([k \in 1..1 |-> n + 1], n, n + 1)
    <3> DEFINE f == [k \in 1..1 |-> n + 1]
    <3>1. DOMAIN f = {1} /\ f[1] = n + 1 /\ n + 1 # 0 /\ (n + 1)..(n + 1) = {n + 1}  OBVIOUS
    <3> HIDE DEF f
    <3>2. {f[k] : k \in DOMAIN f} \ {0} = (n + 1)..(n + 1)  BY <3>1
    <3>3. \A j, k \in DOMAIN f : ~(j < k)  BY <3>1
    <3>4. InOrder(f, n, n + 1)  BY <3>2, <3>3 DEF InOrder
    <3> QED BY <3>4 DEF f
  <2>4. Honest(last)  BY <1>3, <1>5 DEF Honest, HasOld, HasNew
  <2>5. InOrder(OldNumbers(<<last>>), oldCursor, oldCursor + 1)
    <3>1. InOrder([k \in 1..1 |-> oldCursor + 1], oldCursor, oldCursor + 1)  BY <1>3, <2>3
    <3> QED BY <2>2, <3>1
  <2>6. InOrder(NewNumbers(<<last>>), newCursor, newCursor + 1)
    <3>1. InOrder([k \in 1..1 |-> newCursor + 1], newCursor, newCursor + 1)  BY <1>3, <2>3
    <3> QED BY <2>2, <3>1
  <2>7. \A k \in DOMAIN <<last>> : Honest(<<last>>[k])
    <3>1. \A k \in DOMAIN <<last>> : k = 1  BY <2>1
    <3> QED BY <2>1, <2>4, <3>1
  <2> QED BY <2>1, <2>5, <2>6, <2>7
<1> DEFINE more == GroupRows \o <<last>>
<1>7. Appends(more, oldCursor + 1, newCursor + 1)
  <2>1. /\ GroupRows \in Seq(Rows) /\ oldShown <= oldCursor /\ newShown <= newCursor
        /\ InOrder(OldNumbers(GroupRows), oldShown, oldCursor)
        /\ InOrder(NewNumbers(GroupRows), newShown, newCursor)
        /\ \A k \in DOMAIN GroupRows : Honest(GroupRows[k])
    BY <1>4 DEF Appends
  <2>2. oldShown \in Nat /\ newShown \in Nat /\ oldCursor <= oldCursor + 1 /\ newCursor <= newCursor + 1
        /\ oldCursor + 1 \in Nat /\ newCursor + 1 \in Nat
    BY <1>1, <1>3 DEF TypeOK
  <2>3. /\ more \in Seq(Rows) /\ InOrder(OldNumbers(more), oldShown, oldCursor + 1)
        /\ InOrder(NewNumbers(more), newShown, newCursor + 1) /\ \A k \in DOMAIN more : Honest(more[k])
    BY <1>3, <1>6, <2>1, <2>2, RowsConcat
  <2>4. oldShown <= oldCursor + 1 /\ newShown <= newCursor + 1  BY <1>3, <2>1, <2>2
  <2> HIDE DEF more
  <2> QED BY <2>2, <2>3, <2>4 DEF Appends
<1>8. rows' = rows \o more  BY <1>2
<1> HIDE DEF more
<1>9. rows' \in Seq(Rows) /\ ShowsBase(oldShown)' /\ ShowsCurrent(newShown)' /\ RowsAreHonest'
  BY <1>1, <1>2, <1>7, <1>8, AppendStep DEF inputs
<1>10. RowsFollow'  BY <1>2, <1>9 DEF RowsFollow
<1>11. TypeOK'
  <2>1. /\ oldCursor' \in 0..Len(base') /\ oldShown' \in 0..oldCursor'
        /\ newCursor' \in 0..Len(current') /\ newShown' \in 0..newCursor'
    <3>1. UNCHANGED <<base, current>>  BY <1>2 DEF inputs
    <3>2. oldCursor' = oldCursor + 1 /\ oldShown' = oldCursor + 1 /\ newCursor' = newCursor + 1 /\ newShown' = newCursor + 1
      BY <1>2
    <3> QED BY <1>3, <3>1, <3>2
  <2>2. /\ at' = at + 1 /\ oldUsed' = oldUsed + 1 /\ newUsed' = newUsed + 1 /\ stage' = "inside"
        /\ UNCHANGED <<worktree, current, base, baseExists, indexed, seen, patch, hunk, hunkCount>>
    BY <1>2 DEF inputs
  <2> QED BY <1>1, <1>9, <2>1, <2>2 DEF TypeOK, Stages
<1> QED BY <1>10, <1>11 DEF IInv

LEMMA NextIInv == IInv /\ [Next]_vars => IInv'
<1> SUFFICES ASSUME IInv, [Next]_vars PROVE IInv'  OBVIOUS
<1>1. TypeOK /\ RowsFollow  BY DEF IInv
<1>2. CASE EditWorktree
  <2>1. TypeOK'  BY <1>1, <1>2 DEF EditWorktree, TypeOK, progress, cursors
  <2> QED BY <1>1, <1>2, <2>1, RowsStay DEF EditWorktree, cursors, RowsFollow, IInv
<1>3. CASE ReadPatch
  <2>1. patch' \in Patches  BY <1>1, <1>3, PatchType
  <2>2. TypeOK'  BY <1>1, <1>3, <2>1 DEF ReadPatch, TypeOK, Stages, progress, cursors
  <2> QED BY <1>1, <1>3, <2>2, RowsStay DEF ReadPatch, cursors, RowsFollow, IInv
<1>4. CASE GitFails
  <2>1. TypeOK'  BY <1>1, <1>4 DEF GitFails, TypeOK, Stages, inputs, progress, cursors
  <2> QED BY <1>1, <1>4, <2>1, RowsStay DEF GitFails, inputs, cursors, RowsFollow, IInv
<1>5. CASE Skip
  <2>1. TypeOK'  BY <1>1, <1>5 DEF Skip, TypeOK, inputs, cursors
  <2> QED BY <1>1, <1>5, <2>1, RowsStay DEF Skip, inputs, cursors, RowsFollow, IInv
<1>6. CASE EnterHunk  BY <1>6, EnterHunkStep
<1>7. CASE NoNewline
  <2>1. TypeOK'  BY <1>1, <1>7 DEF NoNewline, Consume, TypeOK, inputs, cursors
  <2> QED BY <1>1, <1>7, <2>1, RowsStay DEF NoNewline, Consume, inputs, cursors, RowsFollow, IInv
<1>8. CASE Deleted
  <2>1. OldFits(Strip[patch[at].text])  BY <1>8 DEF Deleted, Consume, RecordFits
  <2>2. oldCursor + 1 \in 0..Len(base) /\ oldShown \in 0..(oldCursor + 1)
    BY <1>1, <2>1, SourcesAreLines DEF OldFits, TypeOK
  <2>3. TypeOK'  BY <1>1, <1>8, <2>2 DEF Deleted, Consume, TypeOK, inputs
  <2> QED BY <1>1, <1>8, <2>3, RowsStay DEF Deleted, Consume, inputs, RowsFollow, IInv
<1>9. CASE Added
  <2>1. NewFits(Strip[patch[at].text])  BY <1>9 DEF Added, Consume, RecordFits
  <2>2. newCursor + 1 \in 0..Len(current) /\ newShown \in 0..(newCursor + 1)
    BY <1>1, <2>1, SourcesAreLines DEF NewFits, TypeOK
  <2>3. TypeOK'  BY <1>1, <1>9, <2>2 DEF Added, Consume, TypeOK, inputs
  <2> QED BY <1>1, <1>9, <2>3, RowsStay DEF Added, Consume, inputs, RowsFollow, IInv
<1>10. CASE Context  BY <1>10, ContextStep
<1>11. CASE LeaveHunk  BY <1>11, LeaveHunkStep
<1>12. CASE Finish  BY <1>12, FinishStep
<1>13. CASE Refuse
  <2>1. TypeOK'  BY <1>1, <1>13 DEF Refuse, TypeOK, Stages, inputs, progress, cursors
  <2> QED BY <1>1, <1>13, <2>1, RowsStay DEF Refuse, inputs, cursors, RowsFollow, IInv
<1>14. CASE Render
  <2>1. stage = "aligned" /\ stage' \in {"rendered", "invalid"} /\ UNCHANGED <<inputs, progress, cursors>>
    BY <1>14 DEF Render
  <2>2. TypeOK'  BY <1>1, <2>1 DEF TypeOK, Stages, inputs, progress, cursors
  <2> QED BY <1>1, <2>1, <2>2, RowsStay DEF inputs, cursors, RowsFollow, IInv
<1>16. CASE ParsePatch
  <2>1. TypeOK'  BY <1>1, <1>16 DEF ParsePatch, TypeOK, Stages, inputs, progress, cursors
  <2> QED BY <1>1, <1>16, <2>1, RowsStay DEF ParsePatch, inputs, cursors, RowsFollow, IInv
<1>15. CASE UNCHANGED vars
  <2>1. TypeOK'  BY <1>1, <1>15 DEF vars, TypeOK, inputs, progress, cursors
  <2> QED BY <1>1, <1>15, <2>1, RowsStay DEF vars, inputs, cursors, RowsFollow, IInv
<1> QED BY <1>2, <1>3, <1>4, <1>5, <1>6, <1>7, <1>8, <1>9, <1>10, <1>11, <1>12, <1>13, <1>14, <1>15, <1>16 DEF Next

\* The alignment never leaves its types: the cursors stay within the sources
\* whatever numbers the headers of a patch hold (gitdiff/patch.go:112-205).
THEOREM FileDiffTypeCorrect == Spec => []TypeOK
<1>1. IInv => TypeOK  BY DEF IInv
<1> QED BY <1>1, InitIInv, NextIInv, PTL DEF Spec

\* For all sources and every patch git may print, also of a document that was
\* saved between the two reads: an aligned diff shows each line of both sources
\* once and in order, and its unchanged lines are unchanged.
THEOREM DiffIsComplete == Spec => []RowsAreTheDiff
<1>1. IInv => RowsAreTheDiff  BY DEF IInv, RowsFollow, RowsAreTheDiff
<1> QED BY <1>1, InitIInv, NextIInv, PTL DEF Spec
-----------------------------------------------------------------------------
(***************************************************************************)
(* Functions defined row by row.  What a recursive function of the model    *)
(* holds after k rows is shown by induction on k, which the existence of a  *)
(* least counterexample gives; that the function exists, too.               *)
(***************************************************************************)

LEMMA LeastElement ==
    ASSUME NEW T, T \subseteq Nat, T # {}
    PROVE  \E m \in T : \A k \in T : m <= k
<1> DEFINE R == OpToRel(<, Nat)
<1>1. IsWellFoundedOn(R, Nat)  BY NatLessThanWellFounded
<1>2. \A x, y \in Nat : x < y => <<x, y>> \in R  BY DEF OpToRel
<1> HIDE DEF R
<1>3. PICK m \in T : \A k \in T : ~(<<k, m>> \in R)  BY <1>1, WFMin
<1>4. ASSUME NEW k \in T  PROVE m <= k
  <2>1. m \in Nat /\ k \in Nat  OBVIOUS
  <2>2. ~(k < m)  BY <1>2, <1>3, <2>1
  <2> QED BY <2>1, <2>2
<1> QED BY <1>4

LEMMA Induction ==
    ASSUME NEW n \in Nat, NEW T, 0 \in T, \A k \in 0..(n - 1) : k \in T => k + 1 \in T
    PROVE  0..n \subseteq T
<1> SUFFICES ASSUME ~(0..n \subseteq T) PROVE FALSE  OBVIOUS
<1> DEFINE U == {k \in 0..n : k \notin T}
<1>1. U \subseteq Nat /\ U # {}  OBVIOUS
<1> HIDE DEF U
<1>2. PICK m \in U : \A k \in U : m <= k  BY <1>1, LeastElement
<1>3. m \in 0..n /\ m \notin T /\ m # 0  BY <1>2 DEF U
<1>4. m - 1 \in 0..(n - 1) /\ ~(m <= m - 1)  BY <1>3
<1>5. m - 1 \in T  BY <1>2, <1>4 DEF U
<1> QED BY <1>3, <1>4, <1>5

\* A function over 0..n defined by its first value and a step exists.
Recursive(g, n, a, F) == g[0] = a /\ \A k \in 1..n : g[k] = F[<<k, g[k - 1]>>]

LEMMA RecursionExists ==
    ASSUME NEW n \in Nat, NEW S, NEW a \in S, NEW F \in [(1..n) \X S -> S]
    PROVE  \E g \in [0..n -> S] : Recursive(g, n, a, F)
<1> DEFINE Fits(g, m) == g \in [0..m -> S] /\ g[0] = a /\ \A k \in 1..m : g[k] = F[<<k, g[k - 1]>>]
           T == {m \in 0..n : \E g : Fits(g, m)}
<1>1. 0 \in T
  <2>1. Fits([k \in 0..0 |-> a], 0)  OBVIOUS
  <2> HIDE DEF Fits
  <2> QED BY <2>1
<1>2. ASSUME NEW m \in 0..(n - 1), m \in T  PROVE m + 1 \in T
  <2>1. PICK g : Fits(g, m)  BY <1>2
  <2>2. m + 1 \in 1..n /\ g[m] \in S /\ F[<<m + 1, g[m]>>] \in S  BY <2>1
  <2> DEFINE h == [k \in 0..(m + 1) |-> IF k <= m THEN g[k] ELSE F[<<m + 1, g[m]>>]]
  <2>3. h \in [0..(m + 1) -> S] /\ h[0] = a  BY <2>1, <2>2
  <2>4. ASSUME NEW k \in 1..(m + 1)  PROVE h[k] = F[<<k, h[k - 1]>>]
    <3>1. CASE k <= m  BY <2>1, <3>1
    <3>2. CASE k = m + 1
      <4>1. h[m + 1] = F[<<m + 1, g[m]>>] /\ h[m] = g[m] /\ k - 1 = m  BY <3>2
      <4> HIDE DEF h
      <4> QED BY <3>2, <4>1
    <3> QED BY <3>1, <3>2
  <2>5. Fits(h, m + 1)  BY <2>3, <2>4
  <2>6. m + 1 \in 0..n  BY <2>2
  <2> HIDE DEF h, Fits
  <2> QED BY <2>5, <2>6
<1>3. 0..n \subseteq T
  <2> HIDE DEF T
  <2> QED BY <1>1, <1>2, Induction
<1>4. PICK g : Fits(g, n)  BY <1>3
<1> QED BY <1>4 DEF Recursive

\* c counts the numbers in f, zeros aside.
Counts(c, f, n) ==
    /\ c \in [0..n -> Nat] /\ c[0] = 0
    /\ \A k \in 1..n : (f[k] > 0 => c[k] = c[k - 1] + 1) /\ (~(f[k] > 0) => c[k] = c[k - 1])

Counted(c, f, n, m) ==
    /\ \A k \in 1..n : f[k] > 0 => f[k] = c[k - 1] + 1
    /\ \A k \in 1..n : f[k] <= m
    /\ c[n] = m

\* Numbers in order are numbered by counting them.
LEMMA Counting ==
    ASSUME NEW n \in Nat, NEW m \in Nat, NEW f \in [1..n -> Nat], InOrder(f, 0, m),
           NEW c, Counts(c, f, n)
    PROVE  Counted(c, f, n, m)
<1>0. /\ c \in [0..n -> Nat] /\ c[0] = 0
      /\ \A k \in 1..n : (f[k] > 0 => c[k] = c[k - 1] + 1) /\ (~(f[k] > 0) => c[k] = c[k - 1])
  BY DEF Counts
<1>1. \A k \in 1..n : f[k] <= m /\ (f[k] # 0 => f[k] \in 1..m)
  <2> TAKE k \in 1..n
  <2>1. f[k] \in Nat /\ (f[k] # 0 => f[k] \in {f[j] : j \in DOMAIN f} \ {0})  OBVIOUS
  <2> QED BY <2>1 DEF InOrder
<1>2. \A x \in 1..m : \E k \in 1..n : f[k] = x
  <2>1. (0 + 1)..m = {f[k] : k \in DOMAIN f} \ {0}  BY Zenon DEF InOrder
  <2>2. (0 + 1)..m = 1..m /\ DOMAIN f = 1..n  OBVIOUS
  <2>3. 1..m = {f[k] : k \in DOMAIN f} \ {0}  BY <2>1, <2>2, Zenon
  <2> QED BY <2>2, <2>3
<1>3. \A j, k \in 1..n : j < k /\ f[j] > 0 /\ f[k] > 0 => f[j] < f[k]  BY DEF InOrder
<1> DEFINE Fits(k) == /\ c[k] <= m
                      /\ \A j \in 1..k : f[j] <= c[k]
                      /\ \A x \in 1..c[k] : \E j \in 1..k : f[j] = x
           T == {k \in 0..n : Fits(k)}
<1>4. 0 \in T  BY <1>0
<1>5. ASSUME NEW k \in 0..(n - 1), Fits(k), f[k + 1] > 0  PROVE f[k + 1] = c[k] + 1
  <2> DEFINE v == f[k + 1]
  <2>1. k + 1 \in 1..n /\ v \in 1..m /\ c[k] \in Nat  BY <1>0, <1>1, <1>5
  <2>2. ~(v <= c[k])
    <3> SUFFICES ASSUME v <= c[k] PROVE FALSE  OBVIOUS
    <3>1. PICK j \in 1..k : f[j] = v  BY <1>5, <2>1
    <3>2. j \in 1..n /\ j < k + 1  BY <3>1
    <3> QED BY <1>3, <1>5, <2>1, <3>1, <3>2
  <2>3. ~(v > c[k] + 1)
    <3> SUFFICES ASSUME v > c[k] + 1 PROVE FALSE  OBVIOUS
    <3>1. c[k] + 1 \in 1..m  BY <2>1
    <3>2. PICK j \in 1..n : f[j] = c[k] + 1  BY <1>2, <3>1
    <3>3. CASE j <= k
      <4>1. f[j] <= c[k]  BY <1>5, <3>3
      <4> QED BY <2>1, <3>2, <4>1
    <3>4. CASE j = k + 1  BY <2>1, <3>2, <3>4
    <3>5. CASE j > k + 1
      <4>1. v < f[j]  BY <1>3, <2>1, <3>2, <3>5
      <4> QED BY <2>1, <3>2, <4>1
    <3> QED BY <3>3, <3>4, <3>5
  <2> QED BY <2>1, <2>2, <2>3
<1>6. ASSUME NEW k \in 0..(n - 1), k \in T  PROVE k + 1 \in T
  <2>1. k + 1 \in 1..n /\ c[k] \in Nat /\ Fits(k) /\ (k + 1) - 1 = k  BY <1>0, <1>6
  <2>2. (f[k + 1] > 0 => c[k + 1] = c[k] + 1) /\ (~(f[k + 1] > 0) => c[k + 1] = c[k])  BY <1>0, <2>1
  <2>3. f[k + 1] \in Nat  BY <2>1
  <2>4. CASE f[k + 1] > 0
    <3>1. f[k + 1] = c[k] + 1 /\ c[k + 1] = c[k] + 1  BY <1>5, <2>1, <2>2, <2>4
    <3>2. c[k + 1] <= m  BY <1>1, <2>1, <3>1
    <3>3. \A j \in 1..(k + 1) : f[j] <= c[k + 1]
      <4> TAKE j \in 1..(k + 1)
      <4>1. CASE j = k + 1  BY <2>1, <3>1, <4>1
      <4>2. CASE j # k + 1
        <5>1. j \in 1..k /\ f[j] \in Nat  BY <4>2
        <5>2. f[j] <= c[k]  BY <2>1, <5>1
        <5> QED BY <2>1, <3>1, <5>1, <5>2
      <4> QED BY <4>1, <4>2
    <3>4. \A x \in 1..c[k + 1] : \E j \in 1..(k + 1) : f[j] = x
      <4> TAKE x \in 1..c[k + 1]
      <4>1. x \in 1..c[k] \/ x = c[k] + 1  BY <2>1, <3>1
      <4>2. CASE x \in 1..c[k]
        <5>1. PICK j \in 1..k : f[j] = x  BY <2>1, <4>2
        <5>2. j \in 1..(k + 1)  OBVIOUS
        <5> QED BY <5>1, <5>2
      <4>3. CASE x = c[k] + 1
        <5>1. k + 1 \in 1..(k + 1)  BY <2>1
        <5> QED BY <3>1, <4>3, <5>1
      <4> QED BY <4>1, <4>2, <4>3
    <3> QED BY <2>1, <3>2, <3>3, <3>4
  <2>5. CASE ~(f[k + 1] > 0)
    <3>1. f[k + 1] = 0 /\ c[k + 1] = c[k]  BY <2>1, <2>2, <2>3, <2>5
    <3>2. \A j \in 1..(k + 1) : j \in 1..k \/ j = k + 1  OBVIOUS
    <3>3. \A j \in 1..(k + 1) : f[j] <= c[k + 1]
      <4> TAKE j \in 1..(k + 1)
      <4>1. CASE j \in 1..k  BY <2>1, <3>1, <4>1
      <4>2. CASE j = k + 1  BY <2>1, <3>1, <4>2
      <4> QED BY <3>2, <4>1, <4>2
    <3>4. \A x \in 1..c[k + 1] : \E j \in 1..(k + 1) : f[j] = x
      <4> TAKE x \in 1..c[k + 1]
      <4>1. PICK j \in 1..k : f[j] = x  BY <2>1, <3>1
      <4>2. j \in 1..(k + 1)  OBVIOUS
      <4> QED BY <4>1, <4>2
    <3> QED BY <2>1, <3>1, <3>3, <3>4
  <2> QED BY <2>4, <2>5
<1>7. \A k \in 0..n : Fits(k)
  <2>1. 0..n \subseteq T
    <3> HIDE DEF T
    <3> QED BY <1>4, <1>6, Induction
  <2> QED BY <2>1
<1>8. ASSUME NEW k \in 1..n, f[k] > 0  PROVE f[k] = c[k - 1] + 1
  <2>1. k - 1 \in 0..(n - 1) /\ (k - 1) + 1 = k  OBVIOUS
  <2>2. Fits(k - 1)  BY <1>7, <2>1
  <2> HIDE DEF Fits
  <2> QED BY <1>5, <1>8, <2>1, <2>2
<1>9. c[n] = m
  <2>1. n \in 0..n /\ c[n] \in Nat  BY <1>0
  <2>2. Fits(n)  BY <1>7, <2>1
  <2>3. CASE c[n] < m
    <3>1. PICK j \in 1..n : f[j] = c[n] + 1  BY <1>2, <2>1, <2>3
    <3> QED BY <2>1, <2>2, <3>1
  <2> QED BY <2>1, <2>2, <2>3
<1> QED BY <1>1, <1>8, <1>9 DEF Counted

-----------------------------------------------------------------------------
(***************************************************************************)
(* The renderer reads the rows from the top.  Its recursive functions exist, *)
(* so each of them satisfies its equation.                                 *)
(***************************************************************************)

Step(b) == IF b THEN 1 ELSE 0

LEMMA NextLinesUnfold ==
    ASSUME rows \in Seq(Rows)
    PROVE  /\ NextLines \in [0..Len(rows) -> Nat \X Nat] /\ NextLines[0] = <<1, 1>>
           /\ \A k \in 1..Len(rows) :
                 NextLines[k] = <<NextLines[k - 1][1] + Step(HasOld(rows[k])),
                                  NextLines[k - 1][2] + Step(HasNew(rows[k]))>>
<1> DEFINE n == Len(rows)
           S == Nat \X Nat
           F == [p \in (1..n) \X S |-> <<p[2][1] + Step(HasOld(rows[p[1]])), p[2][2] + Step(HasNew(rows[p[1]]))>>]
<1>1. n \in Nat /\ <<1, 1>> \in S  OBVIOUS
<1>2. F \in [(1..n) \X S -> S]  BY DEF Step
<1>3. PICK g \in [0..n -> S] : Recursive(g, n, <<1, 1>>, F)
  <2> DEFINE a == <<1, 1>>
  <2>1. a \in S  BY <1>1
  <2> HIDE DEF n, S, F, a
  <2>2. \E g \in [0..n -> S] : Recursive(g, n, a, F)  BY <1>1, <1>2, <2>1, RecursionExists
  <2> QED BY <2>2 DEF a
<1>4. \A k \in 1..n : F[<<k, g[k - 1]>>] = <<g[k - 1][1] + Step(HasOld(rows[k])), g[k - 1][2] + Step(HasNew(rows[k]))>>
  <2> TAKE k \in 1..n
  <2>1. k - 1 \in 0..n  BY <1>1
  <2>2. <<k, g[k - 1]>> \in (1..n) \X S  BY <2>1
  <2> QED BY <2>2
<1>5. g = [k \in 0..n |-> IF k = 0 THEN <<1, 1>>
                          ELSE <<g[k - 1][1] + Step(HasOld(rows[k])), g[k - 1][2] + Step(HasNew(rows[k]))>>]
  <2> HIDE DEF F, S
  <2>1. \A k \in 0..n : k = 0 \/ k \in 1..n  BY <1>1
  <2> QED BY <1>3, <1>4, <2>1 DEF Recursive
<1>6. NextLines = [k \in 0..n |-> IF k = 0 THEN <<1, 1>>
                          ELSE <<NextLines[k - 1][1] + Step(HasOld(rows[k])),
                                 NextLines[k - 1][2] + Step(HasNew(rows[k]))>>]
  <2> HIDE DEF F, S
  <2> QED BY <1>5 DEF NextLines, Step
<1>7. NextLines[0] = <<1, 1>> /\ \A k \in 1..n : NextLines[k] = <<NextLines[k - 1][1] + Step(HasOld(rows[k])),
                                                         NextLines[k - 1][2] + Step(HasNew(rows[k]))>>
  <2>1. 0 \in 0..n /\ \A k \in 1..n : k \in 0..n /\ k # 0  BY <1>1
  <2> HIDE DEF n
  <2> QED BY <1>6, <2>1
<1> DEFINE T == {k \in 0..n : NextLines[k] \in S}
<1>8. ASSUME NEW k \in 0..(n - 1), k \in T  PROVE k + 1 \in T
  <2>1. k + 1 \in 1..n /\ (k + 1) - 1 = k /\ NextLines[k] \in S  BY <1>1, <1>8
  <2>2. NextLines[k + 1] = <<NextLines[k][1] + Step(HasOld(rows[k + 1])), NextLines[k][2] + Step(HasNew(rows[k + 1]))>>
    BY <1>7, <2>1
  <2>3. NextLines[k + 1] \in S  BY <2>1, <2>2 DEF Step
  <2> QED BY <2>1, <2>3
<1>9. 0..n \subseteq T
  <2>1. 0 \in T  BY <1>1, <1>7
  <2> HIDE DEF T, n
  <2> QED BY <1>1, <1>8, <2>1, Induction
<1>10. NextLines \in [0..n -> S]
  <2>1. \A k \in 0..n : NextLines[k] \in S  BY <1>9
  <2> HIDE DEF S, n
  <2> QED BY <1>6, <2>1
<1> QED BY <1>7, <1>10

LEMMA LinesThroughUnfold ==
    ASSUME rows \in Seq(Rows)
    PROVE  /\ LinesThrough \in [0..Len(rows) -> Seq(Nat)] /\ LinesThrough[0] = <<>>
           /\ \A k \in 1..Len(rows) :
                 LinesThrough[k] = IF rows[k].new > 0 THEN Append(LinesThrough[k - 1], rows[k].new)
                                   ELSE LinesThrough[k - 1]
<1> DEFINE n == Len(rows)
           S == Seq(Nat)
           F == [p \in (1..n) \X S |-> IF rows[p[1]].new > 0 THEN Append(p[2], rows[p[1]].new) ELSE p[2]]
<1>1. n \in Nat /\ <<>> \in S  OBVIOUS
<1>2. \A k \in 1..n : rows[k].new \in Nat
  <2>1. \A k \in 1..n : rows[k] \in Rows  OBVIOUS
  <2> QED BY <2>1 DEF Rows
<1>3. F \in [(1..n) \X S -> S]
  <2>1. \A p \in (1..n) \X S : p[1] \in 1..n /\ p[2] \in Seq(Nat)  OBVIOUS
  <2>2. \A p \in (1..n) \X S : (IF rows[p[1]].new > 0 THEN Append(p[2], rows[p[1]].new) ELSE p[2]) \in S
    BY <1>2, <2>1
  <2> QED BY <2>2
<1>4. PICK g \in [0..n -> S] : Recursive(g, n, <<>>, F)
  <2> DEFINE a == <<>>
  <2>1. a \in S  BY <1>1
  <2> HIDE DEF n, S, F, a
  <2>2. \E g \in [0..n -> S] : Recursive(g, n, a, F)  BY <1>1, <1>3, <2>1, RecursionExists
  <2> QED BY <2>2 DEF a
<1>5. \A k \in 1..n : F[<<k, g[k - 1]>>] = IF rows[k].new > 0 THEN Append(g[k - 1], rows[k].new) ELSE g[k - 1]
  <2> TAKE k \in 1..n
  <2>1. k - 1 \in 0..n  BY <1>1
  <2> HIDE DEF S
  <2>2. <<k, g[k - 1]>> \in (1..n) \X S  BY <2>1
  <2> QED BY <2>2
<1>6. g = [k \in 0..n |-> IF k = 0 THEN <<>>
                          ELSE IF rows[k].new > 0 THEN Append(g[k - 1], rows[k].new) ELSE g[k - 1]]
  <2> HIDE DEF F, S
  <2>1. \A k \in 0..n : k = 0 \/ k \in 1..n  BY <1>1
  <2> QED BY <1>4, <1>5, <2>1 DEF Recursive
<1>7. LinesThrough =
        [k \in 0..n |-> IF k = 0 THEN <<>>
                        ELSE IF rows[k].new > 0 THEN Append(LinesThrough[k - 1], rows[k].new)
                        ELSE LinesThrough[k - 1]]
  <2> HIDE DEF F, S
  <2> QED BY <1>6 DEF LinesThrough
<1>8. /\ LinesThrough[0] = <<>>
      /\ \A k \in 1..n : LinesThrough[k] = IF rows[k].new > 0 THEN Append(LinesThrough[k - 1], rows[k].new)
                                           ELSE LinesThrough[k - 1]
  <2>1. 0 \in 0..n /\ \A k \in 1..n : k \in 0..n /\ k # 0  BY <1>1
  <2> HIDE DEF n
  <2> QED BY <1>7, <2>1
<1> DEFINE T == {k \in 0..n : LinesThrough[k] \in S}
<1>9. ASSUME NEW k \in 0..(n - 1), k \in T  PROVE k + 1 \in T
  <2>1. k + 1 \in 1..n /\ (k + 1) - 1 = k /\ LinesThrough[k] \in S  BY <1>1, <1>9
  <2>2. LinesThrough[k + 1] = IF rows[k + 1].new > 0 THEN Append(LinesThrough[k], rows[k + 1].new)
                              ELSE LinesThrough[k]
    BY <1>8, <2>1
  <2>3. LinesThrough[k + 1] \in S  BY <1>2, <2>1, <2>2
  <2> QED BY <2>1, <2>3
<1>10. 0..n \subseteq T
  <2>1. 0 \in T
    <3>1. LinesThrough[0] \in S  BY <1>1, <1>8
    <3> HIDE DEF S
    <3> QED BY <1>1, <3>1
  <2> HIDE DEF T, n
  <2> QED BY <1>1, <1>9, <2>1, Induction
<1>11. LinesThrough \in [0..n -> S]
  <2>1. \A k \in 0..n : LinesThrough[k] \in S  BY <1>10
  <2> HIDE DEF S, n
  <2> QED BY <1>7, <2>1
<1> QED BY <1>8, <1>11

\* When the rows show the first m lines in order, the lines that can be selected
\* are 1, 2, ... m.
LEMMA SelectableLines ==
    ASSUME rows \in Seq(Rows), NEW m \in Nat, InOrder(NewNumbers(rows), 0, m)
    PROVE  DiffSourceMap = [i \in 1..m |-> i]
<1> DEFINE n == Len(rows)
           f == NewNumbers(rows)
           c == [k \in 0..n |-> Len(LinesThrough[k])]
<1>1. n \in Nat /\ f \in [1..n -> Nat] /\ \A k \in 1..n : f[k] = rows[k].new
  <2>1. \A k \in 1..n : rows[k] \in Rows  OBVIOUS
  <2> QED BY <2>1 DEF NewNumbers, Rows
<1>2. /\ \A k \in 0..n : LinesThrough[k] \in Seq(Nat)
      /\ LinesThrough[0] = <<>>
      /\ \A k \in 1..n : LinesThrough[k] = IF rows[k].new > 0 THEN Append(LinesThrough[k - 1], rows[k].new)
                                           ELSE LinesThrough[k - 1]
  BY LinesThroughUnfold
<1>3. c \in [0..n -> Nat] /\ c[0] = 0
  <2>1. \A k \in 0..n : Len(LinesThrough[k]) \in Nat  BY <1>2
  <2>2. Len(LinesThrough[0]) = 0 /\ 0 \in 0..n  BY <1>1, <1>2
  <2> QED BY <2>1, <2>2
<1>4. ASSUME NEW k \in 1..n
      PROVE  (f[k] > 0 => c[k] = c[k - 1] + 1) /\ (~(f[k] > 0) => c[k] = c[k - 1])
  <2>1. k \in 0..n /\ k - 1 \in 0..n  BY <1>1
  <2>2. c[k] = Len(LinesThrough[k]) /\ c[k - 1] = Len(LinesThrough[k - 1])  BY <2>1
  <2>3. LinesThrough[k - 1] \in Seq(Nat)  BY <1>2, <2>1
  <2>4. f[k] = rows[k].new /\ f[k] \in Nat  BY <1>1
  <2>5. /\ f[k] > 0 => LinesThrough[k] = Append(LinesThrough[k - 1], f[k])
        /\ ~(f[k] > 0) => LinesThrough[k] = LinesThrough[k - 1]
    BY <1>2, <2>4
  <2> HIDE DEF c, f, n
  <2> QED BY <2>2, <2>3, <2>4, <2>5
<1>5. (\A k \in 1..n : f[k] > 0 => f[k] = c[k - 1] + 1) /\ c[n] = m
  <2>1. InOrder(f, 0, m)  OBVIOUS
  <2> HIDE DEF n, f, c
  <2>2. Counts(c, f, n)  BY <1>3, <1>4 DEF Counts
  <2>3. Counted(c, f, n, m)  BY <1>1, <2>1, <2>2, Counting
  <2> QED BY <2>3 DEF Counted
<1> DEFINE T == {k \in 0..n : \A i \in 1..Len(LinesThrough[k]) : LinesThrough[k][i] = i}
<1>6. 0 \in T  BY <1>1, <1>2
<1>7. ASSUME NEW k \in 0..(n - 1), k \in T  PROVE k + 1 \in T
  <2> DEFINE s == LinesThrough[k]
             t == LinesThrough[k + 1]
  <2>1. k + 1 \in 1..n /\ (k + 1) - 1 = k /\ k \in 0..n /\ k + 1 \in 0..n  BY <1>1
  <2>2. s \in Seq(Nat) /\ \A i \in 1..Len(s) : s[i] = i  BY <1>2, <1>7, <2>1
  <2>3. t = IF f[k + 1] > 0 THEN Append(s, f[k + 1]) ELSE s  BY <1>1, <1>2, <2>1
  <2>4. f[k + 1] > 0 => f[k + 1] = Len(s) + 1
    <3>1. c[k] = Len(s)  BY <2>1
    <3> HIDE DEF c
    <3> QED BY <1>5, <2>1, <3>1
  <2>5. f[k + 1] \in Nat  BY <1>1, <2>1
  <2> HIDE DEF s, t, f
  <2>6. \A i \in 1..Len(t) : t[i] = i
    <3>1. CASE f[k + 1] > 0
      <4>1. t = Append(s, Len(s) + 1) /\ Len(t) = Len(s) + 1  BY <2>2, <2>3, <2>4, <2>5, <3>1
      <4>2. \A i \in 1..Len(t) : i \in 1..Len(s) \/ i = Len(s) + 1  BY <2>2, <4>1
      <4> QED BY <2>2, <4>1, <4>2
    <3>2. CASE ~(f[k + 1] > 0)  BY <2>2, <2>3, <3>2
    <3> QED BY <3>1, <3>2
  <2> QED BY <2>1, <2>6 DEF t
<1>8. 0..n \subseteq T
  <2> HIDE DEF T, n
  <2> QED BY <1>1, <1>6, <1>7, Induction
<1>9. /\ DiffSourceMap \in Seq(Nat) /\ Len(DiffSourceMap) = m
      /\ \A i \in 1..m : DiffSourceMap[i] = i
  <2>1. n \in 0..n /\ n \in T  BY <1>1, <1>8
  <2>2. c[n] = Len(DiffSourceMap) /\ DiffSourceMap \in Seq(Nat)  BY <1>2, <2>1 DEF DiffSourceMap
  <2>3. \A i \in 1..Len(DiffSourceMap) : DiffSourceMap[i] = i  BY <2>1 DEF DiffSourceMap
  <2> HIDE DEF c, T
  <2> QED BY <1>5, <2>2, <2>3
<1> QED BY <1>9

\* validateDiffRows accepts rows that show both sources.
LEMMA RowsAreValid ==
    ASSUME rows \in Seq(Rows), RowsAreHonest, Len(base) \in Nat, Len(current) \in Nat,
           ShowsBase(Len(base)), ShowsCurrent(Len(current))
    PROVE  ValidateDiffRows
<1> DEFINE n == Len(rows)
           N == NextLines
           f == OldNumbers(rows)
           g == NewNumbers(rows)
           c == [k \in 0..n |-> N[k][1] - 1]
           d == [k \in 0..n |-> N[k][2] - 1]
<1>1. /\ n \in Nat /\ f \in [1..n -> Nat] /\ g \in [1..n -> Nat]
      /\ \A k \in 1..n : f[k] = rows[k].old /\ g[k] = rows[k].new
  <2>1. \A k \in 1..n : rows[k] \in Rows  OBVIOUS
  <2> QED BY <2>1 DEF OldNumbers, NewNumbers, Rows
<1>2. \A k \in 1..n : (f[k] > 0 <=> HasOld(rows[k])) /\ (g[k] > 0 <=> HasNew(rows[k]))
  BY <1>1 DEF RowsAreHonest, Honest
<1>3. /\ N \in [0..n -> Nat \X Nat] /\ N[0] = <<1, 1>>
      /\ \A k \in 1..n : N[k] = <<N[k - 1][1] + Step(HasOld(rows[k])), N[k - 1][2] + Step(HasNew(rows[k]))>>
  BY NextLinesUnfold
<1> HIDE DEF n, N, f, g
<1>4. \A k \in 0..n : N[k][1] \in Nat /\ N[k][2] \in Nat  BY <1>3
<1>5. ASSUME NEW k \in 1..n
      PROVE  /\ k \in 0..n /\ k - 1 \in 0..n
             /\ f[k] > 0 => N[k][1] = N[k - 1][1] + 1
             /\ ~(f[k] > 0) => N[k][1] = N[k - 1][1]
             /\ g[k] > 0 => N[k][2] = N[k - 1][2] + 1
             /\ ~(g[k] > 0) => N[k][2] = N[k - 1][2]
  <2>1. k \in 0..n /\ k - 1 \in 0..n  BY <1>1
  <2>2. N[k - 1][1] \in Nat /\ N[k - 1][2] \in Nat  BY <1>4, <2>1
  <2>3. N[k][1] = N[k - 1][1] + Step(HasOld(rows[k])) /\ N[k][2] = N[k - 1][2] + Step(HasNew(rows[k]))
    BY <1>3
  <2>4. /\ f[k] > 0 => Step(HasOld(rows[k])) = 1
        /\ ~(f[k] > 0) => Step(HasOld(rows[k])) = 0
        /\ g[k] > 0 => Step(HasNew(rows[k])) = 1
        /\ ~(g[k] > 0) => Step(HasNew(rows[k])) = 0
    BY <1>2 DEF Step
  <2> QED BY <2>1, <2>2, <2>3, <2>4
<1> DEFINE T == {k \in 0..n : N[k][1] > 0 /\ N[k][2] > 0}
<1>6. \A k \in 0..n : N[k][1] > 0 /\ N[k][2] > 0
  <2>1. 0 \in T  BY <1>1, <1>3
  <2>2. ASSUME NEW k \in 0..(n - 1), k \in T  PROVE k + 1 \in T
    <3>1. k + 1 \in 1..n /\ (k + 1) - 1 = k /\ k + 1 \in 0..n /\ k \in 0..n  BY <1>1
    <3>2. /\ N[k + 1][1] = N[k][1] + 1 \/ N[k + 1][1] = N[k][1]
          /\ N[k + 1][2] = N[k][2] + 1 \/ N[k + 1][2] = N[k][2]
      BY <1>5, <3>1
    <3>3. N[k][1] \in Nat /\ N[k][2] \in Nat /\ N[k][1] > 0 /\ N[k][2] > 0  BY <1>4, <2>2
    <3>4. N[k + 1][1] > 0 /\ N[k + 1][2] > 0  BY <3>2, <3>3
    <3> QED BY <3>1, <3>4
  <2>3. 0..n \subseteq T
    <3> HIDE DEF T
    <3> QED BY <1>1, <2>1, <2>2, Induction
  <2> QED BY <2>3
<1> HIDE DEF T
<1>7. Counts(c, f, n) /\ Counts(d, g, n)
  <2>1. c \in [0..n -> Nat] /\ d \in [0..n -> Nat]  BY <1>4, <1>6
  <2>2. c[0] = 0 /\ d[0] = 0  BY <1>1, <1>3
  <2>3. \A k \in 0..n : c[k] = N[k][1] - 1 /\ d[k] = N[k][2] - 1  OBVIOUS
  <2> HIDE DEF c, d
  <2>4. ASSUME NEW k \in 1..n
        PROVE  /\ (f[k] > 0 => c[k] = c[k - 1] + 1) /\ (~(f[k] > 0) => c[k] = c[k - 1])
               /\ (g[k] > 0 => d[k] = d[k - 1] + 1) /\ (~(g[k] > 0) => d[k] = d[k - 1])
    <3>1. k \in 0..n /\ k - 1 \in 0..n  BY <1>1
    <3>2. /\ c[k] = N[k][1] - 1 /\ d[k] = N[k][2] - 1
          /\ c[k - 1] = N[k - 1][1] - 1 /\ d[k - 1] = N[k - 1][2] - 1
      BY <2>3, <3>1
    <3>3. N[k - 1][1] \in Nat /\ N[k - 1][2] \in Nat  BY <1>4, <3>1
    <3>4. /\ f[k] > 0 => N[k][1] = N[k - 1][1] + 1
          /\ ~(f[k] > 0) => N[k][1] = N[k - 1][1]
          /\ g[k] > 0 => N[k][2] = N[k - 1][2] + 1
          /\ ~(g[k] > 0) => N[k][2] = N[k - 1][2]
      BY <1>5
    <3>5. N[k][1] \in Nat /\ N[k][2] \in Nat /\ f[k] \in Nat /\ g[k] \in Nat  BY <1>1, <1>4, <3>1
    <3>6. /\ N[k][1] = N[k - 1][1] + 1 => c[k] = c[k - 1] + 1
          /\ N[k][1] = N[k - 1][1] => c[k] = c[k - 1]
          /\ N[k][2] = N[k - 1][2] + 1 => d[k] = d[k - 1] + 1
          /\ N[k][2] = N[k - 1][2] => d[k] = d[k - 1]
      <4> DEFINE o == N[k][1]
                 p == N[k - 1][1]
                 q == N[k][2]
                 r == N[k - 1][2]
      <4>1. o \in Nat /\ p \in Nat /\ q \in Nat /\ r \in Nat  BY <3>3, <3>5
      <4>2. c[k] = o - 1 /\ c[k - 1] = p - 1 /\ d[k] = q - 1 /\ d[k - 1] = r - 1  BY <3>2
      <4> HIDE DEF o, p, q, r
      <4>3. /\ o = p + 1 => c[k] = c[k - 1] + 1
            /\ o = p => c[k] = c[k - 1]
            /\ q = r + 1 => d[k] = d[k - 1] + 1
            /\ q = r => d[k] = d[k - 1]
        BY <4>1, <4>2
      <4> QED BY <4>3 DEF o, p, q, r
    <3>7. /\ f[k] > 0 => c[k] = c[k - 1] + 1
          /\ ~(f[k] > 0) => c[k] = c[k - 1]
      BY <3>4, <3>6, Zenon
    <3>8. /\ g[k] > 0 => d[k] = d[k - 1] + 1
          /\ ~(g[k] > 0) => d[k] = d[k - 1]
      BY <3>4, <3>6, Zenon
    <3> QED BY <3>7, <3>8
  <2> QED BY <2>1, <2>2, <2>4 DEF Counts
<1>8. InOrder(f, 0, Len(base)) /\ InOrder(g, 0, Len(current))
  BY DEF ShowsBase, ShowsCurrent, f, g
<1>9. \A k \in 0..n : c[k] = N[k][1] - 1 /\ d[k] = N[k][2] - 1  OBVIOUS
<1> HIDE DEF c, d
<1>10. Counted(c, f, n, Len(base)) /\ Counted(d, g, n, Len(current))
  BY <1>1, <1>7, <1>8, Counting
<1>11. ASSUME NEW k \in 1..n
       PROVE  /\ f[k] > 0 => f[k] = N[k - 1][1]
              /\ g[k] > 0 => g[k] = N[k - 1][2]
              /\ g[k] <= Len(current)
  <2>1. k - 1 \in 0..n  BY <1>1
  <2>2. c[k - 1] = N[k - 1][1] - 1 /\ d[k - 1] = N[k - 1][2] - 1 /\ N[k - 1][1] \in Nat /\ N[k - 1][2] \in Nat
    BY <1>4, <1>9, <2>1
  <2>3. (f[k] > 0 => f[k] = c[k - 1] + 1) /\ (g[k] > 0 => g[k] = d[k - 1] + 1) /\ g[k] <= Len(current)
    BY <1>10 DEF Counted
  <2> QED BY <2>2, <2>3
<1>12. N[n][2] = Len(current) + 1
  <2>1. n \in 0..n /\ d[n] = N[n][2] - 1 /\ N[n][2] \in Nat  BY <1>1, <1>4, <1>9
  <2>2. d[n] = Len(current)  BY <1>10 DEF Counted
  <2> QED BY <2>1, <2>2
<1>13. ASSUME NEW k \in DOMAIN rows
       PROVE  /\ rows[k].old = IF HasOld(rows[k]) THEN N[k - 1][1] ELSE 0
              /\ rows[k].new = IF HasNew(rows[k]) THEN N[k - 1][2] ELSE 0
              /\ rows[k].new <= Len(current)
  <2>1. k \in 1..n  BY DEF n
  <2>2. f[k] \in Nat /\ g[k] \in Nat /\ f[k] = rows[k].old /\ g[k] = rows[k].new  BY <1>1, <2>1
  <2>3. (f[k] > 0 <=> HasOld(rows[k])) /\ (g[k] > 0 <=> HasNew(rows[k]))  BY <1>2, <2>1
  <2>4. /\ f[k] > 0 => f[k] = N[k - 1][1]
        /\ g[k] > 0 => g[k] = N[k - 1][2]
        /\ g[k] <= Len(current)
    BY <1>11, <2>1
  <2> QED BY <2>2, <2>3, <2>4
<1> QED BY <1>12, <1>13 DEF ValidateDiffRows, n, N

RendererFollows == stage # "invalid"

LEMMA RendererStep == IInv /\ RendererFollows /\ [Next]_vars => RendererFollows'
<1> SUFFICES ASSUME IInv, RendererFollows, [Next]_vars, stage' = "invalid" PROVE FALSE  BY DEF RendererFollows
<1>1. Render /\ ~ValidateDiffRows
  BY DEF Next, RendererFollows, EditWorktree, ReadPatch, GitFails, ParsePatch, Skip, EnterHunk, NoNewline, Deleted,
         Added, Context, Consume, LeaveHunk, Finish, Refuse, Render, vars
<1>2. TypeOK /\ RowsFollow /\ stage = "aligned"  BY <1>1 DEF IInv, Render
<1>3. ShowsBase(Len(base)) /\ ShowsCurrent(Len(current)) /\ RowsAreHonest  BY <1>2 DEF RowsFollow
<1>4. rows \in Seq(Rows) /\ Len(base) \in Nat /\ Len(current) \in Nat  BY <1>2, SourcesAreLines DEF TypeOK
<1> QED BY <1>1, <1>3, <1>4, RowsAreValid

\* The renderer's check never turns an aligned diff down, and the lines that can be
\* selected are the lines of the document, for all sources and patches: so page and
\* viewer state agree on them, whatever base either of them compares with.
THEOREM RendererAcceptsTheRows == Spec => []RendererAgrees
<1>1. Init => RendererFollows  BY DEF Init, RendererFollows
<1>2. IInv /\ RendererFollows => RendererAgrees
  <2> SUFFICES ASSUME IInv, stage = "rendered" PROVE DiffSourceMap = [i \in 1..Len(current) |-> i]
    BY DEF RendererAgrees, RendererFollows
  <2>1. TypeOK /\ ShowsCurrent(Len(current))  BY DEF IInv, RowsFollow
  <2>2. rows \in Seq(Rows) /\ Len(current) \in Nat /\ InOrder(NewNumbers(rows), 0, Len(current))
    BY <2>1, SourcesAreLines DEF TypeOK, ShowsCurrent
  <2> QED BY <2>2, SelectableLines
<1> QED BY <1>1, <1>2, InitIInv, NextIInv, RendererStep, PTL DEF Spec

-----------------------------------------------------------------------------
(***************************************************************************)
(* The overview: the changes it derives are the runs of changed rows.      *)
(***************************************************************************)

Hunks == [first : Nat, last : Nat, kind : Kinds]
Grown(h, k) == [h EXCEPT !.last = k, !.kind = IF @ = rows[k].kind THEN @ ELSE "modified"]
NextHunks(s, k) ==
    IF rows[k].kind = "unchanged" THEN s
    ELSE IF Len(s) > 0 /\ s[Len(s)].last = k - 1 THEN [s EXCEPT ![Len(s)] = Grown(@, k)]
    ELSE Append(s, [first |-> k, last |-> k, kind |-> rows[k].kind])

LEMMA RowKinds ==
    ASSUME rows \in Seq(Rows), NEW k \in 1..Len(rows)
    PROVE  rows[k].kind \in Kinds
<1>1. rows[k] \in Rows  OBVIOUS
<1> QED BY <1>1 DEF Rows

\* What a further row makes of a change it belongs to.
LEMMA GrownHunk ==
    ASSUME rows \in Seq(Rows), NEW k \in 1..Len(rows), NEW h \in Hunks
    PROVE  /\ Grown(h, k) \in Hunks
           /\ Grown(h, k).first = h.first /\ Grown(h, k).last = k
           /\ Grown(h, k).kind = "deleted" => h.kind = "deleted" /\ rows[k].kind = "deleted"
<1>1. rows[k].kind \in Kinds /\ "modified" \in Kinds  BY RowKinds DEF Kinds
<1>2. h = [first |-> h.first, last |-> h.last, kind |-> h.kind] /\ h.first \in Nat /\ h.kind \in Kinds
  BY DEF Hunks
<1> DEFINE x == IF h.kind = rows[k].kind THEN h.kind ELSE "modified"
<1>3. x \in Kinds /\ (x = "deleted" => h.kind = "deleted" /\ rows[k].kind = "deleted")  BY <1>1, <1>2
<1>4. Grown(h, k) = [[h EXCEPT !.last = k] EXCEPT !.kind = x]  BY Zenon DEF Grown
<1> DEFINE a == h.first
           b == h.last
           c == h.kind
<1>5. h = [first |-> a, last |-> b, kind |-> c]  BY <1>2
<1> HIDE DEF x, a, b, c
<1>6. Grown(h, k) = [first |-> a, last |-> k, kind |-> x]  BY <1>4, <1>5
<1>7. Grown(h, k) = [first |-> h.first, last |-> k, kind |-> x]  BY <1>6 DEF a
<1> QED BY <1>2, <1>3, <1>7 DEF Hunks

LEMMA NextHunksType ==
    ASSUME rows \in Seq(Rows), NEW k \in 1..Len(rows), NEW s \in Seq(Hunks)
    PROVE  NextHunks(s, k) \in Seq(Hunks)
<1>1. CASE rows[k].kind = "unchanged"  BY <1>1 DEF NextHunks
<1>2. CASE rows[k].kind # "unchanged" /\ Len(s) > 0 /\ s[Len(s)].last = k - 1
  <2> DEFINE h == Grown(s[Len(s)], k)
  <2>1. h \in Hunks  BY <1>2, GrownHunk
  <2>2. NextHunks(s, k) = [s EXCEPT ![Len(s)] = h]  BY <1>2 DEF NextHunks
  <2> HIDE DEF h
  <2>3. Len(s) \in 1..Len(s)  BY <1>2
  <2>4. [s EXCEPT ![Len(s)] = h] \in Seq(Hunks)  BY <2>1, <2>3, ExceptSeq
  <2> QED BY <2>2, <2>4
<1>3. CASE rows[k].kind # "unchanged" /\ ~(Len(s) > 0 /\ s[Len(s)].last = k - 1)
  <2>1. [first |-> k, last |-> k, kind |-> rows[k].kind] \in Hunks  BY RowKinds DEF Hunks
  <2>2. NextHunks(s, k) = Append(s, [first |-> k, last |-> k, kind |-> rows[k].kind])
    BY <1>3 DEF NextHunks
  <2> QED BY <2>1, <2>2
<1> QED BY <1>1, <1>2, <1>3

LEMMA HunksThroughUnfold ==
    ASSUME rows \in Seq(Rows)
    PROVE  /\ HunksThrough[0] = <<>>
           /\ \A k \in 1..Len(rows) : HunksThrough[k] = NextHunks(HunksThrough[k - 1], k)
<1> DEFINE n == Len(rows)
           S == Seq(Hunks)
           F == [p \in (1..n) \X S |-> NextHunks(p[2], p[1])]
<1>1. n \in Nat /\ <<>> \in S  OBVIOUS
<1>2. F \in [(1..n) \X S -> S]
  <2>1. \A k \in 1..n, s \in S : NextHunks(s, k) \in S  BY NextHunksType
  <2> HIDE DEF S, n
  <2> QED BY <2>1
<1>3. PICK g \in [0..n -> S] : Recursive(g, n, <<>>, F)
  <2> DEFINE a == <<>>
  <2>1. a \in S  BY <1>1
  <2> HIDE DEF n, S, F, a
  <2>2. \E g \in [0..n -> S] : Recursive(g, n, a, F)  BY <1>1, <1>2, <2>1, RecursionExists
  <2> QED BY <2>2 DEF a
<1>4. \A k \in 1..n : F[<<k, g[k - 1]>>] = NextHunks(g[k - 1], k)
  <2> TAKE k \in 1..n
  <2>1. k - 1 \in 0..n  BY <1>1
  <2> HIDE DEF S
  <2>2. <<k, g[k - 1]>> \in (1..n) \X S  BY <2>1
  <2> QED BY <2>2
<1>5. g = [k \in 0..n |-> IF k = 0 THEN <<>> ELSE NextHunks(g[k - 1], k)]
  <2> HIDE DEF F, S
  <2>1. \A k \in 0..n : k = 0 \/ k \in 1..n  BY <1>1
  <2> QED BY <1>3, <1>4, <2>1 DEF Recursive
<1>6. HunksThrough = [k \in 0..n |-> IF k = 0 THEN <<>> ELSE NextHunks(HunksThrough[k - 1], k)]
  <2> HIDE DEF F, S
  <2> QED BY <1>5 DEF HunksThrough, NextHunks, Grown
<1>7. 0 \in 0..n /\ \A k \in 1..n : k \in 0..n /\ k # 0  BY <1>1
<1> HIDE DEF n
<1>8. HunksThrough[0] = <<>> /\ \A k \in 1..n : HunksThrough[k] = NextHunks(HunksThrough[k - 1], k)
  BY <1>6, <1>7
<1> QED BY <1>8 DEF n

\* h is a maximal run of changed rows among the first k.
IsRun(h, k) ==
    /\ h \in Hunks /\ 1 <= h.first /\ h.first <= h.last /\ h.last <= k
    /\ \A j \in h.first..h.last : rows[j].kind # "unchanged"
    /\ h.kind = "deleted" => \A j \in h.first..h.last : rows[j].kind = "deleted"
    /\ h.first > 1 => rows[h.first - 1].kind = "unchanged"
    /\ h.last < k => rows[h.last + 1].kind = "unchanged"
Apart(s) == \A m, n \in 1..Len(s) : m < n => s[m].last + 1 < s[n].first
Covered(s, k) ==
    \A j \in 1..k : rows[j].kind # "unchanged" => \E n \in 1..Len(s) : j \in s[n].first..s[n].last
AreRuns(s, k) == s \in Seq(Hunks) /\ (\A n \in 1..Len(s) : IsRun(s[n], k)) /\ Apart(s) /\ Covered(s, k)

\* One more row behind a change that ends before it.
LEMMA RunStays ==
    ASSUME NEW k \in Nat, NEW h, IsRun(h, k), h.last < k \/ rows[k + 1].kind = "unchanged"
    PROVE  IsRun(h, k + 1)
<1>1. h.first \in Nat /\ h.last \in Nat  BY DEF IsRun, Hunks
<1>2. h.last < k + 1 => rows[h.last + 1].kind = "unchanged"
  <2>1. CASE h.last < k  BY <2>1 DEF IsRun
  <2>2. CASE ~(h.last < k)
    <3>1. h.last = k /\ rows[k + 1].kind = "unchanged"  BY <1>1, <2>2 DEF IsRun
    <3> QED BY <3>1
  <2> QED BY <2>1, <2>2
<1>3. h.last <= k + 1  BY <1>1 DEF IsRun
<1> QED BY <1>2, <1>3 DEF IsRun

LEMMA RunsStep ==
    ASSUME rows \in Seq(Rows), NEW k \in 0..(Len(rows) - 1), NEW s, AreRuns(s, k)
    PROVE  AreRuns(NextHunks(s, k + 1), k + 1)
<1> DEFINE L == Len(s)
<1>1. /\ k \in Nat /\ k + 1 \in 1..Len(rows) /\ (k + 1) - 1 = k
      /\ s \in Seq(Hunks) /\ L \in Nat
  BY DEF AreRuns
<1>2. /\ \A n \in 1..L : IsRun(s[n], k)
      /\ \A n \in 1..L : s[n].first \in Nat /\ s[n].last \in Nat /\ s[n].first <= s[n].last /\ s[n].last <= k
      /\ \A m, n \in 1..L : m < n => s[m].last + 1 < s[n].first
  BY DEF AreRuns, Apart, IsRun, Hunks
<1>3. \A j \in 1..k : rows[j].kind # "unchanged" => \E n \in 1..L : j \in s[n].first..s[n].last
  BY DEF AreRuns, Covered
<1>4. CASE rows[k + 1].kind = "unchanged"
  <2>1. NextHunks(s, k + 1) = s  BY <1>4 DEF NextHunks
  <2>2. \A n \in 1..L : IsRun(s[n], k + 1)  BY <1>1, <1>2, <1>4, RunStays
  <2>3. Covered(s, k + 1)
    <3>1. \A j \in 1..(k + 1) : j \in 1..k \/ j = k + 1  BY <1>1
    <3> QED BY <1>3, <1>4, <3>1 DEF Covered
  <2> QED BY <2>1, <2>2, <2>3 DEF AreRuns
<1>5. CASE rows[k + 1].kind # "unchanged" /\ L > 0 /\ s[L].last = k
  <2> DEFINE h == Grown(s[L], k + 1)
             t == [s EXCEPT ![L] = h]
  <2>1. NextHunks(s, k + 1) = t  BY <1>1, <1>5 DEF NextHunks
  <2>2. L \in 1..L /\ s[L] \in Hunks /\ IsRun(s[L], k)  BY <1>1, <1>2, <1>5
  <2>3. /\ h \in Hunks /\ h.first = s[L].first /\ h.last = k + 1
        /\ h.kind = "deleted" => s[L].kind = "deleted" /\ rows[k + 1].kind = "deleted"
    BY <1>1, <2>2, GrownHunk
  <2> HIDE DEF h
  <2>4. /\ t \in Seq(Hunks) /\ Len(t) = L /\ t[L] = h
        /\ \A n \in 1..L : n # L => t[n] = s[n]
    BY <1>1, <2>2, <2>3
  <2> HIDE DEF t
  <2>5. \A j \in h.first..h.last : j \in s[L].first..s[L].last \/ j = k + 1
    BY <1>1, <1>2, <1>5, <2>2, <2>3
  <2>6. IsRun(h, k + 1)
    <3>1. 1 <= h.first /\ h.first <= h.last /\ h.last <= k + 1  BY <1>1, <1>2, <2>2, <2>3 DEF IsRun
    <3>2. \A j \in h.first..h.last : rows[j].kind # "unchanged"  BY <1>5, <2>2, <2>5 DEF IsRun
    <3>3. h.kind = "deleted" => \A j \in h.first..h.last : rows[j].kind = "deleted"
      BY <2>2, <2>3, <2>5 DEF IsRun
    <3>4. h.first > 1 => rows[h.first - 1].kind = "unchanged"  BY <2>2, <2>3 DEF IsRun
    <3>5. ~(h.last < k + 1)  BY <1>1, <2>3
    <3> QED BY <2>3, <3>1, <3>2, <3>3, <3>4, <3>5 DEF IsRun
  <2>7. ASSUME NEW n \in 1..L  PROVE IsRun(t[n], k + 1)
    <3>1. CASE n = L  BY <2>4, <2>6, <3>1
    <3>2. CASE n # L
      <4>1. n < L  BY <1>1, <3>2
      <4>2. s[n].last < k  BY <1>1, <1>2, <2>2, <4>1
      <4>3. IsRun(s[n], k + 1)  BY <1>1, <1>2, <4>2, RunStays
      <4> QED BY <2>4, <3>2, <4>3
    <3> QED BY <3>1, <3>2
  <2>8. Apart(t)
    <3> SUFFICES ASSUME NEW m \in 1..L, NEW n \in 1..L, m < n PROVE t[m].last + 1 < t[n].first
      BY <2>4 DEF Apart
    <3>1. m # L  BY <1>1
    <3>2. t[m] = s[m] /\ t[n].first = s[n].first  BY <2>3, <2>4, <3>1
    <3> QED BY <1>2, <3>2
  <2>9. Covered(t, k + 1)
    <3> SUFFICES ASSUME NEW j \in 1..(k + 1), rows[j].kind # "unchanged"
                 PROVE  \E n \in 1..L : j \in t[n].first..t[n].last
      BY <2>4 DEF Covered
    <3>1. CASE j = k + 1
      <4>1. j \in h.first..h.last  BY <1>1, <1>2, <2>2, <2>3, <3>1
      <4> QED BY <2>2, <2>4, <4>1
    <3>2. CASE j # k + 1
      <4>1. j \in 1..k  BY <1>1, <3>2
      <4>2. PICK n \in 1..L : j \in s[n].first..s[n].last  BY <1>3, <4>1
      <4>3. CASE n = L
        <5>1. j \in h.first..h.last  BY <1>1, <1>2, <1>5, <2>3, <4>1, <4>2, <4>3
        <5> QED BY <2>2, <2>4, <5>1
      <4>4. CASE n # L  BY <2>4, <4>2, <4>4
      <4> QED BY <4>3, <4>4
    <3> QED BY <3>1, <3>2
  <2> QED BY <2>1, <2>4, <2>7, <2>8, <2>9 DEF AreRuns
<1>6. CASE rows[k + 1].kind # "unchanged" /\ ~(L > 0 /\ s[L].last = k)
  <2> DEFINE h == [first |-> k + 1, last |-> k + 1, kind |-> rows[k + 1].kind]
             t == Append(s, h)
  <2>1. NextHunks(s, k + 1) = t  BY <1>1, <1>6 DEF NextHunks
  <2>2. h \in Hunks  BY <1>1, RowKinds DEF Hunks
  <2>3. h.first = k + 1 /\ h.last = k + 1 /\ h.kind = rows[k + 1].kind  OBVIOUS
  <2> HIDE DEF h
  <2>4. /\ t \in Seq(Hunks) /\ Len(t) = L + 1 /\ t[L + 1] = h
        /\ \A n \in 1..L : t[n] = s[n]
        /\ \A n \in 1..(L + 1) : n \in 1..L \/ n = L + 1
    BY <1>1, <2>2
  <2> HIDE DEF t
  <2>5. ASSUME NEW n \in 1..L  PROVE s[n].last < k
    <3>1. L \in 1..L /\ s[L].last # k  BY <1>1, <1>6
    <3>2. CASE n = L  BY <1>1, <1>2, <3>1, <3>2
    <3>3. CASE n < L  BY <1>1, <1>2, <3>1, <3>3
    <3> QED BY <1>1, <3>2, <3>3
  <2>6. k > 0 => rows[k].kind = "unchanged"
    <3> SUFFICES ASSUME k > 0, rows[k].kind # "unchanged" PROVE FALSE  OBVIOUS
    <3>1. PICK n \in 1..L : k \in s[n].first..s[n].last  BY <1>1, <1>3
    <3> QED BY <1>1, <1>2, <2>5, <3>1
  <2>7. IsRun(h, k + 1)
    <3>1. \A j \in h.first..h.last : j = k + 1  BY <1>1, <2>3
    <3>2. h.first > 1 => rows[h.first - 1].kind = "unchanged"  BY <1>1, <2>3, <2>6
    <3>3. 1 <= h.first /\ h.first <= h.last /\ h.last <= k + 1 /\ ~(h.last < k + 1)  BY <1>1, <2>3
    <3> QED BY <1>6, <2>2, <2>3, <3>1, <3>2, <3>3 DEF IsRun
  <2>8. ASSUME NEW n \in 1..(L + 1)  PROVE IsRun(t[n], k + 1)
    <3>1. CASE n = L + 1  BY <2>4, <2>7, <3>1
    <3>2. CASE n \in 1..L
      <4>1. IsRun(s[n], k + 1)  BY <1>1, <1>2, <2>5, <3>2, RunStays
      <4> QED BY <2>4, <3>2, <4>1
    <3> QED BY <2>4, <3>1, <3>2
  <2>9. Apart(t)
    <3> SUFFICES ASSUME NEW m \in 1..(L + 1), NEW n \in 1..(L + 1), m < n PROVE t[m].last + 1 < t[n].first
      BY <2>4 DEF Apart
    <3>1. m \in 1..L /\ t[m] = s[m]  BY <1>1, <2>4
    <3>2. CASE n \in 1..L  BY <1>2, <2>4, <3>1, <3>2
    <3>3. CASE n = L + 1
      <4>1. t[n].first = k + 1  BY <2>3, <2>4, <3>3
      <4>2. s[m].last < k /\ s[m].last \in Nat  BY <1>2, <2>5, <3>1
      <4> QED BY <1>1, <3>1, <4>1, <4>2
    <3> QED BY <2>4, <3>2, <3>3
  <2>10. Covered(t, k + 1)
    <3> SUFFICES ASSUME NEW j \in 1..(k + 1), rows[j].kind # "unchanged"
                 PROVE  \E n \in 1..(L + 1) : j \in t[n].first..t[n].last
      BY <2>4 DEF Covered
    <3>1. CASE j = k + 1
      <4>1. L + 1 \in 1..(L + 1) /\ j \in t[L + 1].first..t[L + 1].last  BY <1>1, <2>3, <2>4, <3>1
      <4> QED BY <4>1
    <3>2. CASE j # k + 1
      <4>1. j \in 1..k  BY <1>1, <3>2
      <4>2. PICK n \in 1..L : j \in s[n].first..s[n].last  BY <1>3, <4>1
      <4>3. n \in 1..(L + 1) /\ t[n] = s[n]  BY <1>1, <2>4
      <4> QED BY <4>2, <4>3
    <3> QED BY <3>1, <3>2
  <2> QED BY <2>1, <2>4, <2>8, <2>9, <2>10 DEF AreRuns
<1> QED BY <1>1, <1>4, <1>5, <1>6

LEMMA HunksAreRuns ==
    ASSUME rows \in Seq(Rows)
    PROVE  AreRuns(OverviewHunks, Len(rows))
<1> DEFINE n == Len(rows)
           T == {k \in 0..n : AreRuns(HunksThrough[k], k)}
<1>1. n \in Nat /\ 0 \in 0..n /\ n \in 0..n  OBVIOUS
<1>2. 0 \in T
  <2>1. HunksThrough[0] = <<>>  BY HunksThroughUnfold
  <2>2. AreRuns(<<>>, 0)  BY DEF AreRuns, Apart, Covered
  <2> QED BY <1>1, <2>1, <2>2
<1>3. ASSUME NEW k \in 0..(n - 1), k \in T  PROVE k + 1 \in T
  <2>1. k + 1 \in 1..n /\ (k + 1) - 1 = k /\ k + 1 \in 0..n /\ AreRuns(HunksThrough[k], k)  BY <1>1, <1>3
  <2>2. HunksThrough[k + 1] = NextHunks(HunksThrough[k], k + 1)
    <3>1. \A i \in 1..n : HunksThrough[i] = NextHunks(HunksThrough[i - 1], i)  BY HunksThroughUnfold
    <3> HIDE DEF n
    <3>2. HunksThrough[k + 1] = NextHunks(HunksThrough[(k + 1) - 1], k + 1)  BY <2>1, <3>1
    <3> QED BY <2>1, <3>2
  <2>3. AreRuns(NextHunks(HunksThrough[k], k + 1), k + 1)  BY <2>1, RunsStep
  <2> QED BY <2>1, <2>2, <2>3
<1>4. 0..n \subseteq T
  <2> HIDE DEF T, n
  <2> QED BY <1>1, <1>2, <1>3, Induction
<1>5. n \in T  BY <1>1, <1>4
<1> QED BY <1>5 DEF OverviewHunks

\* What a reader needs of the label l of the change h.
Locates(l, h) ==
    CASE l.place = "near"   -> \E k \in h.first..h.last : rows[k].new = l.line
      [] l.place = "after"  -> rows[h.first - 1].new = l.line
      [] l.place = "before" -> rows[h.last + 1].new = l.line /\ h.first = 1
      [] OTHER              -> current = <<>>

LEMMA LabelsLocate ==
    ASSUME rows \in Seq(Rows), RowsAreHonest, current \in Seq(Lines), ShowsCurrent(Len(current)),
           NEW h, IsRun(h, Len(rows))
    PROVE  Locates(Label(h), h)
<1> DEFINE n == Len(rows)
           N(k) == rows[k].new
           within == IF h.kind = "deleted" THEN {} ELSE NearestFrom(h.first, h.last)
           behind == NearestFrom(h.last + 1, n)
           lines(where, found) == [place |-> where, line |-> rows[CHOOSE j \in found : TRUE].new]
<1>1. /\ n \in Nat /\ h.first \in 1..n /\ h.last \in 1..n /\ h.first <= h.last
      /\ \A j \in h.first..h.last : j \in 1..n
  BY DEF IsRun, Hunks
<1>2. \A k \in 1..n : N(k) \in Nat /\ (N(k) > 0 <=> rows[k].kind # "deleted")
  <2>1. \A k \in 1..n : rows[k] \in Rows  OBVIOUS
  <2> QED BY <2>1 DEF Rows, RowsAreHonest, Honest, HasNew
<1>3. h.first > 1 => h.first - 1 \in 1..n /\ N(h.first - 1) > 0
  BY <1>1, <1>2 DEF IsRun
<1>4. h.last < n => h.last + 1 \in 1..n /\ N(h.last + 1) > 0
  BY <1>1, <1>2 DEF IsRun
<1>5. CASE within # {}
  <2> DEFINE j == CHOOSE i \in within : TRUE
  <2>1. Label(h) = [place |-> "near", line |-> rows[j].new]  BY <1>5 DEF Label
  <2>2. j \in within  BY <1>5
  <2>3. j \in h.first..h.last  BY <1>5, <2>2 DEF NearestFrom
  <2> HIDE DEF j
  <2>4. Label(h).place = "near" /\ Label(h).line = rows[j].new  BY <2>1
  <2> QED BY <2>3, <2>4 DEF Locates
<1>6. CASE within = {} /\ NearestBefore(h.first) # {}
  <2> DEFINE j == CHOOSE i \in NearestBefore(h.first) : TRUE
  <2>1. Label(h) = [place |-> "after", line |-> rows[j].new]  BY <1>6 DEF Label
  <2>2. j \in NearestBefore(h.first)  BY <1>6
  <2> HIDE DEF j
  <2>3. /\ j \in 1..(h.first - 1) /\ N(j) > 0
        /\ \A i \in (j + 1)..(h.first - 1) : N(i) = 0
    BY <2>2 DEF NearestBefore
  <2>4. j = h.first - 1
    <3> SUFFICES ASSUME j # h.first - 1 PROVE FALSE  OBVIOUS
    <3>1. h.first > 1 /\ h.first - 1 \in (j + 1)..(h.first - 1)  BY <1>1, <2>3
    <3>2. N(h.first - 1) = 0 /\ N(h.first - 1) > 0  BY <1>3, <2>3, <3>1
    <3> QED BY <3>2
  <2>5. Label(h).place = "after" /\ Label(h).line = rows[j].new  BY <2>1
  <2> QED BY <2>4, <2>5 DEF Locates
<1>7. ASSUME NearestBefore(h.first) = {}  PROVE h.first = 1
  <2> SUFFICES ASSUME h.first # 1 PROVE FALSE  OBVIOUS
  <2>1. h.first > 1 /\ h.first - 1 \in 1..(h.first - 1)  BY <1>1
  <2>2. \A i \in ((h.first - 1) + 1)..(h.first - 1) : FALSE  BY <1>1
  <2>3. h.first - 1 \in NearestBefore(h.first)  BY <1>3, <2>1, <2>2 DEF NearestBefore
  <2> QED BY <1>7, <2>3
<1>8. CASE within = {} /\ NearestBefore(h.first) = {} /\ behind # {}
  <2> DEFINE j == CHOOSE i \in behind : TRUE
  <2>1. Label(h) = [place |-> "before", line |-> rows[j].new]  BY <1>8 DEF Label
  <2>2. j \in behind  BY <1>8
  <2> HIDE DEF j
  <2>3. /\ j \in (h.last + 1)..n /\ N(j) > 0
        /\ \A i \in (h.last + 1)..(j - 1) : N(i) = 0
    BY <2>2 DEF NearestFrom
  <2>4. j = h.last + 1
    <3> SUFFICES ASSUME j # h.last + 1 PROVE FALSE  OBVIOUS
    <3>1. h.last < n /\ h.last + 1 \in (h.last + 1)..(j - 1)  BY <1>1, <2>3
    <3>2. N(h.last + 1) = 0 /\ N(h.last + 1) > 0  BY <1>4, <2>3, <3>1
    <3> QED BY <3>2
  <2>5. Label(h).place = "before" /\ Label(h).line = rows[j].new  BY <2>1
  <2>6. h.first = 1  BY <1>7, <1>8
  <2> QED BY <2>4, <2>5, <2>6 DEF Locates
<1>9. CASE within = {} /\ NearestBefore(h.first) = {} /\ behind = {}
  <2>1. Label(h) = [place |-> "whole", line |-> 0]  BY <1>9 DEF Label
  <2>2. h.first = 1  BY <1>7, <1>9
  <2>3. h.last = n
    <3> SUFFICES ASSUME h.last # n PROVE FALSE  OBVIOUS
    <3>1. h.last < n /\ h.last + 1 \in (h.last + 1)..n  BY <1>1
    <3>2. \A i \in (h.last + 1)..((h.last + 1) - 1) : FALSE  BY <1>1
    <3>3. h.last + 1 \in behind  BY <1>4, <3>1, <3>2 DEF NearestFrom
    <3> QED BY <1>9, <3>3
  <2>4. \A k \in 1..n : ~(N(k) > 0)
    <3>1. CASE h.kind = "deleted"
      <4>1. \A k \in 1..n : rows[k].kind = "deleted"  BY <2>2, <2>3, <3>1 DEF IsRun
      <4> QED BY <1>2, <4>1
    <3>2. CASE h.kind # "deleted"
      <4> SUFFICES ASSUME NEW x \in 1..n, N(x) > 0 PROVE FALSE  OBVIOUS
      <4> DEFINE A == {k \in 1..n : N(k) > 0}
      <4>1. x \in A /\ A \subseteq Nat  BY <1>1
      <4>2. A # {}  BY <4>1
      <4> HIDE DEF A
      <4>3. PICK j \in A : \A i \in A : j <= i  BY <4>1, <4>2, LeastElement
      <4>4. j \in 1..n /\ N(j) > 0  BY <4>3 DEF A
      <4>5. \A i \in 1..(j - 1) : N(i) = 0
        <5> TAKE i \in 1..(j - 1)
        <5>1. i \in 1..n /\ i < j  BY <1>1, <4>4
        <5>2. i \notin A  BY <4>3, <4>4, <5>1
        <5>3. ~(N(i) > 0) /\ N(i) \in Nat  BY <1>2, <5>1, <5>2 DEF A
        <5> QED BY <5>3
      <4>6. j \in NearestFrom(1, n)  BY <4>4, <4>5 DEF NearestFrom
      <4> QED BY <1>9, <2>2, <2>3, <3>2, <4>6
    <3> QED BY <3>1, <3>2
  <2>5. current = <<>>
    <3> DEFINE f == NewNumbers(rows)
               m == Len(current)
    <3>1. m \in Nat /\ DOMAIN f = 1..n /\ \A k \in 1..n : f[k] = N(k)  BY DEF NewNumbers
    <3>2. {f[k] : k \in DOMAIN f} \ {0} = (0 + 1)..m  BY Zenon DEF ShowsCurrent, InOrder
    <3>3. \A k \in DOMAIN f : f[k] = 0  BY <1>2, <2>4, <3>1
    <3>4. \A x \in {f[k] : k \in DOMAIN f} : x = 0  BY <3>3
    <3> HIDE DEF f
    <3>5. \A x \in (0 + 1)..m : x = 0  BY <3>2, <3>4, Zenon
    <3>6. m = 0
      <4> SUFFICES ASSUME m # 0 PROVE FALSE  OBVIOUS
      <4>1. m \in (0 + 1)..m  BY <3>1
      <4> QED BY <3>5, <4>1
    <3> QED BY <3>6
  <2>6. Label(h).place = "whole"  BY <2>1
  <2> QED BY <2>5, <2>6 DEF Locates
<1> QED BY <1>5, <1>6, <1>8, <1>9

\* The ids of the k-th cell when the changes are s.
Ids(s, k) ==
    {s[n].target : n \in {m \in DOMAIN s : s[m].hunk.first = k}} \union
    {s[n].endTarget : n \in {m \in DOMAIN s : s[m].hunk.last = k /\ s[m].endTarget # s[m].target}}

LEMMA ItemsAre ==
    ASSUME rows \in Seq(Rows), NEW n \in 1..Len(OverviewHunks)
    PROVE  /\ Items[n].hunk = OverviewHunks[n] /\ Items[n].label = Label(OverviewHunks[n])
           /\ Items[n].target = <<n, "start">>
           /\ Items[n].endTarget = IF OverviewHunks[n].last > OverviewHunks[n].first THEN <<n, "end">>
                                   ELSE <<n, "start">>
<1> DEFINE h == OverviewHunks[n]
           l == Label(h)
           e == IF h.last > h.first THEN <<n, "end">> ELSE <<n, "start">>
<1>1. n \in DOMAIN OverviewHunks  BY HunksAreRuns DEF AreRuns
<1>2. Items[n] = [hunk |-> h, label |-> l, target |-> <<n, "start">>, endTarget |-> e]  BY <1>1 DEF Items
<1> HIDE DEF h, l, e
<1>3. Items[n].hunk = h /\ Items[n].label = l /\ Items[n].target = <<n, "start">> /\ Items[n].endTarget = e
  BY <1>2
<1> QED BY <1>3 DEF h, l, e

\* The id of a change's start is on its first row only, the one of its end on its last.
LEMMA TargetsAreCells ==
    ASSUME rows \in Seq(Rows), NEW n \in 1..Len(OverviewHunks), NEW id \in {Items[n].target, Items[n].endTarget}
    PROVE  \E k \in DOMAIN rows : Ids(Items, k) = {id} /\ \A j \in DOMAIN rows \ {k} : id \notin Ids(Items, j)
<1> DEFINE s == OverviewHunks
           L == Len(s)
           I == Items
           single(m) == ~(s[m].last > s[m].first)
<1>1. /\ s \in Seq(Hunks) /\ L \in Nat /\ DOMAIN s = 1..L
      /\ \A m \in 1..L : /\ s[m].first \in DOMAIN rows /\ s[m].last \in DOMAIN rows
                         /\ s[m].first \in Nat /\ s[m].last \in Nat /\ s[m].first <= s[m].last
      /\ \A m, k \in 1..L : m < k => s[m].last + 1 < s[k].first
  BY HunksAreRuns DEF AreRuns, IsRun, Apart, Hunks
<1>2. /\ DOMAIN I = 1..L
      /\ \A m \in 1..L : /\ I[m].hunk = s[m] /\ I[m].target = <<m, "start">>
                         /\ single(m) => I[m].endTarget = <<m, "start">>
                         /\ ~single(m) => I[m].endTarget = <<m, "end">>
  <2>1. DOMAIN I = 1..L  BY <1>1 DEF Items
  <2> QED BY <2>1, ItemsAre
<1> HIDE DEF s, L, I
<1>3. \A m, k \in 1..L : m # k => /\ s[m].first # s[k].first /\ s[m].last # s[k].last
                                 /\ s[m].first # s[k].last
  <2> SUFFICES ASSUME NEW m \in 1..L, NEW k \in 1..L, m # k
               PROVE  s[m].first # s[k].first /\ s[m].last # s[k].last /\ s[m].first # s[k].last
    OBVIOUS
  <2>1. m < k \/ k < m  BY <1>1
  <2>2. CASE m < k  BY <1>1, <2>2
  <2>3. CASE k < m  BY <1>1, <2>3
  <2> QED BY <2>1, <2>2, <2>3
<1>4. \A k, x : x \in Ids(I, k) <=>
         \E m \in 1..L : \/ s[m].first = k /\ x = <<m, "start">>
                         \/ s[m].last = k /\ ~single(m) /\ x = <<m, "end">>
  <2> TAKE k, x
  <2>1. \A m \in 1..L : I[m].endTarget # I[m].target <=> ~single(m)
    <3> TAKE m \in 1..L
    <3>1. <<m, "end">> # <<m, "start">>  OBVIOUS
    <3> QED BY <1>2, <3>1
  <2>2. x \in Ids(I, k) <=>
           \E m \in 1..L : \/ I[m].hunk.first = k /\ x = I[m].target
                           \/ I[m].hunk.last = k /\ I[m].endTarget # I[m].target /\ x = I[m].endTarget
    BY <1>2 DEF Ids
  <2> QED BY <1>2, <2>1, <2>2
<1>5. \A m, k : (<<m, "start">> = <<k, "start">> => m = k) /\ (<<m, "end">> = <<k, "end">> => m = k)
               /\ <<m, "start">> # <<k, "end">>
  OBVIOUS
<1>6. CASE id = <<n, "start">>
  <2> DEFINE k == s[n].first
  <2>1. n \in 1..L /\ k \in DOMAIN rows  BY <1>1 DEF s, L
  <2>2. \A j : id \in Ids(I, j) <=> j = k  BY <1>4, <1>5, <1>6, <2>1
  <2>3. \A x \in Ids(I, k) : x = id
    <3> TAKE x \in Ids(I, k)
    <3>1. PICK m \in 1..L : \/ s[m].first = k /\ x = <<m, "start">>
                            \/ s[m].last = k /\ ~single(m) /\ x = <<m, "end">>
      BY <1>4
    <3>2. m = n  BY <1>3, <2>1, <3>1
    <3>3. ~(s[m].last = k /\ ~single(m))  BY <1>1, <2>1, <3>2
    <3> QED BY <1>6, <3>1, <3>2, <3>3
  <2>4. Ids(I, k) = {id}  BY <2>2, <2>3
  <2> QED BY <2>1, <2>2, <2>4 DEF I
<1>7. CASE id = <<n, "end">> /\ ~single(n)
  <2> DEFINE k == s[n].last
  <2>1. n \in 1..L /\ k \in DOMAIN rows  BY <1>1 DEF s, L
  <2>2. \A j : id \in Ids(I, j) <=> j = k  BY <1>4, <1>5, <1>7, <2>1
  <2>3. \A x \in Ids(I, k) : x = id
    <3> TAKE x \in Ids(I, k)
    <3>1. PICK m \in 1..L : \/ s[m].first = k /\ x = <<m, "start">>
                            \/ s[m].last = k /\ ~single(m) /\ x = <<m, "end">>
      BY <1>4
    <3>2. m = n  BY <1>3, <2>1, <3>1
    <3>3. s[m].first # k  BY <1>1, <1>7, <2>1, <3>2
    <3> QED BY <1>7, <3>1, <3>2, <3>3
  <2>4. Ids(I, k) = {id}  BY <2>2, <2>3
  <2> QED BY <2>1, <2>2, <2>4 DEF I
<1>8. id = <<n, "start">> \/ (id = <<n, "end">> /\ ~single(n))
  <2>1. n \in 1..L  BY DEF s, L
  <2>2. id = I[n].target \/ id = I[n].endTarget  BY DEF I
  <2> QED BY <1>2, <2>1, <2>2
<1> QED BY <1>6, <1>7, <1>8

\* OverviewNavigates of the changes s.
Navigates(s) ==
    /\ \A k \in DOMAIN rows : rows[k].kind # "unchanged" <=>
          \E n \in DOMAIN s : k \in s[n].hunk.first..s[n].hunk.last
    /\ \A n \in DOMAIN s \ {1} : s[n - 1].hunk.last + 1 < s[n].hunk.first
    /\ \A n \in DOMAIN s : \A id \in {s[n].target, s[n].endTarget} :
          \E k \in DOMAIN rows : Ids(s, k) = {id} /\ \A j \in DOMAIN rows \ {k} : id \notin Ids(s, j)
    /\ \A n \in DOMAIN s : Locates(s[n].label, s[n].hunk)

LEMMA ItemsNavigate ==
    ASSUME rows \in Seq(Rows), RowsAreHonest, current \in Seq(Lines), ShowsCurrent(Len(current))
    PROVE  Navigates(Items)
<1> DEFINE s == OverviewHunks
           L == Len(s)
<1>1. /\ s \in Seq(Hunks) /\ L \in Nat /\ DOMAIN s = 1..L /\ DOMAIN rows = 1..Len(rows)
      /\ \A n \in 1..L : IsRun(s[n], Len(rows))
      /\ \A m, n \in 1..L : m < n => s[m].last + 1 < s[n].first
      /\ \A j \in 1..Len(rows) : rows[j].kind # "unchanged" => \E n \in 1..L : j \in s[n].first..s[n].last
  <2>1. AreRuns(s, Len(rows))  BY HunksAreRuns
  <2> HIDE DEF s
  <2> QED BY <2>1 DEF AreRuns, Apart, Covered
<1>2. DOMAIN Items = 1..L /\ \A n \in 1..L : Items[n].hunk = s[n] /\ Items[n].label = Label(s[n])
  <2>1. DOMAIN Items = 1..L  BY <1>1 DEF Items
  <2> QED BY <2>1, ItemsAre
<1> HIDE DEF s, L
<1>3. ASSUME NEW k \in DOMAIN rows
      PROVE  rows[k].kind # "unchanged" <=> \E n \in DOMAIN Items : k \in Items[n].hunk.first..Items[n].hunk.last
  <2>1. rows[k].kind # "unchanged" => \E n \in 1..L : k \in s[n].first..s[n].last  BY <1>1
  <2>2. \A n \in 1..L : k \in s[n].first..s[n].last => rows[k].kind # "unchanged"  BY <1>1 DEF IsRun
  <2> QED BY <1>2, <2>1, <2>2
<1>4. ASSUME NEW n \in DOMAIN Items \ {1}  PROVE Items[n - 1].hunk.last + 1 < Items[n].hunk.first
  <2>1. n \in 1..L /\ n - 1 \in 1..L /\ n - 1 < n  BY <1>1, <1>2
  <2> QED BY <1>1, <1>2, <2>1
<1>5. ASSUME NEW n \in DOMAIN Items, NEW id \in {Items[n].target, Items[n].endTarget}
      PROVE  \E k \in DOMAIN rows : Ids(Items, k) = {id} /\ \A j \in DOMAIN rows \ {k} : id \notin Ids(Items, j)
  <2>1. n \in 1..Len(OverviewHunks)  BY <1>2 DEF L, s
  <2> QED BY <2>1, TargetsAreCells
<1>6. ASSUME NEW n \in DOMAIN Items  PROVE Locates(Items[n].label, Items[n].hunk)
  BY <1>1, <1>2, LabelsLocate
<1> QED BY <1>3, <1>4, <1>5, <1>6 DEF Navigates

LEMMA NavigatesMeans == OverviewNavigates <=> (stage = "rendered" => Navigates(overview))
<1>1. \A k : Targets(k) = Ids(overview, k)  BY DEF Targets, Ids
<1>2. \A n \in DOMAIN overview : Locates(overview[n].label, overview[n].hunk) <=>
        LET l == overview[n].label IN
        CASE l.place = "near"   -> \E k \in overview[n].hunk.first..overview[n].hunk.last : rows[k].new = l.line
          [] l.place = "after"  -> rows[overview[n].hunk.first - 1].new = l.line
          [] l.place = "before" -> rows[overview[n].hunk.last + 1].new = l.line /\ overview[n].hunk.first = 1
          [] OTHER              -> current = <<>>
  BY Zenon DEF Locates
<1> QED BY <1>1, <1>2 DEF OverviewNavigates, Navigates

\* What was found of the changes s holds of the overview that a step makes of them.
LEMMA NavigatesMoves ==
    ASSUME NEW s, Navigates(s), overview' = s, rows' = rows, current' = current
    PROVE  Navigates(overview)'
<1>1. (\A k \in DOMAIN rows : rows[k].kind # "unchanged" <=>
          \E n \in DOMAIN overview : k \in overview[n].hunk.first..overview[n].hunk.last)'
  BY DEF Navigates
<1>2. (\A n \in DOMAIN overview \ {1} : overview[n - 1].hunk.last + 1 < overview[n].hunk.first)'
  BY DEF Navigates
<1>3. (\A n \in DOMAIN overview : \A id \in {overview[n].target, overview[n].endTarget} :
          \E k \in DOMAIN rows : /\ Ids(overview, k) = {id}
                                 /\ \A j \in DOMAIN rows \ {k} : id \notin Ids(overview, j))'
  BY DEF Navigates
<1>4. (\A n \in DOMAIN overview : Locates(overview[n].label, overview[n].hunk))'
  BY DEF Navigates, Locates
<1> QED BY <1>1, <1>2, <1>3, <1>4 DEF Navigates

LEMMA NavigationStep == IInv /\ OverviewNavigates /\ [Next]_vars => OverviewNavigates'
<1>0. OverviewNavigates' <=> (stage = "rendered" => Navigates(overview))'  BY NavigatesMeans, PTL
<1> SUFFICES ASSUME IInv, OverviewNavigates, [Next]_vars, stage' = "rendered" PROVE Navigates(overview)'
  BY <1>0
<1>1. /\ rows' = rows /\ current' = current
      /\ \/ stage = "rendered" /\ overview' = overview
         \/ stage = "aligned" /\ overview' = Items
  BY DEF Next, EditWorktree, ReadPatch, GitFails, ParsePatch, Skip, EnterHunk, NoNewline, Deleted,
         Added, Context, Consume, LeaveHunk, Finish, Refuse, Render, vars, inputs, cursors
<1>2. CASE stage = "rendered" /\ overview' = overview
  <2>1. Navigates(overview)  BY <1>2, NavigatesMeans
  <2> QED BY <1>1, <1>2, <2>1, NavigatesMoves
<1>3. CASE stage = "aligned" /\ overview' = Items
  <2>1. TypeOK /\ RowsFollow  BY DEF IInv
  <2>2. RowsAreHonest /\ ShowsCurrent(Len(current))  BY <1>3, <2>1 DEF RowsFollow
  <2>3. rows \in Seq(Rows) /\ current \in Seq(Lines)  BY <2>1, SourcesAreLines DEF TypeOK
  <2>4. Navigates(Items)  BY <2>2, <2>3, ItemsNavigate
  <2> QED BY <1>1, <1>3, <2>4, NavigatesMoves
<1> QED BY <1>1, <1>2, <1>3

\* For all sources and patches the markers of an aligned diff are the runs of its
\* changed rows, every link of a marker leads to exactly one cell, and a label names
\* a line within or next to its change.
THEOREM OverviewLeadsToTheChanges == Spec => []OverviewNavigates
<1>1. Init => OverviewNavigates  BY DEF Init, OverviewNavigates
<1> QED BY <1>1, InitIInv, NextIInv, NavigationStep, PTL DEF Spec

-----------------------------------------------------------------------------
(***************************************************************************)
(* The patch of the bytes that were read: it is followed to its end.       *)
(***************************************************************************)

Trusted == seen = current /\ (indexed \/ (~baseExists /\ ~TwoReturns))

\* Where the patch has been read to: behind the hunk g (0 for none), or in it.
IsBehind(g) ==
    /\ g \in Headers(patch) \union {0} /\ Adjacent(patch, g, at)
    /\ hunkCount = 0 <=> g = 0
    /\ oldCursor = Behind(patch, g, base, current)[1] /\ newCursor = Behind(patch, g, base, current)[2]
IsIn(g) ==
    /\ g \in Headers(patch) /\ Adjacent(patch, g, at)
    /\ hunk = patch[g] /\ hunkCount # 0
    /\ oldUsed = ListedBefore(patch, g, OldSide, at) /\ newUsed = ListedBefore(patch, g, NewSide, at)
    /\ oldCursor = Before(patch, g, base, current)[1] + oldUsed
    /\ newCursor = Before(patch, g, base, current)[2] + newUsed

Followed ==
    /\ stage = "refused" => ~Supported
    /\ stage = "printed" /\ Supported => Describes(patch, base, current)
    /\ stage \in {"between", "inside"} => Describes(patch, base, current)
    /\ stage = "between" => \E g : IsBehind(g)
    /\ stage = "inside" => \E g : IsIn(g)
PatchFollows ==
    /\ baseExists \/ base = <<>>
    /\ stage \in {"read", "printed"} => at = 1 /\ hunkCount = 0 /\ oldCursor = 0 /\ newCursor = 0
    /\ Trusted => Followed

\* Counting the lines of a hunk, record by record.
LEMMA ListedCounts ==
    ASSUME NEW p \in Patches, NEW h \in Nat, NEW side, NEW k \in Nat
    PROVE  /\ Cardinality(Listed(p, h, side)) \in Nat /\ ListedBefore(p, h, side, k) \in Nat
           /\ ListedBefore(p, h, side, k) <= Cardinality(Listed(p, h, side))
           /\ k \in Listed(p, h, side) =>
                 /\ ListedBefore(p, h, side, k + 1) = ListedBefore(p, h, side, k) + 1
                 /\ ListedBefore(p, h, side, k) < Cardinality(Listed(p, h, side))
           /\ k \notin Listed(p, h, side) => ListedBefore(p, h, side, k + 1) = ListedBefore(p, h, side, k)
           /\ k <= h + 1 => ListedBefore(p, h, side, k) = 0
           /\ (\A j \in Listed(p, h, side) : j < k) =>
                 ListedBefore(p, h, side, k) = Cardinality(Listed(p, h, side))
<1> DEFINE S == Listed(p, h, side)
           B == {j \in S : j < k}
           C == {j \in S : j < k + 1}
<1>1. Len(p) \in Nat  BY DEF Patches
<1>2. S \subseteq (h + 1)..Len(p) /\ S \subseteq Int  BY <1>1 DEF Listed
<1>3. IsFiniteSet((h + 1)..Len(p))  BY <1>1, FS_Interval
<1>4. IsFiniteSet(S)  BY <1>2, <1>3, FS_Subset
<1> HIDE DEF S
<1>5. B \in SUBSET S /\ C \in SUBSET S  OBVIOUS
<1>6. /\ IsFiniteSet(B) /\ Cardinality(B) <= Cardinality(S) /\ (Cardinality(S) = Cardinality(B) => S = B)
      /\ IsFiniteSet(C) /\ Cardinality(C) <= Cardinality(S)
  BY <1>4, <1>5, FS_Subset
<1>7. Cardinality(S) \in Nat /\ Cardinality(B) \in Nat /\ Cardinality(C) \in Nat
  BY <1>4, <1>6, FS_CardinalityType
<1>8. ListedBefore(p, h, side, k) = Cardinality(B) /\ ListedBefore(p, h, side, k + 1) = Cardinality(C)
  BY DEF ListedBefore, S
<1>a. \A j \in S : j \in Int /\ j >= h + 1 /\ (j < k + 1 <=> j < k \/ j = k)
  <2> TAKE j \in S
  <2>1. j \in (h + 1)..Len(p) /\ j \in Int  BY <1>2
  <2> QED BY <2>1
<1>9. k \in S => Cardinality(C) = Cardinality(B) + 1
  <2> SUFFICES ASSUME k \in S PROVE Cardinality(C) = Cardinality(B) + 1  OBVIOUS
  <2>0. k \notin B /\ \A j \in S : j < k + 1 <=> (j < k \/ j = k)  BY <1>a
  <2>1. C = B \union {k} /\ k \notin B  BY <2>0, Zenon
  <2> HIDE DEF B, C
  <2> QED BY <1>6, <2>1, FS_AddElement
<1>10. k \notin S => C = B  BY <1>a
<1>11. k <= h + 1 => Cardinality(B) = 0
  <2> SUFFICES ASSUME k <= h + 1 PROVE Cardinality(B) = 0  OBVIOUS
  <2>1. \A j \in S : ~(j < k)
    <3> TAKE j \in S
    <3>1. j \in Int /\ j >= h + 1  BY <1>a
    <3> QED BY <3>1
  <2>2. B = {}  BY <2>1
  <2> HIDE DEF B
  <2> QED BY <2>2, FS_EmptySet
<1>12. (\A j \in S : j < k) => B = S  OBVIOUS
<1> HIDE DEF B, C
<1> QED BY <1>6, <1>7, <1>8, <1>9, <1>10, <1>11, <1>12 DEF S

LEMMA HeaderTypes ==
    ASSUME NEW p \in Patches, NEW h \in Headers(p)
    PROVE  /\ h \in 1..Len(p) /\ Len(p) \in Nat /\ p[h].tag = "hunk"
           /\ p[h].oldStart \in Nat /\ p[h].oldCount \in Nat /\ p[h].newStart \in Nat /\ p[h].newCount \in Nat
<1>1. h \in 1..Len(p) /\ Len(p) \in Nat /\ p[h].tag = "hunk" /\ p[h] \in Records  BY DEF Headers, Patches
<1> QED BY <1>1 DEF Records, HunkHeaders, TextRecords

\* Where a hunk starts, as the code reads it.
LEMMA HunkStarts ==
    ASSUME NEW p \in Patches, NEW h \in Headers(p), NEW b, NEW w
    PROVE  /\ Before(p, h, b, w)[1] = HunkIndex(p[h].oldStart, p[h].oldCount)
           /\ Before(p, h, b, w)[2] = HunkIndex(p[h].newStart, p[h].newCount)
           /\ Before(p, h, b, w)[1] \in Int /\ Before(p, h, b, w)[2] \in Int
           /\ Behind(p, h, b, w)[1] = Before(p, h, b, w)[1] + p[h].oldCount
           /\ Behind(p, h, b, w)[2] = Before(p, h, b, w)[2] + p[h].newCount
<1>1. /\ h \in 1..Len(p) /\ Len(p) \in Nat
      /\ p[h].oldStart \in Nat /\ p[h].oldCount \in Nat /\ p[h].newStart \in Nat /\ p[h].newCount \in Nat
  BY HeaderTypes
<1>2. Before(p, h, b, w) = <<LinesBefore(p[h].oldStart, p[h].oldCount), LinesBefore(p[h].newStart, p[h].newCount)>>
  BY <1>1 DEF Before
<1>3. \A start, count \in Nat : LinesBefore(start, count) = HunkIndex(start, count) /\ LinesBefore(start, count) \in Int
  BY DEF LinesBefore, HunkIndex
<1>4. Behind(p, h, b, w) = <<Before(p, h, b, w)[1] + p[h].oldCount, Before(p, h, b, w)[2] + p[h].newCount>>
  BY <1>1 DEF Behind
<1> DEFINE o == LinesBefore(p[h].oldStart, p[h].oldCount)
           n == LinesBefore(p[h].newStart, p[h].newCount)
<1>5. /\ o = HunkIndex(p[h].oldStart, p[h].oldCount) /\ o \in Int
      /\ n = HunkIndex(p[h].newStart, p[h].newCount) /\ n \in Int
  BY <1>1, <1>3
<1> HIDE DEF o, n
<1>6. Before(p, h, b, w)[1] = o /\ Before(p, h, b, w)[2] = n  BY <1>2 DEF o, n
<1>7. Behind(p, h, b, w)[1] = Before(p, h, b, w)[1] + p[h].oldCount
      /\ Behind(p, h, b, w)[2] = Before(p, h, b, w)[2] + p[h].newCount
  BY <1>4
<1> QED BY <1>5, <1>6, <1>7

LEMMA AddedFileDescribed ==
    ASSUME base = <<>>, current # <<>>, current \in Seq(Lines), ~TwoReturns
    PROVE  Describes(AddedFilePatch, base, current)
<1> DEFINE n == Len(current)
           p == AddedFilePatch
           hd == [tag |-> "hunk", oldStart |-> 0, oldCount |-> 0, newStart |-> 1, newCount |-> n, text |-> NoText]
           tl == [i \in 1..n |-> [tag |-> "+", text |-> TextOf[current[i]]]]
<1>1. n \in Nat /\ n > 0  OBVIOUS
<1>2. /\ Len(p) = n + 1 /\ p[1] = hd
      /\ \A k \in 2..(n + 1) : p[k] = [tag |-> "+", text |-> TextOf[current[k - 1]]]
  <2>1. p = <<hd>> \o tl  BY DEF AddedFilePatch
  <2>2. tl \in Seq({tl[i] : i \in 1..n}) /\ Len(tl) = n  BY <1>1
  <2>3. /\ Len(<<hd>> \o tl) = n + 1 /\ (<<hd>> \o tl)[1] = hd
        /\ \A k \in 2..(n + 1) : (<<hd>> \o tl)[k] = tl[k - 1]
    <3> HIDE DEF hd, tl, n
    <3> QED BY <1>1, <2>2
  <2>4. \A k \in 2..(n + 1) : tl[k - 1] = [tag |-> "+", text |-> TextOf[current[k - 1]]]
    <3> TAKE k \in 2..(n + 1)
    <3>1. k - 1 \in 1..n  BY <1>1
    <3> QED BY <3>1
  <2> HIDE DEF p, hd, tl
  <2> QED BY <2>1, <2>3, <2>4
<1>3. /\ p[1].tag = "hunk" /\ p[1].oldStart = 0 /\ p[1].oldCount = 0 /\ p[1].newStart = 1 /\ p[1].newCount = n
      /\ \A k \in 2..(n + 1) : p[k].tag = "+" /\ p[k].text = TextOf[current[k - 1]]
  <2> HIDE DEF p, n
  <2>1. /\ hd.tag = "hunk" /\ hd.oldStart = 0 /\ hd.oldCount = 0 /\ hd.newStart = 1 /\ hd.newCount = n
        /\ p[1] = hd
    BY <1>2
  <2>2. ASSUME NEW k \in 2..(n + 1)  PROVE p[k].tag = "+" /\ p[k].text = TextOf[current[k - 1]]
    <3> DEFINE t == TextOf[current[k - 1]]
    <3>1. p[k] = [tag |-> "+", text |-> t]  BY <1>2
    <3> HIDE DEF t
    <3>2. p[k].tag = "+" /\ p[k].text = t  BY <3>1
    <3> QED BY <3>2 DEF t
  <2> HIDE DEF hd
  <2> QED BY <2>1, <2>2
<1> HIDE DEF p, hd, tl, n
<1>4. Headers(p) = {1}
  <2>1. \A k \in 1..(n + 1) : k = 1 \/ k \in 2..(n + 1)  BY <1>1
  <2>2. 1 \in 1..(n + 1)  BY <1>1
  <2> QED BY <1>2, <1>3, <2>1, <2>2 DEF Headers
<1>5. Listed(p, 1, OldSide) = {} /\ Listed(p, 1, NewSide) = 2..(n + 1)
  <2>1. \A k \in 2..(n + 1) : Adjacent(p, 1, k + 1)
    <3> TAKE k \in 2..(n + 1)
    <3>1. 1 \notin (1 + 1)..((k + 1) - 1) /\ 1 < k + 1  BY <1>1
    <3> QED BY <1>4, <3>1 DEF Adjacent
  <2>2. \A k \in 2..(n + 1) : p[k].tag \notin OldSide /\ p[k].tag \in NewSide  BY <1>3 DEF OldSide, NewSide
  <2>3. (1 + 1)..Len(p) = 2..(n + 1)  BY <1>2
  <2> QED BY <2>1, <2>2, <2>3 DEF Listed
<1>6. Len(base) = 0 /\ base \in Seq(Lines)  OBVIOUS
<1>7. Before(p, 1, base, current) = <<0, 0>> /\ Behind(p, 1, base, current) = <<0, n>>
  <2>1. ~(1 > Len(p))  BY <1>1, <1>2
  <2>2. LinesBefore(0, 0) = 0 /\ LinesBefore(1, n) = 0  BY <1>1 DEF LinesBefore
  <2>3. Before(p, 1, base, current) = <<0, 0>>  BY <1>3, <2>1, <2>2 DEF Before
  <2>4. Behind(p, 1, base, current) = <<0 + 0, 0 + n>>  BY <1>3, <2>3 DEF Behind
  <2> QED BY <1>1, <2>3, <2>4
<1>8. Lists(p, 1, OldSide, base, 0, 0)
  <2>1. Cardinality({}) = 0  BY FS_EmptySet
  <2>2. 0 + 0 <= Len(base)  BY <1>6
  <2> QED BY <1>5, <2>1, <2>2 DEF Lists
<1>9. Lists(p, 1, NewSide, current, 0, n)
  <2>1. Cardinality(2..(n + 1)) = n  BY <1>1, FS_Interval
  <2>2. 0 + n <= Len(current)  BY <1>1 DEF n
  <2>3. ASSUME NEW k \in 2..(n + 1)
        PROVE  Strip[p[k].text] = TextOf[current[0 + ListedBefore(p, 1, NewSide, k) + 1]]
    <3>1. {j \in 2..(n + 1) : j < k} = 2..(k - 1)  BY <1>1
    <3>2. Cardinality(2..(k - 1)) = k - 2  BY <1>1, FS_Interval
    <3>3. ListedBefore(p, 1, NewSide, k) = k - 2  BY <1>5, <3>1, <3>2 DEF ListedBefore
    <3>4. 0 + ListedBefore(p, 1, NewSide, k) + 1 = k - 1  BY <3>3
    <3>5. k - 1 \in DOMAIN current  BY <1>1 DEF n
    <3>6. Strip[TextOf[current[k - 1]]] = TextOf[current[k - 1]]  BY <3>5 DEF TwoReturns
    <3> QED BY <1>3, <3>4, <3>6
  <2> QED BY <1>5, <2>1, <2>2, <2>3 DEF Lists
<1>10. ASSUME NEW g \in {0, 1}, NEW h \in {1, n + 2}, Adjacent(p, g, h)
       PROVE  SameLines(base, current, Behind(p, g, base, current), Before(p, h, base, current))
  <2>1. Behind(p, 0, base, current) = <<0, 0>>  BY DEF Behind
  <2>2. Before(p, n + 2, base, current) = <<0, n>>  BY <1>1, <1>2, <1>6 DEF Before, n
  <2>3. CASE g = 0 /\ h = 1
    <3>1. SameLines(base, current, <<0, 0>>, <<0, 0>>)  BY DEF SameLines
    <3> QED BY <1>7, <2>1, <2>3, <3>1
  <2>4. CASE g = 1 /\ h = n + 2
    <3>1. SameLines(base, current, <<0, n>>, <<0, n>>)  BY <1>1 DEF SameLines
    <3> QED BY <1>7, <2>2, <2>4, <3>1
  <2>5. ~(g = 0 /\ h = n + 2)
    <3> SUFFICES ASSUME g = 0, h = n + 2 PROVE FALSE  OBVIOUS
    <3>1. 1 \in (0 + 1)..((n + 2) - 1)  BY <1>1
    <3> QED BY <1>4, <1>10, <3>1 DEF Adjacent
  <2>6. ~(g = 1 /\ h = 1)  BY <1>10 DEF Adjacent
  <2> QED BY <2>3, <2>4, <2>5, <2>6
<1>11. Len(p) + 1 = n + 2  BY <1>1, <1>2
<1>12. \A k \in (1 + 1)..Len(p) : p[k].tag # "header"  BY <1>2, <1>3
<1>13. Describes(p, base, current)
  <2>1. \A h \in Headers(p) :
          /\ Lists(p, h, OldSide, base, Before(p, h, base, current)[1], p[h].oldCount)
          /\ Lists(p, h, NewSide, current, Before(p, h, base, current)[2], p[h].newCount)
          /\ \A k \in (h + 1)..Len(p) : p[k].tag # "header"
    BY <1>3, <1>4, <1>7, <1>8, <1>9, <1>12
  <2>2. \A g \in Headers(p) \union {0}, h \in Headers(p) \union {Len(p) + 1} :
          Adjacent(p, g, h) => SameLines(base, current, Behind(p, g, base, current), Before(p, h, base, current))
    BY <1>4, <1>10, <1>11
  <2>3. Headers(p) # {}  BY <1>4
  <2> QED BY <2>1, <2>2, <2>3 DEF Describes
<1> QED BY <1>13 DEF p

\* No header between g and the k-th record, nor at it: g's hunk reaches over it.
LEMMA AdjacentGrows ==
    ASSUME NEW p \in Patches, NEW g \in Nat, NEW k \in Nat
    PROVE  /\ Adjacent(p, g, k) /\ (k <= Len(p) => p[k].tag # "hunk") => Adjacent(p, g, k + 1)
           /\ Adjacent(p, k, k + 1)
           /\ k > Len(p) /\ g <= Len(p) /\ Adjacent(p, g, k) => Adjacent(p, g, Len(p) + 1)
<1>1. Len(p) \in Nat  BY DEF Patches
<1>2. ASSUME Adjacent(p, g, k), k <= Len(p) => p[k].tag # "hunk"  PROVE Adjacent(p, g, k + 1)
  <2>1. g < k /\ \A j \in (g + 1)..(k - 1) : j \notin Headers(p)  BY <1>2 DEF Adjacent
  <2>2. k \notin Headers(p)  BY <1>2 DEF Headers
  <2>3. \A j \in (g + 1)..((k + 1) - 1) : j \in (g + 1)..(k - 1) \/ j = k  BY <1>1
  <2>4. \A j \in (g + 1)..((k + 1) - 1) : j \notin Headers(p)  BY <2>1, <2>2, <2>3
  <2> QED BY <2>1, <2>4 DEF Adjacent
<1>3. Adjacent(p, k, k + 1)
  <2>1. (k + 1)..((k + 1) - 1) = {} /\ k < k + 1  BY <1>1
  <2> QED BY <2>1 DEF Adjacent
<1>4. ASSUME k > Len(p), g <= Len(p), Adjacent(p, g, k)  PROVE Adjacent(p, g, Len(p) + 1)
  <2>1. \A j \in (g + 1)..(k - 1) : j \notin Headers(p)  BY <1>4 DEF Adjacent
  <2>2. \A j \in (g + 1)..((Len(p) + 1) - 1) : j \in (g + 1)..(k - 1)  BY <1>1, <1>4
  <2>3. g < Len(p) + 1  BY <1>1, <1>4
  <2> QED BY <2>1, <2>2, <2>3 DEF Adjacent
<1> QED BY <1>2, <1>3, <1>4

\* The end of a hunk: every line of one side has been listed.
LEMMA ListedAll ==
    ASSUME NEW p \in Patches, NEW g \in Nat, NEW k \in Nat, NEW side,
           k > Len(p) \/ k \in Headers(p), g < k
    PROVE  ListedBefore(p, g, side, k) = Cardinality(Listed(p, g, side))
<1>1. Len(p) \in Nat  BY DEF Patches
<1>2. ASSUME NEW j \in Listed(p, g, side)  PROVE j < k
  <2>1. j \in (g + 1)..Len(p) /\ Adjacent(p, g, j + 1) /\ j \in Int  BY <1>1 DEF Listed
  <2>2. CASE k > Len(p)  BY <1>1, <2>1, <2>2
  <2>3. CASE k \in Headers(p)
    <3> SUFFICES ASSUME ~(j < k) PROVE FALSE  OBVIOUS
    <3>1. k \in (g + 1)..((j + 1) - 1)  BY <2>1
    <3> QED BY <2>1, <2>3, <3>1 DEF Adjacent
  <2> QED BY <2>2, <2>3
<1> QED BY <1>2, ListedCounts

\* The next hunk of the right patch fits.
LEMMA HunkOfTheRightPatch ==
    ASSUME TypeOK, Describes(patch, base, current), NEW g, IsBehind(g), at \in Headers(patch)
    PROVE  HunkFits(patch[at])
<1> DEFINE B == Before(patch, at, base, current)
           E == Behind(patch, g, base, current)
           o == HunkIndex(patch[at].oldStart, patch[at].oldCount)
           n == HunkIndex(patch[at].newStart, patch[at].newCount)
<1>1. /\ patch \in Patches /\ oldCursor \in Nat /\ newCursor \in Nat
      /\ Len(base) \in Nat /\ Len(current) \in Nat
  BY SourcesAreLines DEF TypeOK
<1>2. B[1] = o /\ B[2] = n /\ B[1] \in Int /\ B[2] \in Int  BY <1>1, HunkStarts
<1>3. patch[at].oldCount \in Nat /\ patch[at].newCount \in Nat  BY <1>1, HeaderTypes
<1>4. E[1] = oldCursor /\ E[2] = newCursor  BY DEF IsBehind
<1>5. SameLines(base, current, E, B)
  <2>1. g \in Headers(patch) \union {0} /\ Adjacent(patch, g, at)  BY DEF IsBehind
  <2> QED BY <2>1 DEF Describes
<1>6. o + patch[at].oldCount <= Len(base) /\ n + patch[at].newCount <= Len(current)
  BY <1>2 DEF Describes, Lists
<1> HIDE DEF B, E, o, n
<1>7. /\ B[1] >= E[1] /\ B[1] - E[1] = B[2] - E[2]
      /\ \A i \in 1..(B[1] - E[1]) : TextOf[base[E[1] + i]] = TextOf[current[E[2] + i]]
  BY <1>5 DEF SameLines
<1>8. /\ o >= oldCursor /\ o - oldCursor = n - newCursor /\ o \in Int /\ n \in Int
      /\ \A i \in 1..(o - oldCursor) : TextOf[base[oldCursor + i]] = TextOf[current[newCursor + i]]
  BY <1>2, <1>4, <1>7
<1>9. o \in oldCursor..Len(base) /\ n \in newCursor..Len(current)  BY <1>1, <1>3, <1>6, <1>8
<1>10. SameText(oldCursor, newCursor, o - oldCursor)  BY <1>8 DEF SameText
<1> QED BY <1>8, <1>9, <1>10 DEF HunkFits, o, n

\* So does every record of a hunk, as long as lines of it are missing.
LEMMA RecordOfTheRightPatch ==
    ASSUME TypeOK, Describes(patch, base, current), NEW g, IsIn(g), ~HunkDone
    PROVE  at <= Len(patch) /\ RecordFits(patch[at]) /\ Adjacent(patch, g, at + 1)
<1> DEFINE B == Before(patch, g, base, current)
           LO == Listed(patch, g, OldSide)
           LN == Listed(patch, g, NewSide)
<1>1. /\ patch \in Patches /\ at \in Nat /\ oldCursor \in Nat /\ newCursor \in Nat
      /\ oldUsed \in Nat /\ newUsed \in Nat
      /\ Len(base) \in Nat /\ Len(current) \in Nat /\ Len(patch) \in Nat
  BY SourcesAreLines DEF TypeOK, Patches
<1>2. /\ g \in Headers(patch) /\ g \in Nat /\ Adjacent(patch, g, at) /\ g < at
      /\ hunk = patch[g] /\ hunk.oldCount \in Nat /\ hunk.newCount \in Nat
      /\ oldUsed = ListedBefore(patch, g, OldSide, at) /\ newUsed = ListedBefore(patch, g, NewSide, at)
  BY <1>1, HeaderTypes DEF IsIn, Adjacent
<1>3. /\ oldCursor = B[1] + oldUsed /\ newCursor = B[2] + newUsed
      /\ B[1] \in Int /\ B[2] \in Int
  BY <1>1, <1>2, HunkStarts DEF IsIn
<1>4. /\ Cardinality(LO) = hunk.oldCount /\ B[1] + hunk.oldCount <= Len(base)
      /\ \A k \in LO : Strip[patch[k].text] = TextOf[base[B[1] + ListedBefore(patch, g, OldSide, k) + 1]]
      /\ Cardinality(LN) = hunk.newCount /\ B[2] + hunk.newCount <= Len(current)
      /\ \A k \in LN : Strip[patch[k].text] = TextOf[current[B[2] + ListedBefore(patch, g, NewSide, k) + 1]]
      /\ \A k \in (g + 1)..Len(patch) : patch[k].tag # "header"
  BY <1>2 DEF Describes, Lists
<1> HIDE DEF B, LO, LN
<1>5. ~(at > Len(patch)) /\ at \notin Headers(patch)
  <2> SUFFICES ASSUME at > Len(patch) \/ at \in Headers(patch) PROVE FALSE  OBVIOUS
  <2>1. ListedBefore(patch, g, OldSide, at) = Cardinality(LO) /\ ListedBefore(patch, g, NewSide, at) = Cardinality(LN)
    BY <1>1, <1>2, ListedAll DEF LO, LN
  <2>2. oldUsed >= hunk.oldCount /\ newUsed >= hunk.newCount  BY <1>2, <1>4, <2>1
  <2> QED BY <2>2 DEF HunkDone
<1>6. at \in (g + 1)..Len(patch) /\ at \in 1..Len(patch)  BY <1>1, <1>2, <1>5
<1>7. patch[at].tag # "hunk" /\ patch[at].tag # "header"  BY <1>4, <1>5, <1>6 DEF Headers
<1>8. Adjacent(patch, g, at + 1)  BY <1>1, <1>2, <1>7, AdjacentGrows
<1>9. patch[at].tag \in {"-", "+", " ", "\\"}
  <2>1. patch[at] \in Records  BY <1>1, <1>6 DEF Patches
  <2> QED BY <1>7, <2>1 DEF Records, HunkHeaders, TextRecords
<1>10. ASSUME patch[at].tag \in OldSide  PROVE OldFits(Strip[patch[at].text])
  <2>1. at \in LO  BY <1>6, <1>8, <1>10 DEF LO, Listed
  <2>2. oldUsed < hunk.oldCount  BY <1>1, <1>2, <1>4, <2>1, ListedCounts DEF LO
  <2>3. B[1] + ListedBefore(patch, g, OldSide, at) + 1 = oldCursor + 1  BY <1>2, <1>3
  <2>4. TextOf[base[oldCursor + 1]] = Strip[patch[at].text]  BY <1>4, <2>1, <2>3
  <2>5. oldCursor < Len(base)
    <3> DEFINE x == B[1]
               c == hunk.oldCount
    <3>1. x \in Int /\ c \in Nat /\ oldCursor = x + oldUsed /\ x + c <= Len(base) /\ oldUsed < c
      BY <1>2, <1>3, <1>4, <2>2
    <3> HIDE DEF x, c
    <3> QED BY <1>1, <3>1
  <2> QED BY <2>2, <2>4, <2>5 DEF OldFits
<1>11. ASSUME patch[at].tag \in NewSide  PROVE NewFits(Strip[patch[at].text])
  <2>1. at \in LN  BY <1>6, <1>8, <1>11 DEF LN, Listed
  <2>2. newUsed < hunk.newCount  BY <1>1, <1>2, <1>4, <2>1, ListedCounts DEF LN
  <2>3. B[2] + ListedBefore(patch, g, NewSide, at) + 1 = newCursor + 1  BY <1>2, <1>3
  <2>4. TextOf[current[newCursor + 1]] = Strip[patch[at].text]  BY <1>4, <2>1, <2>3
  <2>5. newCursor < Len(current)
    <3> DEFINE x == B[2]
               c == hunk.newCount
    <3>1. x \in Int /\ c \in Nat /\ newCursor = x + newUsed /\ x + c <= Len(current) /\ newUsed < c
      BY <1>2, <1>3, <1>4, <2>2
    <3> HIDE DEF x, c
    <3> QED BY <1>1, <3>1
  <2> QED BY <2>2, <2>4, <2>5 DEF NewFits
<1>12. RecordFits(patch[at])
  <2>1. CASE patch[at].tag = "-"
    <3>1. OldFits(Strip[patch[at].text])  BY <1>10, <2>1 DEF OldSide
    <3> QED BY <2>1, <3>1 DEF RecordFits
  <2>2. CASE patch[at].tag = "+"
    <3>1. NewFits(Strip[patch[at].text])  BY <1>11, <2>2 DEF NewSide
    <3> QED BY <2>2, <3>1 DEF RecordFits
  <2>3. CASE patch[at].tag = " "
    <3>1. OldFits(Strip[patch[at].text]) /\ NewFits(Strip[patch[at].text])  BY <1>10, <1>11, <2>3 DEF OldSide, NewSide
    <3> QED BY <2>3, <3>1 DEF RecordFits
  <2>4. CASE patch[at].tag = "\\"  BY <2>4 DEF RecordFits
  <2> QED BY <1>9, <2>1, <2>2, <2>3, <2>4
<1> QED BY <1>1, <1>5, <1>8, <1>12

\* Behind the last hunk of the right patch both sources are the same.
LEMMA RestOfTheRightPatch ==
    ASSUME TypeOK, Describes(patch, base, current), NEW g, IsBehind(g), at > Len(patch)
    PROVE  RestFits
<1> DEFINE E == Behind(patch, g, base, current)
           m == Len(base)
           n == Len(current)
<1>1. /\ patch \in Patches /\ at \in Nat /\ oldCursor \in Nat /\ newCursor \in Nat
      /\ m \in Nat /\ n \in Nat /\ Len(patch) \in Nat
  BY SourcesAreLines DEF TypeOK, Patches
<1>2. g \in Headers(patch) \union {0} /\ g \in Nat /\ g <= Len(patch) /\ Adjacent(patch, g, at)
  BY <1>1 DEF IsBehind, Headers
<1>3. Adjacent(patch, g, Len(patch) + 1)  BY <1>1, <1>2, AdjacentGrows
<1>4. SameLines(base, current, E, Before(patch, Len(patch) + 1, base, current))
  BY <1>2, <1>3 DEF Describes
<1>5. Before(patch, Len(patch) + 1, base, current) = <<m, n>>  BY <1>1 DEF Before
<1>6. E[1] = oldCursor /\ E[2] = newCursor  BY DEF IsBehind
<1> HIDE DEF E, m, n
<1>7. /\ m - oldCursor = n - newCursor
      /\ \A i \in 1..(m - oldCursor) : TextOf[base[oldCursor + i]] = TextOf[current[newCursor + i]]
  <2>1. SameLines(base, current, E, <<m, n>>)  BY <1>4, <1>5
  <2>2. /\ m - E[1] = n - E[2]
        /\ \A i \in 1..(m - E[1]) : TextOf[base[E[1] + i]] = TextOf[current[E[2] + i]]
    BY <2>1 DEF SameLines
  <2> QED BY <1>6, <2>2
<1>8. hunkCount = 0 => base = current
  <2> SUFFICES ASSUME hunkCount = 0 PROVE base = current  OBVIOUS
  <2>1. g = 0 /\ \A j \in (0 + 1)..(at - 1) : j \notin Headers(patch)  BY <1>2 DEF IsBehind, Adjacent
  <2>2. \A j \in Headers(patch) : j \in (0 + 1)..(at - 1)  BY <1>1 DEF Headers
  <2>3. Headers(patch) = {}  BY <2>1, <2>2
  <2> QED BY <2>3 DEF Describes
<1> QED BY <1>7, <1>8 DEF RestFits, SameText, m, n

\* A line of a hunk moves the cursors on with the lines listed.
LEMMA StaysIn ==
    ASSUME TypeOK, NEW g, IsIn(g), Adjacent(patch, g, at + 1), at <= Len(patch),
           at' = at + 1, UNCHANGED <<patch, base, current, hunk, hunkCount>>,
           oldUsed' = oldUsed + Step(patch[at].tag \in OldSide),
           newUsed' = newUsed + Step(patch[at].tag \in NewSide),
           oldCursor' = oldCursor + Step(patch[at].tag \in OldSide),
           newCursor' = newCursor + Step(patch[at].tag \in NewSide)
    PROVE  IsIn(g)'
<1>1. /\ patch \in Patches /\ at \in Nat /\ oldCursor \in Nat /\ newCursor \in Nat
      /\ oldUsed \in Nat /\ newUsed \in Nat /\ Len(patch) \in Nat
  BY DEF TypeOK, Patches
<1>2. /\ g \in Headers(patch) /\ g \in Nat /\ g < at
      /\ oldUsed = ListedBefore(patch, g, OldSide, at) /\ newUsed = ListedBefore(patch, g, NewSide, at)
  BY <1>1, HeaderTypes DEF IsIn, Adjacent
<1>3. at \in (g + 1)..Len(patch)  BY <1>1, <1>2
<1>4. \A side : at \in Listed(patch, g, side) <=> patch[at].tag \in side  BY <1>3 DEF Listed
<1>5. /\ ListedBefore(patch, g, OldSide, at + 1) = oldUsed + Step(patch[at].tag \in OldSide)
      /\ ListedBefore(patch, g, NewSide, at + 1) = newUsed + Step(patch[at].tag \in NewSide)
  <2>1. ASSUME NEW side
        PROVE  ListedBefore(patch, g, side, at + 1) = ListedBefore(patch, g, side, at) + Step(patch[at].tag \in side)
    <3>1. patch \in Patches /\ g \in Nat /\ at \in Nat  BY <1>1, <1>2
    <3>2. /\ ListedBefore(patch, g, side, at) \in Nat
          /\ at \in Listed(patch, g, side) =>
                ListedBefore(patch, g, side, at + 1) = ListedBefore(patch, g, side, at) + 1
          /\ at \notin Listed(patch, g, side) =>
                ListedBefore(patch, g, side, at + 1) = ListedBefore(patch, g, side, at)
      BY <3>1, ListedCounts
    <3>3. at \in Listed(patch, g, side) <=> patch[at].tag \in side  BY <1>4
    <3>4. CASE patch[at].tag \in side  BY <3>2, <3>3, <3>4 DEF Step
    <3>5. CASE patch[at].tag \notin side
      <4>1. Step(patch[at].tag \in side) = 0  BY <3>5 DEF Step
      <4>2. ListedBefore(patch, g, side, at + 1) = ListedBefore(patch, g, side, at)  BY <3>2, <3>3, <3>5
      <4> QED BY <3>2, <4>1, <4>2
    <3> QED BY <3>4, <3>5
  <2> QED BY <1>2, <2>1
<1>6. Before(patch, g, base, current)[1] \in Int /\ Before(patch, g, base, current)[2] \in Int
  BY <1>1, <1>2, HunkStarts
<1>7. /\ oldCursor' = Before(patch, g, base, current)[1] + oldUsed'
      /\ newCursor' = Before(patch, g, base, current)[2] + newUsed'
  <2> DEFINE x == Before(patch, g, base, current)[1]
             y == Before(patch, g, base, current)[2]
             i == Step(patch[at].tag \in OldSide)
             j == Step(patch[at].tag \in NewSide)
  <2>1. i \in Int /\ j \in Int  BY DEF Step
  <2>2. /\ x \in Int /\ y \in Int /\ oldCursor = x + oldUsed /\ newCursor = y + newUsed
        /\ oldCursor' = oldCursor + i /\ oldUsed' = oldUsed + i
        /\ newCursor' = newCursor + j /\ newUsed' = newUsed + j
    BY <1>6 DEF IsIn
  <2> HIDE DEF x, y, i, j
  <2>3. oldCursor' = x + oldUsed' /\ newCursor' = y + newUsed'  BY <1>1, <2>1, <2>2
  <2> QED BY <2>3 DEF x, y
<1> QED BY <1>2, <1>5, <1>7 DEF IsIn

LEMMA NothingDescribed == Describes(<<>>, <<>>, <<>>)
<1> DEFINE p == <<>>
<1>1. Len(p) = 0 /\ Headers(p) = {}  BY DEF Headers
<1>2. Behind(p, 0, p, p) = <<0, 0>> /\ Before(p, 1, p, p) = <<0, 0>>  BY DEF Behind, Before
<1>3. SameLines(p, p, <<0, 0>>, <<0, 0>>)  BY DEF SameLines
<1>4. SameLines(p, p, Behind(p, 0, p, p), Before(p, 1, p, p))  BY <1>2, <1>3
<1>5. Len(p) + 1 = 1  BY <1>1
<1> HIDE DEF p
<1>6. Describes(p, p, p)  BY <1>1, <1>4, <1>5 DEF Describes
<1> QED BY <1>6 DEF p

\* A patch that calls the sources binary is not supported.
LEMMA BinaryIsRefused ==
    ASSUME CallsBinary(patch)
    PROVE  ~Supported
<1>1. PICK k \in DOMAIN patch : patch[k].tag = "header" /\ patch[k].text \in Marked  BY DEF CallsBinary
<1>2. patch[k].tag # "\\"  BY <1>1
<1> QED BY <1>1, <1>2 DEF Supported

\* What git prints for the bytes that were read, or the code in its place.
LEMMA ReadPatchDescribed ==
    ASSUME TypeOK, PatchFollows, ReadPatch, Trusted'
    PROVE  (CallsBinary(patch) \/ Describes(patch, base, current))'
<1>1. /\ base \in Contents /\ current \in Contents /\ current \in Seq(Lines) /\ indexed \in BOOLEAN
      /\ baseExists \in BOOLEAN
      /\ baseExists \/ base = <<>>
  BY SourcesAreLines DEF TypeOK, PatchFollows
<1>2. /\ worktree = current /\ (indexed \/ (~baseExists /\ ~TwoReturns)) /\ base' = base /\ current' = current
  BY DEF ReadPatch, Trusted, TwoReturns
<1>3. PICK printed \in PrintedPatches :
        patch' = IF ~baseExists /\ printed = <<>> /\ current # <<>> THEN AddedFilePatch ELSE printed
  BY DEF ReadPatch
<1>4. ASSUME indexed  PROVE CallsBinary(printed) \/ Describes(printed, base, current)
  <2>1. printed \in GitDiff[<<base, current>>]  BY <1>2, <1>3, <1>4 DEF PrintedPatches
  <2>2. \A b, w \in Contents : \A p \in GitDiff[<<b, w>>] : CallsBinary(p) \/ Describes(p, b, w)
    BY GitAssumption
  <2> QED BY <1>1, <2>1, <2>2, Zenon
<1>5. CASE indexed
  <2>1. patch' = printed
    <3> SUFFICES ASSUME ~baseExists, printed = <<>>, current # <<>> PROVE FALSE  BY <1>3
    <3>1. Headers(printed) = {} /\ ~CallsBinary(printed)  BY DEF Headers, CallsBinary
    <3>2. base = current  BY <1>4, <1>5, <3>1 DEF Describes
    <3> QED BY <1>1, <3>2
  <2> QED BY <1>2, <1>4, <1>5, <2>1
<1>6. CASE ~indexed
  <2>1. ~baseExists /\ base = <<>> /\ printed = <<>> /\ ~TwoReturns
    BY <1>1, <1>2, <1>3, <1>6 DEF PrintedPatches
  <2>2. CASE current = <<>>
    <3>1. patch' = <<>>  BY <1>3, <2>1, <2>2
    <3> QED BY <1>2, <2>1, <2>2, <3>1, NothingDescribed
  <2>3. CASE current # <<>>
    <3>1. patch' = AddedFilePatch  BY <1>3, <2>1, <2>3
    <3>2. Describes(AddedFilePatch, base, current)  BY <1>1, <2>1, <2>3, AddedFileDescribed
    <3> QED BY <1>2, <3>1, <3>2
  <2> QED BY <2>2, <2>3
<1> QED BY <1>1, <1>5, <1>6

LEMMA FollowedStep ==
    ASSUME TypeOK, PatchFollows, Trusted, [Next]_vars, stage # "read"
    PROVE  Followed'
<1>0. /\ patch \in Patches /\ at \in Nat /\ hunkCount \in Nat /\ oldCursor \in Nat /\ newCursor \in Nat
      /\ oldUsed \in Nat /\ newUsed \in Nat
  BY DEF TypeOK
<1>f. Followed  BY DEF PatchFollows
<1>1. CASE UNCHANGED vars
  <2>1. UNCHANGED <<stage, patch, at, base, current, hunk, hunkCount, oldUsed, newUsed, oldCursor, newCursor>>
    BY <1>1 DEF vars, inputs, progress, cursors
  <2>2. \A g : (IsBehind(g) => IsBehind(g)') /\ (IsIn(g) => IsIn(g)')  BY <2>1 DEF IsBehind, IsIn
  <2>3. Supported' <=> Supported  BY <1>1 DEF vars, inputs, Supported
  <2> QED BY <1>f, <2>1, <2>2, <2>3 DEF Followed
<1>2. CASE Skip
  <2>1. /\ stage = "between" /\ stage' = "between" /\ at' = at + 1 /\ at <= Len(patch) /\ patch[at].tag # "hunk"
        /\ UNCHANGED <<patch, base, current, hunkCount, oldCursor, newCursor>>
    BY <1>2 DEF Skip, inputs, cursors
  <2>2. PICK g : IsBehind(g)  BY <1>f, <2>1 DEF Followed
  <2>3. g \in Nat /\ Adjacent(patch, g, at)  BY <1>0, <2>2, HeaderTypes DEF IsBehind
  <2>4. Adjacent(patch, g, at + 1)  BY <1>0, <2>1, <2>3, AdjacentGrows
  <2>5. IsBehind(g)'  BY <2>1, <2>2, <2>4 DEF IsBehind
  <2>6. Describes(patch, base, current)'  BY <1>f, <2>1 DEF Followed
  <2> QED BY <2>1, <2>5, <2>6 DEF Followed
<1>3. CASE EnterHunk
  <2> DEFINE o == HunkIndex(patch[at].oldStart, patch[at].oldCount)
             n == HunkIndex(patch[at].newStart, patch[at].newCount)
  <2>1. /\ stage = "between" /\ stage' = "inside" /\ at' = at + 1 /\ at <= Len(patch) /\ patch[at].tag = "hunk"
        /\ UNCHANGED <<patch, base, current>>
        /\ hunk' = patch[at] /\ hunkCount' = hunkCount + 1 /\ oldUsed' = 0 /\ newUsed' = 0
        /\ oldCursor' = oldCursor + (o - oldCursor) /\ newCursor' = newCursor + (o - oldCursor)
    BY <1>3 DEF EnterHunk, inputs
  <2>2. HunkFits(patch[at])  BY <1>3 DEF EnterHunk
  <2>3. at \in 1..Len(patch)  BY <2>1 DEF TypeOK
  <2>4. at \in Headers(patch)  BY <2>1, <2>3 DEF Headers
  <2>5. /\ Before(patch, at, base, current)[1] = o /\ Before(patch, at, base, current)[2] = n
        /\ o \in Int /\ n \in Int
    BY <1>0, <2>4, HunkStarts
  <2>6. o - oldCursor = n - newCursor  BY <2>2 DEF HunkFits
  <2> HIDE DEF o, n
  <2>7. oldCursor' = o + 0 /\ newCursor' = n + 0  BY <1>0, <2>1, <2>5, <2>6
  <2>8. \A side : ListedBefore(patch, at, side, at + 1) = 0  BY <1>0, ListedCounts
  <2>9. Adjacent(patch, at, at + 1)  BY <1>0, AdjacentGrows
  <2>10. (hunkCount + 1) # 0  BY <1>0
  <2> DEFINE g == at
  <2>11. /\ g \in Headers(patch') /\ Adjacent(patch', g, at') /\ hunk' = patch'[g] /\ hunkCount' # 0
         /\ oldUsed' = ListedBefore(patch', g, OldSide, at') /\ newUsed' = ListedBefore(patch', g, NewSide, at')
         /\ oldCursor' = Before(patch', g, base', current')[1] + oldUsed'
         /\ newCursor' = Before(patch', g, base', current')[2] + newUsed'
    BY <2>1, <2>4, <2>5, <2>7, <2>8, <2>9, <2>10
  <2> HIDE DEF g
  <2>12. (\E i : IsIn(i))'  BY <2>11 DEF IsIn
  <2>13. Describes(patch, base, current)'  BY <1>f, <2>1 DEF Followed
  <2> QED BY <2>1, <2>12, <2>13 DEF Followed
<1>4. CASE NoNewline \/ Deleted \/ Added \/ Context
  <2>1. /\ stage = "inside" /\ stage' = "inside" /\ at' = at + 1 /\ ~HunkDone
        /\ UNCHANGED <<patch, base, current, hunk, hunkCount>>
    BY <1>4 DEF NoNewline, Deleted, Added, Context, Consume, inputs
  <2>2. /\ oldUsed' = oldUsed + Step(patch[at].tag \in OldSide)
        /\ newUsed' = newUsed + Step(patch[at].tag \in NewSide)
        /\ oldCursor' = oldCursor + Step(patch[at].tag \in OldSide)
        /\ newCursor' = newCursor + Step(patch[at].tag \in NewSide)
    <3>1. CASE NoNewline
      <4>1. patch[at].tag = "\\" /\ UNCHANGED <<oldUsed, newUsed, oldCursor, newCursor>>
        BY <3>1 DEF NoNewline, Consume, cursors
      <4>2. Step(patch[at].tag \in OldSide) = 0 /\ Step(patch[at].tag \in NewSide) = 0
        BY <4>1 DEF Step, OldSide, NewSide
      <4> QED BY <1>0, <4>1, <4>2
    <3>2. CASE Deleted
      <4>1. patch[at].tag = "-" /\ UNCHANGED <<newUsed, newCursor>>
            /\ oldUsed' = oldUsed + 1 /\ oldCursor' = oldCursor + 1
        BY <3>2 DEF Deleted, Consume
      <4>2. Step(patch[at].tag \in OldSide) = 1 /\ Step(patch[at].tag \in NewSide) = 0
        BY <4>1 DEF Step, OldSide, NewSide
      <4> QED BY <1>0, <4>1, <4>2
    <3>3. CASE Added
      <4>1. patch[at].tag = "+" /\ UNCHANGED <<oldUsed, oldCursor>>
            /\ newUsed' = newUsed + 1 /\ newCursor' = newCursor + 1
        BY <3>3 DEF Added, Consume
      <4>2. Step(patch[at].tag \in OldSide) = 0 /\ Step(patch[at].tag \in NewSide) = 1
        BY <4>1 DEF Step, OldSide, NewSide
      <4> QED BY <1>0, <4>1, <4>2
    <3>4. CASE Context
      <4>1. /\ patch[at].tag = " " /\ oldUsed' = oldUsed + 1 /\ oldCursor' = oldCursor + 1
            /\ newUsed' = newUsed + 1 /\ newCursor' = newCursor + 1
        BY <3>4 DEF Context, Consume
      <4>2. Step(patch[at].tag \in OldSide) = 1 /\ Step(patch[at].tag \in NewSide) = 1
        BY <4>1 DEF Step, OldSide, NewSide
      <4> QED BY <4>1, <4>2
    <3> QED BY <1>4, <3>1, <3>2, <3>3, <3>4
  <2>3. PICK g : IsIn(g)  BY <1>f, <2>1 DEF Followed
  <2>4. Describes(patch, base, current)  BY <1>f, <2>1 DEF Followed
  <2>5. at <= Len(patch) /\ Adjacent(patch, g, at + 1)  BY <2>1, <2>3, <2>4, RecordOfTheRightPatch
  <2>6. IsIn(g)'  BY <2>1, <2>2, <2>3, <2>5, StaysIn
  <2>7. Describes(patch, base, current)'  BY <2>1, <2>4
  <2> QED BY <2>1, <2>6, <2>7 DEF Followed
<1>5. CASE LeaveHunk
  <2>1. /\ stage = "inside" /\ stage' = "between" /\ HunkDone
        /\ UNCHANGED <<patch, base, current, hunk, hunkCount, at, oldCursor, newCursor, oldUsed, newUsed>>
    BY <1>5 DEF LeaveHunk, inputs, progress
  <2>2. PICK g : IsIn(g)  BY <1>f, <2>1 DEF Followed
  <2>3. Describes(patch, base, current)  BY <1>f, <2>1 DEF Followed
  <2>4. g \in Headers(patch) /\ g \in Nat /\ g # 0 /\ hunk = patch[g] /\ Adjacent(patch, g, at) /\ hunkCount # 0
    <3>1. g \in Headers(patch)  BY <2>2 DEF IsIn
    <3>2. g \in 1..Len(patch)  BY <1>0, <3>1, HeaderTypes
    <3> QED BY <2>2, <3>1, <3>2 DEF IsIn
  <2>5. patch[g].oldCount \in Nat /\ patch[g].newCount \in Nat  BY <1>0, <2>4, HeaderTypes
  <2>6. oldUsed <= patch[g].oldCount /\ newUsed <= patch[g].newCount
    <3>1. /\ Cardinality(Listed(patch, g, OldSide)) = patch[g].oldCount
          /\ Cardinality(Listed(patch, g, NewSide)) = patch[g].newCount
      BY <2>3, <2>4 DEF Describes, Lists
    <3>2. \A side : ListedBefore(patch, g, side, at) <= Cardinality(Listed(patch, g, side))
      BY <1>0, <2>4, ListedCounts
    <3> QED BY <2>2, <3>1, <3>2 DEF IsIn
  <2>7. oldUsed = patch[g].oldCount /\ newUsed = patch[g].newCount
    BY <1>0, <2>1, <2>4, <2>5, <2>6 DEF HunkDone
  <2>8. /\ oldCursor = Behind(patch, g, base, current)[1]
        /\ newCursor = Behind(patch, g, base, current)[2]
    BY <1>0, <2>2, <2>4, <2>7, HunkStarts DEF IsIn
  <2>9. IsBehind(g)  BY <2>4, <2>8 DEF IsBehind
  <2>10. IsBehind(g)'  BY <2>1, <2>9 DEF IsBehind
  <2>11. Describes(patch, base, current)'  BY <2>1, <2>3
  <2> QED BY <2>1, <2>10, <2>11 DEF Followed
<1>6. CASE Refuse
  <2>a. stage' = "refused" /\ (Supported' <=> Supported)  BY <1>6 DEF Refuse, inputs, Supported
  <2> SUFFICES ASSUME Supported PROVE FALSE  BY <2>a DEF Followed
  <2>1. CASE stage = "between" /\ at <= Len(patch) /\ patch[at].tag = "hunk" /\ ~HunkFits(patch[at])
    <3>1. PICK g : IsBehind(g)  BY <1>f, <2>1 DEF Followed
    <3>2. at \in Headers(patch)  BY <2>1 DEF TypeOK, Headers
    <3>3. Describes(patch, base, current)  BY <1>f, <2>1 DEF Followed
    <3> QED BY <2>1, <3>1, <3>2, <3>3, HunkOfTheRightPatch
  <2>2. CASE stage = "inside" /\ ~HunkDone /\ (at <= Len(patch) => ~RecordFits(patch[at]))
    <3>1. PICK g : IsIn(g)  BY <1>f, <2>2 DEF Followed
    <3>2. Describes(patch, base, current)  BY <1>f, <2>2 DEF Followed
    <3> QED BY <2>2, <3>1, <3>2, RecordOfTheRightPatch
  <2>3. CASE stage = "between" /\ at > Len(patch) /\ ~RestFits
    <3>1. PICK g : IsBehind(g)  BY <1>f, <2>3 DEF Followed
    <3>2. Describes(patch, base, current)  BY <1>f, <2>3 DEF Followed
    <3> QED BY <2>3, <3>1, <3>2, RestOfTheRightPatch
  <2> QED BY <1>6, <2>1, <2>2, <2>3 DEF Refuse, Supported
<1>7. CASE Finish \/ Render
  <2>1. stage' \in {"aligned", "rendered", "invalid"}  BY <1>7 DEF Finish, Render
  <2> QED BY <2>1 DEF Followed
<1>9. CASE ParsePatch
  <2>1. /\ stage = "printed" /\ stage' = "between" /\ Supported
        /\ UNCHANGED <<patch, base, current, at, hunkCount, oldCursor, newCursor>>
    BY <1>9 DEF ParsePatch, inputs, progress, cursors
  <2>2. Describes(patch, base, current)'  BY <1>f, <2>1 DEF Followed
  <2>3. at = 1 /\ hunkCount = 0 /\ oldCursor = 0 /\ newCursor = 0  BY <2>1 DEF PatchFollows
  <2>4. IsBehind(0)'
    <3>1. \A p, b, w : Behind(p, 0, b, w) = <<0, 0>>  BY DEF Behind
    <3>2. Behind(patch', 0, base', current') = <<0, 0>>  BY <3>1
    <3>3. \A p : Adjacent(p, 0, 1)  BY DEF Adjacent
    <3> QED BY <2>1, <2>3, <3>2, <3>3 DEF IsBehind
  <2> QED BY <2>1, <2>2, <2>4 DEF Followed
<1>8. CASE EditWorktree \/ ReadPatch \/ GitFails
  BY <1>8 DEF EditWorktree, ReadPatch, GitFails
<1> QED BY <1>1, <1>2, <1>3, <1>4, <1>5, <1>6, <1>7, <1>8, <1>9 DEF Next

LEMMA PatchStep == IInv /\ PatchFollows /\ [Next]_vars => PatchFollows'
<1> SUFFICES ASSUME TypeOK, PatchFollows, [Next]_vars PROVE PatchFollows'  BY DEF IInv
<1>1. /\ UNCHANGED <<current, base, baseExists, indexed>>
      /\ stage' \in {"read", "printed"} =>
            UNCHANGED <<progress, oldCursor, newCursor>> /\ stage \in {"read", "printed"}
  BY DEF Next, EditWorktree, ReadPatch, GitFails, ParsePatch, Skip, EnterHunk, NoNewline, Deleted, Added, Context,
         Consume, LeaveHunk, Finish, Refuse, Render, vars, inputs, cursors
<1>2. baseExists' \/ base' = <<>>  BY <1>1 DEF PatchFollows
<1>3. (stage \in {"read", "printed"} => at = 1 /\ hunkCount = 0 /\ oldCursor = 0 /\ newCursor = 0)'
  BY <1>1 DEF PatchFollows, progress
<1>4. ASSUME Trusted'  PROVE Followed'
  <2>1. CASE stage # "read"
    <3>1. seen' = seen
      BY <2>1 DEF Next, EditWorktree, ReadPatch, GitFails, ParsePatch, Skip, EnterHunk, NoNewline, Deleted, Added,
                  Context, Consume, LeaveHunk, Finish, Refuse, Render, vars, inputs, cursors
    <3>2. Trusted  BY <1>1, <1>4, <3>1 DEF Trusted, TwoReturns
    <3> QED BY <2>1, <3>2, FollowedStep
  <2>2. CASE stage = "read" /\ ReadPatch
    <3>1. stage' = "printed"  BY <2>2 DEF ReadPatch
    <3>2. (CallsBinary(patch) \/ Describes(patch, base, current))'  BY <1>4, <2>2, ReadPatchDescribed
    <3>3. CallsBinary(patch)' => ~Supported'  BY BinaryIsRefused, PTL
    <3> QED BY <3>1, <3>2, <3>3 DEF Followed
  <2>3. CASE stage = "read" /\ Refuse
    <3>1. stage' = "refused" /\ current' \in OversizedSources  BY <2>3 DEF Refuse, inputs
    <3> QED BY <3>1 DEF Followed, Supported
  <2>4. CASE stage = "read" /\ ~ReadPatch /\ ~Refuse
    <3>1. stage' \in {"read", "failed"}
      BY <2>4 DEF Next, EditWorktree, GitFails, ParsePatch, Skip, EnterHunk, NoNewline, Deleted, Added, Context,
                  Consume, LeaveHunk, Finish, Render, vars
    <3> QED BY <3>1 DEF Followed
  <2> QED BY <2>1, <2>2, <2>3, <2>4
<1> QED BY <1>2, <1>3, <1>4 DEF PatchFollows

\* For all sources and whichever patch git prints in its format: the patch of the
\* bytes that were read is followed to its end.  What the code refuses is input it
\* does not support, a save in between, a file of the base that left the index, or
\* an untracked file with a line that ends with two returns.
THEOREM RightPatchIsAccepted == Spec => []RightPatchAccepted
<1>1. Init => PatchFollows  BY DEF Init, PatchFollows, Followed
<1>2. IInv /\ PatchFollows => RightPatchAccepted
  BY DEF IInv, TypeOK, PatchFollows, Followed, Trusted, RightPatchAccepted
<1> QED BY <1>1, <1>2, InitIInv, NextIInv, PatchStep, PTL DEF Spec
=============================================================================
