------------------------------ MODULE FileDiff ------------------------------
(***************************************************************************)
(* The diff of one document against the comparison base: gitdiff's         *)
(* BuildFileDiff and alignPatch, and what internal/render makes of the     *)
(* aligned rows.                                                           *)
(*                                                                         *)
(* A request reads the document first; git reads the worktree later, so    *)
(* the patch may lead to a content other than the one that is shown.  The  *)
(* patch is therefore checked line by line against both sources while the  *)
(* rows are built.                                                         *)
(*                                                                         *)
(* A source is the sequence of its lines.  RawOf drops a line's newline    *)
(* and Strip one carriage return at the end; TextOf drops both, like       *)
(* splitSourceLines, so that different lines can have one text.  The byte  *)
(* range in a row stands for its line number: both are taken from the same *)
(* source line.                                                            *)
(***************************************************************************)
EXTENDS Integers, Sequences, FiniteSets

CONSTANTS
    Lines, Texts, NoText,   \* source lines with their terminators; texts, the empty one
    RawOf, Strip,           \* a line without its newline; a text without a last return
    Foreign, Marked,        \* texts that are not UTF-8 or hold a NUL; with git's words for binary data
    Contents,               \* the sources a document can have
    OversizedSources,       \* those beyond maxDiffSourceBytes
    OversizedPatches,       \* patches beyond maxPatchBytes
    GitDiff                 \* GitDiff[b, w]: the patches from b to w git may print

\* The records of a patch.  A hunk header ends with a line of the base that git
\* takes for its heading.  Lines of the file headers are "header" records; "\"
\* is the remark that a line has no newline at its end.
HunkHeaders ==
    [tag : {"hunk"}, oldStart : Nat, oldCount : Nat, newStart : Nat, newCount : Nat, text : Texts]
TextRecords == [tag : {"-", "+", " ", "header"}, text : Texts]
Records == HunkHeaders \union TextRecords \union [tag : {"\\"}]

Patches == Seq(Records)

ASSUME LinesAssumption ==
    /\ RawOf \in [Lines -> Texts] /\ Strip \in [Texts -> Texts]
    /\ NoText \in Texts \ (Foreign \union Marked)
    /\ \A content \in Contents : content \in Seq(Lines)

TextOf == [l \in Lines |-> Strip[RawOf[l]]]

\* git's unified format (external): what a patch p from b to w says.  A header
\* numbers the first of its lines, or the line before them when it has none.
LinesBefore(start, count) == start - (IF count = 0 THEN 0 ELSE 1)
Headers(p) == {k \in 1..Len(p) : p[k].tag = "hunk"}
Adjacent(p, g, h) == g < h /\ Headers(p) \intersect ((g + 1)..(h - 1)) = {}

\* The records of the hunk with header h that are lines of one side, and how
\* many of them stand before the k-th record.
OldSide == {"-", " "}
NewSide == {"+", " "}
Listed(p, h, side) == {k \in (h + 1)..Len(p) : p[k].tag \in side /\ Adjacent(p, h, k + 1)}
ListedBefore(p, h, side, k) == Cardinality({j \in Listed(p, h, side) : j < k})

\* The hunk lists count lines of s, those behind its first m ones.
Lists(p, h, side, s, m, count) ==
    /\ Cardinality(Listed(p, h, side)) = count /\ m + count <= Len(s)
    /\ \A k \in Listed(p, h, side) : Strip[p[k].text] = TextOf[s[m + ListedBefore(p, h, side, k) + 1]]

\* The lines of b and w before and behind a hunk; 0 and Len(p) + 1 stand for a
\* hunk of no lines in front of both sources and at their ends.
Before(p, h, b, w) ==
    IF h > Len(p) THEN <<Len(b), Len(w)>>
    ELSE <<LinesBefore(p[h].oldStart, p[h].oldCount), LinesBefore(p[h].newStart, p[h].newCount)>>
Behind(p, g, b, w) ==
    IF g = 0 THEN <<0, 0>>
    ELSE <<Before(p, g, b, w)[1] + p[g].oldCount, Before(p, g, b, w)[2] + p[g].newCount>>
SameLines(b, w, from, to) ==
    /\ to[1] >= from[1] /\ to[1] - from[1] = to[2] - from[2]
    /\ \A i \in 1..(to[1] - from[1]) : TextOf[b[from[1] + i]] = TextOf[w[from[2] + i]]

\* Its hunks list lines of both sources, and between them both are the same.
Describes(p, b, w) ==
    /\ \A h \in Headers(p) :
          /\ Lists(p, h, OldSide, b, Before(p, h, b, w)[1], p[h].oldCount)
          /\ Lists(p, h, NewSide, w, Before(p, h, b, w)[2], p[h].newCount)
          /\ \A k \in (h + 1)..Len(p) : p[k].tag # "header"
    /\ \A g \in Headers(p) \union {0}, h \in Headers(p) \union {Len(p) + 1} :
          Adjacent(p, g, h) => SameLines(b, w, Behind(p, g, b, w), Before(p, h, b, w))
    /\ Headers(p) = {} => b = w

\* git prints such a patch, or a line that only says that the sources differ.
CallsBinary(p) == \E k \in DOMAIN p : p[k].tag = "header" /\ p[k].text \in Marked

ASSUME GitAssumption ==
    /\ <<>> \in Contents /\ GitDiff \in [Contents \X Contents -> SUBSET Patches]
    /\ \A b, w \in Contents : \A p \in GitDiff[<<b, w>>] : CallsBinary(p) \/ Describes(p, b, w)

VARIABLES
    worktree, current,          \* the document on disk; the bytes the request read
    base, baseExists, indexed,  \* its blob at the base; whether there is one; git tracks it
    seen,                       \* ghost: the content git compared with the base
    stage, patch, at,           \* progress, the patch and the record it is at
    hunk, hunkCount,            \* the header of the hunk it is in, hunks so far
    oldUsed, newUsed,           \* lines of that hunk consumed
    oldCursor, newCursor,       \* lines of either source consumed
    oldShown, newShown,         \* those with a row; the rest is the pending group
    rows, overview              \* the result, and its change markers

inputs == <<worktree, current, base, baseExists, indexed, seen, patch>>
cursors == <<oldCursor, newCursor, oldShown, newShown, rows>>
progress == <<at, hunk, hunkCount, oldUsed, newUsed>>
vars == <<inputs, stage, progress, cursors, overview>>

Stages == {"read", "printed", "between", "inside", "aligned", "rendered", "failed", "refused", "invalid"}
Kinds == {"unchanged", "added", "modified", "deleted"}
Rows == [kind : Kinds, old : Nat, new : Nat]
NoHunk ==
    [tag |-> "hunk", oldStart |-> 0, oldCount |-> 0, newStart |-> 0, newCount |-> 0, text |-> NoText]

Unchanged(o, n) == [kind |-> "unchanged", old |-> o, new |-> n]

\* appendUnchanged: k omitted lines, after verifying them.
SameText(o, n, k) == \A i \in 1..k : TextOf[base[o + i]] = TextOf[current[n + i]]
UnchangedRows(k) == [i \in 1..k |-> Unchanged(oldCursor + i, newCursor + i)]

\* appendChangedGroup: the i-th deleted line is paired with the i-th added one.
PairedRow(i) ==
    LET hasOld == oldShown + i <= oldCursor
        hasNew == newShown + i <= newCursor
    IN [kind |-> IF hasOld /\ hasNew THEN "modified" ELSE IF hasOld THEN "deleted" ELSE "added",
        old |-> IF hasOld THEN oldShown + i ELSE 0,
        new |-> IF hasNew THEN newShown + i ELSE 0]
Larger(m, n) == IF m > n THEN m ELSE n
\* Mutant of GroupRows: the surplus of the longer side gets no rows.
GroupRowsOfPairs ==
    [i \in 1..(oldCursor - oldShown + newCursor - newShown
                - Larger(oldCursor - oldShown, newCursor - newShown)) |-> PairedRow(i)]

GroupRows == [i \in 1..Larger(oldCursor - oldShown, newCursor - newShown) |-> PairedRow(i)]

\* The number of lines before a hunk.  With a count of zero the header names
\* the line before it.
HunkIndexOffByOne(start, count) == start - 1       \* mutant: without that rule

HunkIndex(start, count) == IF count = 0 THEN start ELSE start - 1

\* The patch of an untracked file.  Its texts have lost a carriage return already.
AddedFilePatch ==
    <<[tag |-> "hunk", oldStart |-> 0, oldCount |-> 0, newStart |-> 1, newCount |-> Len(current),
       text |-> NoText]>>
        \o [i \in 1..Len(current) |-> [tag |-> "+", text |-> TextOf[current[i]]]]

Init ==
    /\ worktree \in Contents /\ current = worktree
    /\ base \in Contents /\ baseExists \in BOOLEAN /\ indexed \in BOOLEAN
    /\ baseExists \/ base = <<>>
    /\ seen = worktree
    /\ stage = "read" /\ patch = <<>> /\ at = 1
    /\ hunk = NoHunk /\ hunkCount = 0 /\ oldUsed = 0 /\ newUsed = 0
    /\ oldCursor = 0 /\ newCursor = 0 /\ oldShown = 0 /\ newShown = 0
    /\ rows = <<>> /\ overview = <<>>

-----------------------------------------------------------------------------

\* The document is saved between the two reads.  Bound: once.
EditWorktree ==
    /\ stage = "read" /\ worktree = current
    /\ \E content \in Contents \ {current} : worktree' = content
    /\ UNCHANGED <<current, base, baseExists, indexed, seen, patch, stage, progress, cursors, overview>>

\* git diff knows only what is in the index: a file of the base that is not
\* there counts as deleted, another one as nothing at all.
PrintedPatches ==
    IF indexed THEN GitDiff[base, worktree]
    ELSE IF baseExists THEN GitDiff[base, <<>>] ELSE {<<>>}

ReadPatch ==
    /\ stage = "read" /\ {base, current} \intersect OversizedSources = {}
    /\ \E printed \in PrintedPatches \ OversizedPatches :
          patch' = IF ~baseExists /\ printed = <<>> /\ current # <<>> THEN AddedFilePatch ELSE printed
    /\ seen' = worktree
    /\ stage' = "printed"
    /\ UNCHANGED <<worktree, current, base, baseExists, indexed, progress, cursors, overview>>

\* A git command fails, times out or prints more than its bound.
GitFails ==
    /\ stage = "read" /\ current \notin OversizedSources
    /\ stage' = "failed"
    /\ UNCHANGED <<inputs, progress, cursors, overview>>

-----------------------------------------------------------------------------

\* What ParsePatch demands before it aligns: text within the bounds, and nowhere
\* in the patch the words git uses for binary data.
Supported ==
    /\ current \notin OversizedSources /\ patch \notin OversizedPatches
    /\ \A source \in {base, current} : \A i \in DOMAIN source : RawOf[source[i]] \notin Foreign
    /\ \A k \in DOMAIN patch : patch[k].tag # "\\" => patch[k].text \notin Foreign \union Marked

ParsePatch ==
    /\ stage = "printed" /\ Supported
    /\ stage' = "between"
    /\ UNCHANGED <<inputs, progress, cursors, overview>>

HunkFits(h) ==
    LET oldTarget == HunkIndex(h.oldStart, h.oldCount)
        newTarget == HunkIndex(h.newStart, h.newCount)
    IN /\ oldTarget \in oldCursor..Len(base)
       /\ newTarget \in newCursor..Len(current)
       /\ oldTarget - oldCursor = newTarget - newCursor
       /\ SameText(oldCursor, newCursor, oldTarget - oldCursor)

HunkDone == oldUsed >= hunk.oldCount /\ newUsed >= hunk.newCount

OldFits(text) == oldCursor < Len(base) /\ oldUsed < hunk.oldCount /\ TextOf[base[oldCursor + 1]] = text
NewFits(text) ==
    newCursor < Len(current) /\ newUsed < hunk.newCount /\ TextOf[current[newCursor + 1]] = text

RecordFits(r) ==
    CASE r.tag = "-" -> OldFits(Strip[r.text])
      [] r.tag = "+" -> NewFits(Strip[r.text])
      [] r.tag = " " -> OldFits(Strip[r.text]) /\ NewFits(Strip[r.text])
      [] OTHER       -> r.tag = "\\"

\* Mutant of RestFits: texts behind the last hunk are not compared.
RestFitsUnread == Len(base) - oldCursor = Len(current) - newCursor /\ (hunkCount = 0 => base = current)

\* What is left of both sources behind the last hunk is the same; without any
\* hunk even its bytes are.
RestFits ==
    /\ Len(base) - oldCursor = Len(current) - newCursor
    /\ SameText(oldCursor, newCursor, Len(base) - oldCursor)
    /\ hunkCount = 0 => base = current

\* File headers, and whatever else follows a hunk.
Skip ==
    /\ stage = "between" /\ at <= Len(patch) /\ patch[at].tag # "hunk"
    /\ at' = at + 1
    /\ UNCHANGED <<inputs, stage, hunk, hunkCount, oldUsed, newUsed, cursors, overview>>

EnterHunk ==
    /\ stage = "between" /\ at <= Len(patch) /\ patch[at].tag = "hunk"
    /\ HunkFits(patch[at])
    /\ LET gap == HunkIndex(patch[at].oldStart, patch[at].oldCount) - oldCursor
       IN /\ rows' = rows \o UnchangedRows(gap)
          /\ oldCursor' = oldCursor + gap /\ oldShown' = oldCursor + gap
          /\ newCursor' = newCursor + gap /\ newShown' = newCursor + gap
    /\ hunk' = patch[at] /\ hunkCount' = hunkCount + 1 /\ oldUsed' = 0 /\ newUsed' = 0
    /\ at' = at + 1
    /\ stage' = "inside"
    /\ UNCHANGED <<inputs, overview>>

Consume(tag) ==
    /\ stage = "inside" /\ ~HunkDone /\ at <= Len(patch) /\ patch[at].tag = tag
    /\ RecordFits(patch[at])
    /\ at' = at + 1
    /\ UNCHANGED <<inputs, stage, hunk, hunkCount, overview>>

NoNewline ==
    /\ Consume("\\")
    /\ UNCHANGED <<oldUsed, newUsed, cursors>>

Deleted ==
    /\ Consume("-")
    /\ oldCursor' = oldCursor + 1 /\ oldUsed' = oldUsed + 1
    /\ UNCHANGED <<newCursor, newUsed, oldShown, newShown, rows>>

Added ==
    /\ Consume("+")
    /\ newCursor' = newCursor + 1 /\ newUsed' = newUsed + 1
    /\ UNCHANGED <<oldCursor, oldUsed, oldShown, newShown, rows>>

Context ==
    /\ Consume(" ")
    /\ rows' = rows \o (GroupRows \o <<Unchanged(oldCursor + 1, newCursor + 1)>>)
    /\ oldCursor' = oldCursor + 1 /\ oldShown' = oldCursor + 1 /\ oldUsed' = oldUsed + 1
    /\ newCursor' = newCursor + 1 /\ newShown' = newCursor + 1 /\ newUsed' = newUsed + 1

\* Mutant of LeaveHunk: the group is not flushed behind the last line of a hunk.
LeaveHunkUnflushed ==
    /\ stage = "inside" /\ HunkDone
    /\ stage' = "between"
    /\ UNCHANGED <<inputs, progress, cursors, overview>>

LeaveHunk ==
    /\ stage = "inside" /\ HunkDone
    /\ rows' = rows \o GroupRows
    /\ oldShown' = oldCursor /\ newShown' = newCursor
    /\ stage' = "between"
    /\ UNCHANGED <<inputs, progress, oldCursor, newCursor, overview>>

Finish ==
    /\ stage = "between" /\ at > Len(patch) /\ RestFits
    /\ rows' = rows \o UnchangedRows(Len(base) - oldCursor)
    /\ oldCursor' = Len(base) /\ oldShown' = Len(base)
    /\ newCursor' = Len(current) /\ newShown' = Len(current)
    /\ stage' = "aligned"
    /\ UNCHANGED <<inputs, progress, overview>>

\* ErrUnsupportedPatch: the document is too large to be compared, the input is
\* not supported, or the patch does not fit the sources.
Refuse ==
    /\ \/ stage = "read" /\ current \in OversizedSources
       \/ stage = "printed" /\ ~Supported
       \/ stage = "between" /\ at <= Len(patch) /\ patch[at].tag = "hunk" /\ ~HunkFits(patch[at])
       \/ stage = "inside" /\ ~HunkDone /\ (at <= Len(patch) => ~RecordFits(patch[at]))
       \/ stage = "between" /\ at > Len(patch) /\ ~RestFits
    /\ stage' = "refused"
    /\ UNCHANGED <<inputs, progress, cursors, overview>>

-----------------------------------------------------------------------------
(***************************************************************************)
(* The renderer: its own validation of the rows, the source map of the     *)
(* current pane and the markers of the changes.                            *)
(***************************************************************************)

HasOld(row) == row.kind # "added"
HasNew(row) == row.kind # "deleted"

\* NextLines[k]: the base and the current line the rows after the k-th go on with.
NextLines ==
    LET f[k \in 0..Len(rows)] ==
            IF k = 0 THEN <<1, 1>>
            ELSE <<f[k - 1][1] + (IF HasOld(rows[k]) THEN 1 ELSE 0),
                   f[k - 1][2] + (IF HasNew(rows[k]) THEN 1 ELSE 0)>>
    IN f

ValidateDiffRows ==
    /\ \A k \in DOMAIN rows :
          /\ rows[k].old = IF HasOld(rows[k]) THEN NextLines[k - 1][1] ELSE 0
          /\ rows[k].new = IF HasNew(rows[k]) THEN NextLines[k - 1][2] ELSE 0
          /\ rows[k].new <= Len(current)
    /\ NextLines[Len(rows)][2] = Len(current) + 1

\* LinesThrough[k]: the lines of the current pane that the first k rows let select.
LinesThrough ==
    LET f[k \in 0..Len(rows)] ==
            IF k = 0 THEN <<>>
            ELSE IF rows[k].new > 0 THEN Append(f[k - 1], rows[k].new)
            ELSE f[k - 1]
    IN f
DiffSourceMap == LinesThrough[Len(rows)]

\* deriveDiffOverviewHunks, row by row: runs of changed rows [first, last, kind].
HunksThrough ==
    LET grow(h, k) == [h EXCEPT !.last = k, !.kind = IF @ = rows[k].kind THEN @ ELSE "modified"]
        f[k \in 0..Len(rows)] ==
            IF k = 0 THEN <<>>
            ELSE LET before == f[k - 1]
                     open == Len(before) > 0 /\ before[Len(before)].last = k - 1
                 IN IF rows[k].kind = "unchanged" THEN before
                    ELSE IF open THEN [before EXCEPT ![Len(before)] = grow(@, k)]
                    ELSE Append(before, [first |-> k, last |-> k, kind |-> rows[k].kind])
    IN f
OverviewHunks == HunksThrough[Len(rows)]

NearestBefore(k) == {j \in 1..(k - 1) : rows[j].new > 0 /\ \A i \in (j + 1)..(k - 1) : rows[i].new = 0}
NearestFrom(k, n) == {j \in k..n : rows[j].new > 0 /\ \A i \in k..(j - 1) : rows[i].new = 0}

\* diffOverviewLabel: where a change is and the current line that locates it.
Label(h) ==
    LET within == IF h.kind = "deleted" THEN {} ELSE NearestFrom(h.first, h.last)
        lines(where, found) == [place |-> where, line |-> rows[CHOOSE j \in found : TRUE].new]
    IN IF within # {} THEN lines("near", within)
       ELSE IF NearestBefore(h.first) # {} THEN lines("after", NearestBefore(h.first))
       ELSE IF NearestFrom(h.last + 1, Len(rows)) # {}
            THEN lines("before", NearestFrom(h.last + 1, Len(rows)))
       ELSE [place |-> "whole", line |-> 0]

\* A marker links to the cell of the first row of its change and to the cell of
\* the last one; diffOverviewTargets gives these cells their ids.
Items ==
    [n \in DOMAIN OverviewHunks |->
        LET h == OverviewHunks[n] IN
        [hunk |-> h, label |-> Label(h), target |-> <<n, "start">>,
         endTarget |-> IF h.last > h.first THEN <<n, "end">> ELSE <<n, "start">>]]

\* Mutant of Targets: the row behind the change gets the id of its end.
TargetsBehind(k) ==
    {overview[n].target : n \in {m \in DOMAIN overview : overview[m].hunk.first = k}} \union
    {overview[n].endTarget : n \in {m \in DOMAIN overview :
        overview[m].hunk.last + 1 = k /\ overview[m].endTarget # overview[m].target}}

\* The ids of the k-th cell of the current pane.
Targets(k) ==
    {overview[n].target : n \in {m \in DOMAIN overview : overview[m].hunk.first = k}} \union
    {overview[n].endTarget : n \in {m \in DOMAIN overview :
        overview[m].hunk.last = k /\ overview[m].endTarget # overview[m].target}}

Render ==
    /\ stage = "aligned"
    /\ IF ValidateDiffRows THEN stage' = "rendered" /\ overview' = Items
       ELSE stage' = "invalid" /\ UNCHANGED overview
    /\ UNCHANGED <<inputs, progress, cursors>>

Next ==
    \/ EditWorktree \/ ReadPatch \/ GitFails \/ ParsePatch
    \/ Skip \/ EnterHunk \/ NoNewline \/ Deleted \/ Added \/ Context \/ LeaveHunk
    \/ Finish \/ Refuse \/ Render

Spec == Init /\ [][Next]_vars

-----------------------------------------------------------------------------

\* Type invariant: the cursors stay within the sources and behind the rows,
\* and only an entered hunk has pending lines.
TypeOK ==
    /\ {worktree, current, base, seen} \subseteq Contents
    /\ baseExists \in BOOLEAN /\ indexed \in BOOLEAN
    /\ stage \in Stages /\ patch \in Patches /\ at \in Nat \ {0}
    /\ hunk \in HunkHeaders /\ hunkCount \in Nat /\ oldUsed \in Nat /\ newUsed \in Nat
    /\ oldCursor \in 0..Len(base) /\ oldShown \in 0..oldCursor
    /\ newCursor \in 0..Len(current) /\ newShown \in 0..newCursor
    /\ rows \in Seq(Rows)
    /\ stage # "inside" => stage = "refused" \/ (oldShown = oldCursor /\ newShown = newCursor)

\* The line numbers in f, zeros aside, are those behind m up to n: each once, in order.
InOrder(f, m, n) ==
    /\ {f[k] : k \in DOMAIN f} \ {0} = (m + 1)..n
    /\ \A j, k \in DOMAIN f : j < k /\ f[j] > 0 /\ f[k] > 0 => f[j] < f[k]
OldNumbers(s) == [k \in 1..Len(s) |-> s[k].old]
NewNumbers(s) == [k \in 1..Len(s) |-> s[k].new]
ShowsBase(n) == InOrder(OldNumbers(rows), 0, n)
ShowsCurrent(n) == InOrder(NewNumbers(rows), 0, n)

\* A row's kind says which sides it has, and an unchanged row has the same text
\* on both.
Honest(row) ==
    /\ row.old > 0 <=> HasOld(row)
    /\ row.new > 0 <=> HasNew(row)
    /\ row.kind = "unchanged" => TextOf[base[row.old]] = TextOf[current[row.new]]
RowsAreHonest == \A k \in DOMAIN rows : Honest(rows[k])

\* Whatever patch git printed, also one of another version of the document: an
\* aligned diff shows every line of the base and every line of the bytes that
\* were read exactly once, in order, and calls no line unchanged that is not.
RowsAreTheDiff ==
    stage \in {"aligned", "rendered"} => ShowsBase(Len(base)) /\ ShowsCurrent(Len(current)) /\ RowsAreHonest

\* A line of the document ends with two carriage returns.
TwoReturns == \E i \in DOMAIN current : Strip[TextOf[current[i]]] # TextOf[current[i]]

\* The patch of the bytes that were read is followed to its end: text that is
\* supported is refused only when the document was saved in between, when git
\* has been told to forget a file that the base has, or when the document is
\* untracked and has a line with two returns.
RightPatchAccepted ==
    stage = "refused" =>
        ~Supported \/ seen # current \/ (~indexed /\ (baseExists \/ TwoReturns))

\* The renderer's own check (validateDiffRows) accepts every aligned diff, and
\* the selectable lines are the lines of the document whatever it is compared
\* with: page and viewer state agree on them even when they use two bases.
RendererAgrees ==
    /\ stage # "invalid"
    /\ stage = "rendered" => DiffSourceMap = [i \in 1..Len(current) |-> i]

\* Every changed row belongs to one change of the overview, changes are apart,
\* every link leads to one cell, and a label names the line next to its change.
OverviewNavigates ==
    stage = "rendered" =>
        /\ \A k \in DOMAIN rows : rows[k].kind # "unchanged" <=>
              \E n \in DOMAIN overview : k \in overview[n].hunk.first..overview[n].hunk.last
        /\ \A n \in DOMAIN overview \ {1} : overview[n - 1].hunk.last + 1 < overview[n].hunk.first
        /\ \A n \in DOMAIN overview : \A id \in {overview[n].target, overview[n].endTarget} :
              \E k \in DOMAIN rows : Targets(k) = {id} /\ \A j \in DOMAIN rows \ {k} : id \notin Targets(j)
        /\ \A n \in DOMAIN overview : LET l == overview[n].label IN
              CASE l.place = "near"   -> \E k \in overview[n].hunk.first..overview[n].hunk.last : rows[k].new = l.line
                [] l.place = "after"  -> rows[overview[n].hunk.first - 1].new = l.line
                [] l.place = "before" -> rows[overview[n].hunk.last + 1].new = l.line /\ overview[n].hunk.first = 1
                [] OTHER              -> current = <<>>
=============================================================================
