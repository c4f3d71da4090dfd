----------------------------- MODULE MCFileDiff -----------------------------
EXTENDS FileDiff, FiniteSets, SequencesExt

\* "b", "br" and "brr" differ in their terminators only; "an" has none.  "x" is
\* not UTF-8, "m" has the words git uses for binary data.
MCLines == {"a", "b", "br", "brr", "an", "x", "m"}
MCRawOf == [l \in MCLines |-> CASE l \in {"a", "an"} -> "A" [] l = "b" -> "B" [] l = "br" -> "Br"
                               [] l = "brr" -> "Brr" [] l = "x" -> "X" [] l = "m" -> "M"]
MCTexts == {"", "A", "B", "Br", "Brr", "X", "M"}
MCStrip == [t \in MCTexts |-> CASE t = "Br" -> "B" [] t = "Brr" -> "Br" [] OTHER -> t]
MCForeign == {"X"}
MCMarked == {"M"}
MCContents == {<<>>, <<"a">>, <<"b">>, <<"br">>, <<"an">>, <<"a", "b">>, <<"b", "an">>, <<"a", "br">>,
               <<"b", "a", "b">>, <<"a", "b", "a">>, <<"b", "a", "a">>, <<"a", "a", "b", "a">>,
               <<"brr">>, <<"a", "brr">>, <<"x">>, <<"m">>, <<"m", "a">>, <<"b", "b">>}
MCOversizedSources == {<<"b", "b">>}

\* Line by line alignments of b and w: the lines an edit script keeps.
Alignments(b, w) ==
    {K \in SUBSET {p \in (1..Len(b)) \X (1..Len(w)) : b[p[1]] = w[p[2]]} :
        \A p, q \in K : p = q \/ (p[1] < q[1] /\ p[2] < q[2]) \/ (q[1] < p[1] /\ q[2] < p[2])}
Kept(K) == SetToSortSeq(K, LAMBDA p, q : p[1] < q[1])

Listing(tag, l) ==
    <<[tag |-> tag, text |-> MCRawOf[l]]>> \o (IF l = "an" THEN <<[tag |-> "\\"]>> ELSE <<>>)
Side(tag, s, from, to) == FlattenSeq([i \in 1..(to - from + 1) |-> Listing(tag, s[from + i - 1])])
\* A hunk's heading is the line before it in the base, if git picks one.
Header(b, oldStart, oldCount, newStart, newCount) ==
    [tag |-> "hunk", oldStart |-> IF oldCount = 0 THEN oldStart - 1 ELSE oldStart, oldCount |-> oldCount,
     newStart |-> IF newCount = 0 THEN newStart - 1 ELSE newStart, newCount |-> newCount,
     text |-> IF oldStart > 1 THEN MCRawOf[b[oldStart - 1]] ELSE ""]

\* The k-th gap between kept lines, as pairs <<first, last>> of either side.
Gaps(b, w, K) ==
    LET ends == <<<<0, 0>>>> \o Kept(K) \o <<<<Len(b) + 1, Len(w) + 1>>>>
    IN [k \in 1..(Len(ends) - 1) |-> [old |-> <<ends[k][1] + 1, ends[k + 1][1] - 1>>,
                                      new |-> <<ends[k][2] + 1, ends[k + 1][2] - 1>>]]
Body(b, w, g) == Side("-", b, g.old[1], g.old[2]) \o Side("+", w, g.new[1], g.new[2])
IsEmpty(g) == g.old[2] < g.old[1] /\ g.new[2] < g.new[1]

\* git diff --unified=0: one hunk for every gap.
Unified0(b, w, K) ==
    FlattenSeq([k \in DOMAIN Gaps(b, w, K) |-> LET g == Gaps(b, w, K)[k] IN
        IF IsEmpty(g) THEN <<>>
        ELSE <<Header(b, g.old[1], g.old[2] - g.old[1] + 1, g.new[1], g.new[2] - g.new[1] + 1)>> \o Body(b, w, g)])

\* The same with diff.interHunkContext set: hunks close to each other are one,
\* with the lines between them as context.
Fused(b, w, K) ==
    LET gaps == Gaps(b, w, K)
        changed == {k \in DOMAIN gaps : ~IsEmpty(gaps[k])}
        lo == CHOOSE k \in changed : \A j \in changed : k <= j
        hi == CHOOSE k \in changed : \A j \in changed : k >= j
        old == <<gaps[lo].old[1], gaps[hi].old[2]>>
        new == <<gaps[lo].new[1], gaps[hi].new[2]>>
    IN <<Header(b, old[1], old[2] - old[1] + 1, new[1], new[2] - new[1] + 1)>>
        \o FlattenSeq([i \in 1..(hi - lo + 1) |->
             (IF i = 1 THEN <<>> ELSE Listing(" ", b[gaps[lo + i - 1].old[1] - 1])) \o Body(b, w, gaps[lo + i - 1])])

FileHeader == <<[tag |-> "header", text |-> ""]>>
BinaryFiles == <<[tag |-> "header", text |-> "M"]>>
IsBinary(s) == \E i \in DOMAIN s : s[i] = "x"

\* Without a change nothing is printed, or the headers of a change of mode.
PatchesOf(b, w) ==
    IF b = w THEN {<<>>, FileHeader}
    ELSE {FileHeader \o Unified0(b, w, K) : K \in Alignments(b, w)}
         \union {FileHeader \o Fused(b, w, K) : K \in Alignments(b, w)}
         \union (IF IsBinary(b) \/ IsBinary(w) THEN {FileHeader \o BinaryFiles} ELSE {})
MCGitDiff == [p \in MCContents \X MCContents |-> PatchesOf(p[1], p[2])]

\* Too long: what git prints for one edit, and what is written for one untracked file.
MCOversizedPatches ==
    MCGitDiff[<<<<"a", "b", "a">>, <<"b", "a", "b">>>>] \union
    {<<Header(<<>>, 1, 0, 1, 3)>> \o [i \in 1..3 |-> [tag |-> "+", text |-> <<"B", "A", "A">>[i]]]}
=============================================================================
