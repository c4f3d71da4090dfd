---------------------------- MODULE MCReviewTab ----------------------------
(***************************************************************************)
(* A small instance of ReviewTab: two contents of the document in which a  *)
(* byte range holds different text, and a sidecar with an applied comment  *)
(* that lost its selection.                                                *)
(***************************************************************************)
EXTENDS ReviewTab, TLC

MCText == [d \in Documents |-> [r \in Ranges |-> <<d, r>>]]

MCInitialReview == [id \in {-1} |-> Card(NoComment, "applied", NoSource, TRUE, NoText)]

MCSymmetry == Permutations(Documents)
=============================================================================
