------------------------- MODULE MCDocumentCatalog -------------------------
(***************************************************************************)
(* A small instance of DocumentCatalog: two documents, the configured      *)
(* commit, which has become too old to be listed and against which one of  *)
(* them is changed, and a listed one against which only a file that is no  *)
(* document is.                                                            *)
(***************************************************************************)
EXTENDS DocumentCatalog

CONSTANTS a, b, image, configured, listed

MCDiffers == [c \in Commits |-> IF c = configured THEN {a} ELSE {image}]
=============================================================================
