--------------------------- MODULE MCQueuePolling ---------------------------
(* A catalog of two documents. *)
EXTENDS QueuePolling

TwoDocuments == <<"guide.md", "main.go">>
=============================================================================
