--------------------------- MODULE MCSidecarStore ---------------------------
(***************************************************************************)
(* The store under one server process with several request threads, and    *)
(* under offline commands that are processes of their own.                 *)
(***************************************************************************)
EXTENDS SidecarStore

CONSTANTS server, t1, t2, t3

OneServer == [t \in Threads |-> server]
ServerAndCommand == [t \in Threads |-> IF t = t3 THEN t3 ELSE server]
OneProcessEach == [t \in Threads |-> t]
=============================================================================
