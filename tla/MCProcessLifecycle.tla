------------------------- MODULE MCProcessLifecycle -------------------------
(***************************************************************************)
(* One container with three consumer tasks and two connections of clients. *)
(***************************************************************************)
EXTENDS ProcessLifecycle
=============================================================================
