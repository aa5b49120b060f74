----------------------------- MODULE MCWorkQueue -----------------------------
(* The submission lane as an instance of WorkQueue for model checking. *)
EXTENDS WorkQueue

CONSTANTS inner, debug, adapter, c1, c2
=============================================================================
