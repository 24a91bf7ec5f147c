-------------------------- MODULE MCProcessManager --------------------------
(* A small table of processes: three process ids and one correlation id. *)
EXTENDS ProcessManager

CONSTANTS p1, p2, p3, c1
=============================================================================
