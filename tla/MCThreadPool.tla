---------------------------- MODULE MCThreadPool ----------------------------
(* Small instances of ThreadPool for TLC, without symmetry: the runs check   *)
(* liveness.                                                                 *)
EXTENDS ThreadPool
=============================================================================
