---------------------------- MODULE MCEventLoop ----------------------------
(* Small instances of EventLoop for TLC.                                    *)
EXTENDS EventLoop, TLC

Symmetry == Permutations(Tasks) \cup Permutations(Threads)
=============================================================================
