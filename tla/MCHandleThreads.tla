--------------------------- MODULE MCHandleThreads -------------------------
(* Instance of HandleThreads for TLC: connections, processes and heap cells  *)
(* are interchangeable.                                                      *)
EXTENDS HandleThreads, TLC

MCSymmetry == Permutations(Conn) \cup Permutations(Pid) \cup Permutations(Ptr)
=============================================================================
