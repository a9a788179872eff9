---------------------------- MODULE MCHandleTable ---------------------------
(* Instance of HandleTable for TLC: heap cells are interchangeable.          *)
EXTENDS HandleTable, TLC

PtrSymmetry == Permutations(Ptr)
=============================================================================
