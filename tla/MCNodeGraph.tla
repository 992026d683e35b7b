---------------------------- MODULE MCNodeGraph -----------------------------
(* Instance of NodeGraph: sessions and threads are interchangeable.        *)
EXTENDS NodeGraph, TLC

Symmetric == Permutations(Sessions) \cup Permutations(Readers)
=============================================================================
