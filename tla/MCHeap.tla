------------------------------ MODULE MCHeap ------------------------------
(* A heap of two pools and three callers.                                  *)
EXTENDS Tlsf
CONSTANTS o1, o2, o3
MCPools == 5 :> 192 @@ 33 :> 80
MCSizes == {1, 40, 70}
MCReallocSizes == {8, 56}
MCAligns == {8, 32}
MCView == <<HeapView, users, pools>>
MCSymmetry == Permutations({o1, o2, o3})
=============================================================================
