---------------------------- MODULE MCHookTable -----------------------------
(* Instances of HookTable: three functions and a function pointer, two slots  *)
(* of hook memory, chains of two and three entries, two modules.            *)
EXTENDS HookTable

CONSTANTS f1, f2, f3, fp, x1, x2, x3, m1, m2

MCOwner == [x \in Item |-> IF x = x3 THEN m2 ELSE m1]
=============================================================================
