------------------------------ MODULE MCKStorage ------------------------------
EXTENDS KStorage, TLC

CONSTANTS w1, w2, r1, r2, d1, d2, v1, v2, n1, n2, n3, n4

\* Two threads write and remove, each its own ids; the third reads and lists.
MCCalls == [t \in Thread |-> IF t \in {w1, w2} THEN {"write", "remove"} ELSE {"read", "list"}]
MCKeysOwn == [t \in Thread |-> IF t = w1 THEN {d1} ELSE IF t = w2 THEN {d2} ELSE {}]
MCKeysAll == [t \in Thread |-> Did]

\* Two threads change the group at will.
MCCallsTwo == [t \in Thread |-> IF t \in {w1, w2} THEN {"write", "remove"} ELSE {"read"}]

=============================================================================
