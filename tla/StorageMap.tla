------------------------------ MODULE StorageMap ------------------------------
(***************************************************************************)
(* What one group of the storage promises its callers: a map from data ids *)
(* to data.  Changes happen at one moment each.  A reader is told what its *)
(* id held at some moment between the start and the end of the call.       *)
(***************************************************************************)
CONSTANTS Thread, Did, Data, NONE

VARIABLES
    store,   \* what each id holds, NONE if nothing
    asks,    \* the id a thread is reading, NONE outside of a read
    seen,    \* what that id held since the read began
    answer   \* what the last read returned

mapVars == <<store, asks, seen, answer>>

MapInit ==
    /\ store = [d \in Did |-> NONE]
    /\ asks = [t \in Thread |-> NONE]
    /\ seen = [t \in Thread |-> {}]
    /\ answer = [t \in Thread |-> NONE]

Become(d, v) ==
    /\ store' = [store EXCEPT ![d] = v]
    /\ seen' = [t \in Thread |-> IF asks[t] = d THEN seen[t] \cup {v} ELSE seen[t]]
    /\ UNCHANGED <<asks, answer>>

Put(d, v) == v # NONE /\ Become(d, v)

Drop(d) == Become(d, NONE)

Ask(t, d) ==
    /\ asks[t] = NONE
    /\ asks' = [asks EXCEPT ![t] = d]
    /\ seen' = [seen EXCEPT ![t] = {store[d]}]
    /\ UNCHANGED <<store, answer>>

Answer(t) ==
    /\ asks[t] # NONE
    /\ \E v \in seen[t] : answer' = [answer EXCEPT ![t] = v]
    /\ asks' = [asks EXCEPT ![t] = NONE]
    /\ seen' = [seen EXCEPT ![t] = {}]
    /\ UNCHANGED store

MapNext ==
    \/ \E d \in Did : Drop(d) \/ \E v \in Data : Put(d, v)
    \/ \E t \in Thread : Answer(t) \/ \E d \in Did : Ask(t, d)

MapSpec == MapInit /\ [][MapNext]_mapVars
=============================================================================
