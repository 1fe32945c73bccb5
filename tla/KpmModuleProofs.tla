--------------------------- MODULE KpmModuleProofs ---------------------------
(***************************************************************************)
(* Theorems about KpmModule for every number of threads, modules, names    *)
(* and argument buffers, and any number of calls.                          *)
(***************************************************************************)
EXTENDS KpmModule, FiniteSetTheorems, TLAPS

LEMMA ConstantFacts ==
    /\ HEAD # POISON /\ HEAD # NIL /\ POISON # NIL
    /\ HEAD \notin Mod /\ POISON \notin Mod /\ NIL \notin Mod
    /\ NIL \notin Buf /\ NIL \notin Name
BY ModuleAssumption

Node == Mod \cup {HEAD}
Pointers == Node \cup {POISON, NIL}
Label == {"idle", "find", "init", "exit", "link", "unload", "alloc", "call", "running", "fault"}

KpmTypes ==
    /\ next \in [Node -> Pointers] /\ prev \in [Node -> Pointers]
    /\ parts \in [Mod -> SUBSET Part]
    /\ name \in [Mod -> Name \cup {NIL}]
    /\ stage \in [Mod -> {"none", "init", "up", "exit"}]
    /\ ctl_args \in [Mod -> Buf \cup {NIL}] /\ bufs \subseteq Buf
    /\ pc \in [Thread -> Label]
    /\ op \in [Thread -> Op \cup {NIL}]
    /\ arg \in [Thread -> Name \cup {NIL}]
    /\ cur \in [Thread -> Pointers] /\ last \in [Thread -> Pointers]
    /\ buf \in [Thread -> Buf \cup {NIL}]
    /\ found \subseteq Mod
    /\ overlap \subseteq {"calls", "uses", "changes"}
    /\ \A t \in Thread :
          pc[t] \in {"init", "exit", "link", "unload", "alloc", "call"} => cur[t] \in Mod

-----------------------------------------------------------------------------
(* What holds as long as no unload, and no second control0 of the same     *)
(* module, ran beside a call, and loads and unloads came one by one.       *)

\* A doubly linked ring of the modules that were loaded, and the head.
Ring(n, p, S) ==
    /\ \A x \in S \cup {HEAD} : n[x] \in S \cup {HEAD} /\ p[x] \in S \cup {HEAD}
    /\ \A x \in S \cup {HEAD} : n[p[x]] = x /\ p[n[x]] = x

ListOk ==
    /\ Ring(next, prev, found)
    /\ \A m \in found : parts[m] = Part
    /\ \A m \in Mod : parts[m] = {} => ctl_args[m] = NIL

\* Which calls may run beside each other.
Apart(t, u) ==
    (pc[t] # "idle" /\ pc[u] # "idle") =>
        /\ "unload" \notin {op[t], op[u]}
        /\ ~(op[t] = "control0" /\ op[u] = "control0" /\ arg[t] = arg[u])
        /\ ~({op[t], op[u]} \subseteq Changes)

\* Where a thread is, and what it works on.
ThreadOk(t) ==
    /\ pc[t] \in {"init", "exit", "link"} =>
          op[t] = "load" /\ cur[t] \in Mod \ found /\ parts[cur[t]] = Part
    /\ pc[t] = "unload" => op[t] = "unload" /\ cur[t] \in Mod \ found /\ parts[cur[t]] = Part
    /\ pc[t] = "find" => cur[t] \in found \cup {HEAD}
    /\ pc[t] = "link" => last[t] = prev[HEAD]
    /\ pc[t] \in {"alloc", "call"} => op[t] = "control0"
    /\ pc[t] = "running" => op[t] \in {"control0", "control1"}
    /\ pc[t] \in {"alloc", "call", "running"} => cur[t] \in found /\ name[cur[t]] = arg[t]
    /\ pc[t] # "running" => buf[t] = NIL
    /\ pc[t] = "running" => buf[t] = IF op[t] = "control0" THEN ctl_args[cur[t]] ELSE NIL

\* Between the free and the malloc of module_control0 mod->ctl_args dangles.
Dangles(m) == \E t \in Thread : pc[t] = "alloc" /\ cur[t] = m

ArgsOk ==
    \A m \in Mod : ctl_args[m] # NIL /\ ~Dangles(m) =>
        /\ ctl_args[m] \in bufs
        /\ \A n \in Mod : ctl_args[n] = ctl_args[m] /\ ~Dangles(n) => n = m

GentleInv ==
    /\ ListOk /\ ArgsOk
    /\ \A t \in Thread : ThreadOk(t)
    /\ \A t, u \in Thread : t # u => Apart(t, u)

KpmInv == KpmTypes /\ (Gentle => GentleInv)

-----------------------------------------------------------------------------
(* What holds whatever overlaps: who is to free a module *)

Owns(t, m) == cur[t] = m /\ pc[t] \in {"init", "exit", "link", "unload"}

OwnersInv ==
    /\ \A t \in Thread : \A m \in Mod : Owns(t, m) =>
          /\ parts[m] = Part
          /\ prev[m] = IF pc[t] = "unload" THEN POISON ELSE NIL
          /\ pc[t] \in {"exit", "unload"} => stage[m] = "exit"
    /\ \A t, u \in Thread : \A m \in Mod : Owns(t, m) /\ Owns(u, m) => t = u
    /\ \A m \in Mod : prev[m] # NIL => parts[m] = Part
    /\ \A x \in Node, m \in Mod : next[x] = m => prev[m] = x
    /\ prev[HEAD] \in Node
    /\ \A t \in Thread : pc[t] = "link" => last[t] \in Node
-----------------------------------------------------------------------------
(* The variables have their types *)

LEMMA TypeStep == ASSUME KpmTypes, [KpmNext]_kpmVars PROVE KpmTypes'
<1> USE ConstantFacts DEF KpmTypes, Node, Pointers, Label
<1>1. CASE UNCHANGED kpmVars
  BY <1>1 DEF kpmVars, list, held, local, hist
<1>2. ASSUME NEW t \in Thread, NEW o \in Op, NEW n \in Name \cup {NIL}, BeginCall(t, o, n)
      PROVE  KpmTypes'
  BY <1>2 DEF BeginCall, Goto, list, held
<1>3. ASSUME NEW t \in Thread, CallStep(t) PROVE KpmTypes'
  <2>1. CASE FindNext(t)
    BY <2>1 DEF FindNext, list, held, hist
  <2>2. ASSUME NEW label \in {"fault", "running"}, Goto(t, label),
               UNCHANGED <<list, held, op, arg, cur, last, buf, found, overlap>>
        PROVE  KpmTypes'
    BY <2>2 DEF Goto, list, held
  <2>3. ASSUME Return(t), UNCHANGED <<list, held, found, overlap>> PROVE KpmTypes'
    BY <2>3 DEF Return, Goto, list, held
  <2>4. CASE FindFault(t) \/ UnloadFault(t) \/ ControlFault(t) \/ Control1Call(t)
    BY <2>2, <2>4 DEF FindFault, UnloadFault, ControlFault, Control1Call, hist
  <2>5. CASE \/ LoadExists(t) \/ UnloadAbsent(t) \/ ControlAbsent(t) \/ ControlReturn(t)
              \/ InfoReturn(t) \/ ListReturn(t) \/ InfoAbsent(t)
    BY <2>3, <2>5 DEF LoadExists, UnloadAbsent, ControlAbsent, ControlReturn, InfoReturn,
                       ListReturn, InfoAbsent, hist
  <2>6. CASE LoadFails(t)
    <3>1. \A f \in Failure : f.taken \ f.freed = {}
      BY DEF Failure, Part
    <3>2. parts' \in [Mod -> SUBSET Part]
      BY <2>6, <3>1 DEF LoadFails
    <3> QED BY <2>6, <3>2 DEF LoadFails, Return, Goto, list, hist
  <2>7. CASE LoadInit(t)
    BY <2>7 DEF LoadInit, Goto, list, hist
  <2>8. CASE LoadInitFails(t)
    BY <2>8 DEF LoadInitFails, InCall, Goto, list, hist
  <2>9. CASE LoadFree(t)
    BY <2>9 DEF LoadFree, Free, Return, Goto, hist
  <2>10. CASE LoadTail(t)
    BY <2>10 DEF LoadTail, InCall, Goto, list, hist
  <2>11. CASE LoadLink(t)
    BY <2>11 DEF LoadLink, InCall, Return, Goto, held
  <2>12. CASE UnloadDelete(t)
    BY <2>12 DEF UnloadDelete, Found, Goto
  <2>13. CASE UnloadFree(t)
    BY <2>13 DEF UnloadFree, Free, Return, Goto, hist
  <2>14. CASE ControlFreeArgs(t)
    BY <2>14 DEF ControlFreeArgs, Found, InCall, Goto, list, hist
  <2>15. CASE ControlNoMemory(t)
    BY <2>15 DEF ControlNoMemory, Return, Goto, list, hist
  <2>16. CASE ControlAlloc(t)
    <3> PICK b \in Buf \ bufs :
           bufs' = bufs \cup {b} /\ ctl_args' = [ctl_args EXCEPT ![cur[t]] = b]
      BY <2>16 DEF ControlAlloc
    <3>1. ctl_args' \in [Mod -> Buf \cup {NIL}] /\ bufs' \subseteq Buf
      OBVIOUS
    <3> QED BY <2>16, <3>1 DEF ControlAlloc, InCall, Goto, list, hist
  <2>17. CASE ControlCall(t)
    BY <2>17 DEF ControlCall, InCall, Goto, list, held, hist
  <2> QED BY <1>3, <2>1, <2>4, <2>5, <2>6, <2>7, <2>8, <2>9, <2>10, <2>11, <2>12, <2>13,
             <2>14, <2>15, <2>16, <2>17 DEF CallStep
<1> QED BY <1>1, <1>2, <1>3 DEF KpmNext

-----------------------------------------------------------------------------
(* Memory is freed by the one that owns it *)

\* The list pointers after list_add_tail of m behind x, and after list_del of m.
LEMMA AddTailPointers ==
    ASSUME KpmTypes, NEW m \in Mod, NEW x \in Node,
           prev' = [prev EXCEPT ![HEAD] = m, ![m] = x],
           next' = [next EXCEPT ![m] = HEAD, ![x] = m]
    PROVE  \A y \in Node :
              /\ prev'[y] = IF y = m THEN x ELSE IF y = HEAD THEN m ELSE prev[y]
              /\ next'[y] = IF y = x THEN m ELSE IF y = m THEN HEAD ELSE next[y]
BY ConstantFacts DEF KpmTypes, Node

LEMMA DeletePointers ==
    ASSUME KpmTypes, NEW m \in Mod,
           prev' = [prev EXCEPT ![next[m]] = prev[m], ![m] = POISON],
           next' = [next EXCEPT ![prev[m]] = next[m], ![m] = POISON]
    PROVE  \A y \in Node :
              /\ prev'[y] = IF y = m THEN POISON ELSE IF y = next[m] THEN prev[m] ELSE prev[y]
              /\ next'[y] = IF y = m THEN POISON ELSE IF y = prev[m] THEN next[m] ELSE next[y]
BY DEF KpmTypes, Node

\* A step that takes no module and touches none.
LEMMA OwnersFrame ==
    ASSUME KpmTypes, OwnersInv, UNCHANGED <<next, prev, parts, stage>>, NEW t \in Thread,
           \A u \in Thread \ {t} : pc'[u] = pc[u] /\ cur'[u] = cur[u] /\ last'[u] = last[u],
           pc'[t] \notin {"init", "exit", "link", "unload"}
    PROVE  OwnersInv'
<1>1. \A u \in Thread, m \in Mod : Owns(u, m)' => u # t /\ Owns(u, m) /\ pc'[u] = pc[u]
  BY DEF Owns
<1>2. \A u \in Thread : pc'[u] = "link" => u # t /\ pc[u] = "link" /\ last'[u] = last[u]
  OBVIOUS
<1> QED BY <1>1, <1>2 DEF OwnersInv

\* ... one that goes on with the module it has taken.
LEMMA OwnersKeep ==
    ASSUME KpmTypes, OwnersInv, UNCHANGED <<next, prev, parts>>, NEW t \in Thread,
           \A u \in Thread \ {t} : pc'[u] = pc[u] /\ cur'[u] = cur[u] /\ last'[u] = last[u],
           pc[t] = "init", cur'[t] = cur[t],
           \/ pc'[t] = "exit" /\ stage' = [stage EXCEPT ![cur[t]] = "exit"]
           \/ pc'[t] = "link" /\ stage' = [stage EXCEPT ![cur[t]] = "up"] /\ last'[t] = prev[HEAD]
    PROVE  OwnersInv'
<1>1. \A u \in Thread, m \in Mod : Owns(u, m)' <=> Owns(u, m)
  BY DEF Owns
<1>2. \A u \in Thread \ {t}, m \in Mod : Owns(u, m) => stage'[m] = stage[m] /\ pc'[u] = pc[u]
  BY DEF OwnersInv, Owns, KpmTypes
<1>3. \A m \in Mod : Owns(t, m) => /\ parts[m] = Part /\ prev[m] = NIL /\ pc'[t] # "unload"
                                   /\ pc'[t] = "exit" => stage'[m] = "exit"
  BY DEF OwnersInv, Owns, KpmTypes
<1>4. \A u \in Thread : \A m \in Mod : Owns(u, m)' =>
          /\ parts'[m] = Part
          /\ prev'[m] = IF pc'[u] = "unload" THEN POISON ELSE NIL
          /\ pc'[u] \in {"exit", "unload"} => stage'[m] = "exit"
  <2> TAKE u \in Thread
  <2> TAKE m \in Mod
  <2>1. CASE u = t
    BY <1>1, <1>3, <2>1
  <2>2. CASE u # t
    BY <1>1, <1>2, <2>2 DEF OwnersInv
  <2> QED BY <2>1, <2>2
<1>5. \A u \in Thread : pc'[u] = "link" => last'[u] \in Node
  BY DEF OwnersInv
<1> QED BY <1>1, <1>4, <1>5 DEF OwnersInv

\* ... one that frees it.
LEMMA OwnersFree ==
    ASSUME KpmTypes, OwnersInv, NEW t \in Thread, pc[t] \in {"exit", "unload"},
           Free(cur[t]), Return(t)
    PROVE  OwnersInv'
<1> DEFINE m == cur[t]
<1>1. m \in Mod /\ Owns(t, m)
  BY DEF KpmTypes, Owns
<1>2. prev[m] \in {NIL, POISON}
  BY <1>1 DEF OwnersInv
<1>3. /\ \A u \in Thread \ {t} : pc'[u] = pc[u] /\ cur'[u] = cur[u] /\ last'[u] = last[u]
      /\ pc'[t] = "idle"
  BY DEF Return, Goto, KpmTypes
<1>4. \A u \in Thread, k \in Mod : Owns(u, k)' => u # t /\ k # m /\ Owns(u, k)
  BY <1>1, <1>3 DEF Owns, OwnersInv
<1>5. /\ \A k \in Mod \ {m} : parts'[k] = parts[k] /\ stage'[k] = stage[k]
      /\ \A x \in Node \ {m} : next'[x] = next[x] /\ prev'[x] = prev[x]
      /\ next'[m] = NIL /\ prev'[m] = NIL
  BY <1>1 DEF Free, KpmTypes, Node
<1>6. \A x \in Node, k \in Mod : next'[x] = k => prev'[k] = x
  BY <1>1, <1>2, <1>5, ConstantFacts DEF OwnersInv, Node
<1>7. \A u \in Thread : \A k \in Mod : Owns(u, k)' =>
          /\ parts'[k] = Part
          /\ prev'[k] = IF pc'[u] = "unload" THEN POISON ELSE NIL
          /\ pc'[u] \in {"exit", "unload"} => stage'[k] = "exit"
  BY <1>3, <1>4, <1>5 DEF OwnersInv, Node
<1>8. prev'[HEAD] \in Node /\ \A k \in Mod : prev'[k] # NIL => parts'[k] = Part
  BY <1>1, <1>5, ConstantFacts DEF OwnersInv, Node
<1>9. \A u \in Thread : pc'[u] = "link" => last'[u] \in Node
  BY <1>3 DEF OwnersInv
<1> QED BY <1>4, <1>6, <1>7, <1>8, <1>9 DEF OwnersInv

\* ... one that takes memory for a module.
LEMMA OwnersInit ==
    ASSUME KpmTypes, OwnersInv, NEW t \in Thread, LoadInit(t)
    PROVE  OwnersInv'
<1> PICK m \in Mod :
      /\ parts[m] = {} /\ parts' = [parts EXCEPT ![m] = Part]
      /\ stage' = [stage EXCEPT ![m] = "init"] /\ cur' = [cur EXCEPT ![t] = m]
  BY DEF LoadInit
<1>1. {} # Part
  BY DEF Part
<1>2. prev[m] = NIL /\ \A u \in Thread : ~Owns(u, m)
  BY <1>1 DEF OwnersInv
<1>3. /\ UNCHANGED <<next, prev, last>>
      /\ pc'[t] = "init" /\ cur'[t] = m /\ parts'[m] = Part
      /\ \A u \in Thread \ {t} : pc'[u] = pc[u] /\ cur'[u] = cur[u]
      /\ \A k \in Mod \ {m} : parts'[k] = parts[k] /\ stage'[k] = stage[k]
  BY DEF LoadInit, Goto, list, KpmTypes
<1>4. \A u \in Thread, k \in Mod : Owns(u, k)' <=> (u = t /\ k = m) \/ (u # t /\ Owns(u, k))
  BY <1>3 DEF Owns
<1>5. \A u \in Thread : \A k \in Mod : Owns(u, k)' =>
          /\ parts'[k] = Part
          /\ prev'[k] = IF pc'[u] = "unload" THEN POISON ELSE NIL
          /\ pc'[u] \in {"exit", "unload"} => stage'[k] = "exit"
  <2> TAKE u \in Thread
  <2> TAKE k \in Mod
  <2>1. CASE u = t
    BY <1>2, <1>3, <1>4, <2>1
  <2>2. CASE u # t
    BY <1>2, <1>3, <1>4, <2>2 DEF OwnersInv
  <2> QED BY <2>1, <2>2
<1>6. \A u, w \in Thread : \A k \in Mod : Owns(u, k)' /\ Owns(w, k)' => u = w
  BY <1>2, <1>4 DEF OwnersInv
<1>7. \A k \in Mod : prev'[k] # NIL => parts'[k] = Part
  BY <1>3 DEF OwnersInv
<1>8. \A u \in Thread : pc'[u] = "link" => last'[u] \in Node
  BY <1>3 DEF OwnersInv
<1> QED BY <1>3, <1>5, <1>6, <1>7, <1>8 DEF OwnersInv

\* ... one that puts its module on the list, whatever has become of the tail it
\* read: the module is nobody's then.
LEMMA OwnersLink ==
    ASSUME KpmTypes, OwnersInv, NEW t \in Thread, LoadLink(t)
    PROVE  OwnersInv'
<1> DEFINE m == cur[t]
           x == last[t]
<1>1. m \in Mod /\ Owns(t, m) /\ x \in Node /\ m # HEAD
  BY ConstantFacts DEF LoadLink, InCall, KpmTypes, Owns, OwnersInv
<1>2. prev[m] = NIL /\ parts[m] = Part
  BY <1>1 DEF OwnersInv, LoadLink, InCall
<1>3. /\ UNCHANGED <<parts, stage>> /\ pc'[t] = "idle"
      /\ \A u \in Thread \ {t} : pc'[u] = pc[u] /\ cur'[u] = cur[u] /\ last'[u] = last[u]
  BY DEF LoadLink, held, Return, Goto, KpmTypes
<1>4. \A y \in Node :
        /\ prev'[y] = IF y = m THEN x ELSE IF y = HEAD THEN m ELSE prev[y]
        /\ next'[y] = IF y = x THEN m ELSE IF y = m THEN HEAD ELSE next[y]
  <2>1. /\ prev' = [prev EXCEPT ![HEAD] = m, ![m] = x]
        /\ next' = [next EXCEPT ![m] = HEAD, ![x] = m]
    BY DEF LoadLink
  <2> HIDE DEF m, x
  <2> QED BY <1>1, <2>1, AddTailPointers
<1>5. \A u \in Thread, k \in Mod : Owns(u, k)' => u # t /\ k # m /\ Owns(u, k)
  BY <1>1, <1>3 DEF Owns, OwnersInv
<1> HIDE DEF m, x
<1>6. \A u \in Thread : \A k \in Mod : Owns(u, k)' =>
          /\ parts'[k] = Part
          /\ prev'[k] = IF pc'[u] = "unload" THEN POISON ELSE NIL
          /\ pc'[u] \in {"exit", "unload"} => stage'[k] = "exit"
  BY <1>3, <1>4, <1>5, ConstantFacts DEF OwnersInv, Node
<1>7. \A y \in Node, k \in Mod : next'[y] = k => prev'[k] = y
  BY <1>1, <1>2, <1>4, ConstantFacts DEF OwnersInv, Node
<1>8. prev'[HEAD] \in Node /\ \A k \in Mod : prev'[k] # NIL => parts'[k] = Part
  BY <1>1, <1>2, <1>3, <1>4, ConstantFacts DEF OwnersInv, Node
<1>9. \A u \in Thread : pc'[u] = "link" => last'[u] \in Node
  BY <1>3 DEF OwnersInv
<1> QED BY <1>5, <1>6, <1>7, <1>8, <1>9 DEF OwnersInv

\* ... one that takes a module off the list: list_del poisons the pointers of
\* what another has taken off, so nobody owns the module.
LEMMA OwnersDelete ==
    ASSUME KpmTypes, OwnersInv, NEW t \in Thread, UnloadDelete(t)
    PROVE  OwnersInv'
<1> DEFINE m == cur[t]
<1>1. m \in Mod /\ prev[m] \in Node /\ pc[t] = "find"
  BY DEF UnloadDelete, Found, InCall, Node
<1>2. parts[m] = Part /\ \A u \in Thread : ~Owns(u, m)
  BY <1>1, ConstantFacts DEF OwnersInv, Node
<1>3. /\ UNCHANGED <<parts, cur, last>> /\ pc'[t] = "unload" /\ stage'[m] = "exit"
      /\ \A u \in Thread \ {t} : pc'[u] = pc[u]
      /\ \A k \in Mod \ {m} : stage'[k] = stage[k]
  BY <1>1 DEF UnloadDelete, Goto, KpmTypes
<1>4. \A y \in Node :
        /\ prev'[y] = IF y = m THEN POISON ELSE IF y = next[m] THEN prev[m] ELSE prev[y]
        /\ next'[y] = IF y = m THEN POISON ELSE IF y = prev[m] THEN next[m] ELSE next[y]
  BY <1>1, DeletePointers DEF UnloadDelete
<1>5. \A u \in Thread, k \in Mod : Owns(u, k)' <=> (u = t /\ k = m) \/ (u # t /\ Owns(u, k))
  BY <1>1, <1>3 DEF Owns
<1> HIDE DEF m
<1>6. \A u \in Thread : \A k \in Mod : Owns(u, k)' =>
          /\ parts'[k] = Part
          /\ prev'[k] = IF pc'[u] = "unload" THEN POISON ELSE NIL
          /\ pc'[u] \in {"exit", "unload"} => stage'[k] = "exit"
  <2> SUFFICES ASSUME NEW u \in Thread, NEW k \in Mod, Owns(u, k)'
               PROVE  /\ parts'[k] = Part
                      /\ prev'[k] = IF pc'[u] = "unload" THEN POISON ELSE NIL
                      /\ pc'[u] \in {"exit", "unload"} => stage'[k] = "exit"
    OBVIOUS
  <2>1. CASE u = t /\ k = m
    BY <1>1, <1>2, <1>3, <1>4, <2>1 DEF Node
  <2>2. CASE u # t /\ k # m /\ Owns(u, k)
    <3>1. prev[k] \notin Node
      BY <2>2, ConstantFacts DEF OwnersInv, Node
    <3>2. k # next[m]
      BY <1>1, <3>1 DEF OwnersInv, Node
    <3> QED BY <1>3, <1>4, <2>2, <3>2 DEF OwnersInv, Node
  <2> QED BY <1>2, <1>5, <2>1, <2>2
<1>7. \A y \in Node, k \in Mod : next'[y] = k => prev'[k] = y
  BY <1>1, <1>4, ConstantFacts DEF OwnersInv, Node
<1>8. prev'[HEAD] \in Node /\ \A k \in Mod : prev'[k] # NIL => parts'[k] = Part
  BY <1>1, <1>2, <1>3, <1>4, ConstantFacts DEF OwnersInv, Node
<1>9. \A u \in Thread : pc'[u] = "link" => last'[u] \in Node
  BY <1>3 DEF OwnersInv
<1>10. \A u, w \in Thread : \A k \in Mod : Owns(u, k)' /\ Owns(w, k)' => u = w
  BY <1>2, <1>5 DEF OwnersInv
<1> QED BY <1>6, <1>7, <1>8, <1>9, <1>10 DEF OwnersInv

\* What a thread does in a call, by its effect on who owns what.
LEMMA StepKinds ==
    ASSUME KpmTypes, NEW t \in Thread, CallStep(t)
    PROVE  \/ /\ UNCHANGED <<next, prev, parts, stage>>
              /\ \A u \in Thread \ {t} : pc'[u] = pc[u] /\ cur'[u] = cur[u] /\ last'[u] = last[u]
              /\ pc'[t] \notin {"init", "exit", "link", "unload"}
           \/ LoadInit(t) \/ LoadInitFails(t) \/ LoadTail(t) \/ LoadLink(t) \/ LoadFree(t)
           \/ UnloadDelete(t) \/ UnloadFree(t)
<1>1. ASSUME Return(t), UNCHANGED <<next, prev, parts, stage>>
      PROVE  /\ \A u \in Thread \ {t} : pc'[u] = pc[u] /\ cur'[u] = cur[u] /\ last'[u] = last[u]
             /\ pc'[t] \notin {"init", "exit", "link", "unload"}
  BY <1>1 DEF Return, Goto, KpmTypes
<1>2. ASSUME NEW label \in {"fault", "alloc", "call", "running"}, Goto(t, label),
             UNCHANGED <<cur, last>>
      PROVE  /\ \A u \in Thread \ {t} : pc'[u] = pc[u] /\ cur'[u] = cur[u] /\ last'[u] = last[u]
             /\ pc'[t] \notin {"init", "exit", "link", "unload"}
  BY <1>2 DEF Goto, KpmTypes
<1>3. CASE FindNext(t)
  BY <1>3 DEF FindNext, list, held, KpmTypes
<1>4. CASE \/ FindFault(t) \/ UnloadFault(t) \/ ControlFault(t) \/ Control1Call(t)
           \/ ControlFreeArgs(t) \/ ControlAlloc(t) \/ ControlCall(t)
  BY <1>2, <1>4 DEF FindFault, UnloadFault, ControlFault, Control1Call, ControlFreeArgs,
                    ControlAlloc, ControlCall, list, held
<1>5. CASE \/ LoadExists(t) \/ UnloadAbsent(t) \/ ControlAbsent(t) \/ ControlReturn(t)
           \/ InfoReturn(t) \/ ListReturn(t) \/ InfoAbsent(t) \/ ControlNoMemory(t)
  BY <1>1, <1>5 DEF LoadExists, UnloadAbsent, ControlAbsent, ControlReturn, InfoReturn,
                    ListReturn, InfoAbsent, ControlNoMemory, list, held
<1>6. CASE LoadFails(t)
  <2>1. \A f \in Failure : f.taken \ f.freed = {}
    BY DEF Failure, Part
  <2>2. UNCHANGED <<next, prev, parts, stage>>
    BY <1>6, <2>1 DEF LoadFails, list, KpmTypes
  <2> QED BY <1>1, <1>6, <2>2 DEF LoadFails
<1> QED BY <1>3, <1>4, <1>5, <1>6 DEF CallStep

LEMMA OwnersStep == ASSUME KpmTypes, OwnersInv, [KpmNext]_kpmVars PROVE OwnersInv'
<1>1. CASE UNCHANGED kpmVars
  BY <1>1 DEF kpmVars, list, held, local, OwnersInv, Owns
<1>2. ASSUME NEW t \in Thread, NEW o \in Op, NEW n \in Name \cup {NIL}, BeginCall(t, o, n)
      PROVE  OwnersInv'
  BY <1>2, OwnersFrame DEF BeginCall, Goto, list, held, KpmTypes
<1>3. ASSUME NEW t \in Thread, CallStep(t) PROVE OwnersInv'
  <2>1. CASE LoadInitFails(t)
    BY <2>1, OwnersKeep DEF LoadInitFails, InCall, Goto, list, KpmTypes
  <2>2. CASE LoadTail(t)
    BY <2>2, OwnersKeep DEF LoadTail, InCall, Goto, list, KpmTypes
  <2>3. CASE LoadFree(t) \/ UnloadFree(t)
    BY <2>3, OwnersFree DEF LoadFree, UnloadFree, InCall
  <2> QED BY <1>3, <2>1, <2>2, <2>3, StepKinds, OwnersFrame, OwnersInit, OwnersLink, OwnersDelete
<1> QED BY <1>1, <1>2, <1>3 DEF KpmNext

LEMMA KpmTypesInvariant == KpmSpec => []KpmTypes
<1>1. KpmInit => KpmTypes
  BY ConstantFacts DEF KpmInit, KpmTypes, Node, Pointers, Label
<1> QED BY <1>1, TypeStep, PTL DEF KpmSpec

LEMMA OwnersInvariant == KpmSpec => []OwnersInv
<1>1. KpmInit => OwnersInv
  BY ConstantFacts DEF KpmInit, OwnersInv, Owns, Node
<1> QED BY <1>1, OwnersStep, KpmTypesInvariant, PTL DEF KpmSpec

\* However loads, unloads and controls interleave, with the unlocked list torn as
\* it may be: the code of a module is freed only after its exit function ran.
THEOREM ExitBeforeFree == KpmSpec => FreedAfterExit
<1>1. ASSUME KpmTypes, OwnersInv, [KpmNext]_kpmVars, NEW m \in Mod,
             "exec" \in parts[m], "exec" \notin parts'[m]
      PROVE  stage[m] = "exit"
  <2>1. parts' # parts
    BY <1>1
  <2>2. PICK t \in Thread : CallStep(t)
    BY <1>1, <2>1 DEF KpmNext, kpmVars, held, BeginCall
  <2>3. CASE LoadFree(t) \/ UnloadFree(t)
    <3>1. cur[t] \in Mod /\ pc[t] \in {"exit", "unload"} /\ Free(cur[t])
      BY <1>1, <2>3 DEF LoadFree, UnloadFree, InCall, KpmTypes
    <3>2. m = cur[t]
      BY <1>1, <3>1 DEF Free, KpmTypes
    <3> QED BY <1>1, <3>1, <3>2 DEF OwnersInv, Owns
  <2>4. CASE LoadInit(t)
    BY <1>1, <2>4 DEF LoadInit, Part, KpmTypes
  <2>5. CASE LoadInitFails(t) \/ LoadTail(t) \/ LoadLink(t) \/ UnloadDelete(t)
    BY <2>1, <2>5 DEF LoadInitFails, LoadTail, LoadLink, UnloadDelete, held
  <2> QED BY <1>1, <2>1, <2>2, <2>3, <2>4, <2>5, StepKinds
<1>2. ASSUME KpmTypes, OwnersInv, [KpmNext]_kpmVars
      PROVE  [\A m \in Mod : "exec" \in parts[m] /\ "exec" \notin parts'[m]
                                => stage[m] = "exit"]_kpmVars
  BY <1>1, <1>2
<1> QED BY <1>2, KpmTypesInvariant, OwnersInvariant, PTL DEF KpmSpec, FreedAfterExit

-----------------------------------------------------------------------------
(* With the exclusion module_lock would give, what a call uses stays *)

Alone(t) == \A u \in Thread \ {t} : /\ pc'[u] = pc[u] /\ op'[u] = op[u] /\ arg'[u] = arg[u]
                                    /\ cur'[u] = cur[u] /\ last'[u] = last[u] /\ buf'[u] = buf[u]

\* A thread goes on with its call, or returns.
GoesOn(t) == pc'[t] = "idle" \/ (pc[t] # "idle" /\ op'[t] = op[t] /\ arg'[t] = arg[t])

\* A step of a call that changes nothing the others see, and does not come to, or
\* from, the point where the arguments dangle.
Quiet(t) ==
    /\ UNCHANGED <<next, prev, parts, name, ctl_args, bufs, found, overlap>>
    /\ Alone(t) /\ GoesOn(t)
    /\ pc[t] # "alloc" /\ pc'[t] # "alloc"

LEMMA ReturnIsQuiet ==
    ASSUME KpmTypes, NEW t \in Thread, Return(t)
    PROVE  Alone(t) /\ GoesOn(t) /\ pc'[t] = "idle" /\ buf'[t] = NIL
BY DEF Return, Goto, Alone, GoesOn, KpmTypes

LEMMA ApartFrame ==
    ASSUME NEW t \in Thread, Alone(t), GoesOn(t),
           \A u, w \in Thread : u # w => Apart(u, w)
    PROVE  \A u, w \in Thread : u # w => Apart(u, w)'
BY DEF Alone, GoesOn, Apart

\* The other threads, as long as the step takes nothing from them.
LEMMA OthersFrame ==
    ASSUME NEW t \in Thread, NEW u \in Thread \ {t}, Alone(t), ThreadOk(u),
           pc[u] \in {"init", "exit", "link", "unload"} =>
               parts'[cur[u]] = parts[cur[u]] /\ cur[u] \notin found',
           pc[u] # "idle" /\ cur[u] \in found =>
               cur[u] \in found' /\ name'[cur[u]] = name[cur[u]],
           pc[u] = "link" => prev'[HEAD] = prev[HEAD],
           pc[u] = "running" /\ op[u] = "control0" => ctl_args'[cur[u]] = ctl_args[cur[u]]
    PROVE  ThreadOk(u)'
BY DEF Alone, ThreadOk

LEMMA QuietKeeps ==
    ASSUME KpmTypes, GentleInv, NEW t \in Thread, Quiet(t), ThreadOk(t)'
    PROVE  GentleInv'
<1>1. \A u, w \in Thread : u # w => Apart(u, w)'
  BY ApartFrame DEF Quiet, GentleInv
<1>2. ASSUME NEW u \in Thread \ {t} PROVE ThreadOk(u)'
  <2>1. ThreadOk(u)
    BY DEF GentleInv
  <2>2. pc[u] \in {"init", "exit", "link", "unload"} => cur[u] \notin found
    BY <2>1 DEF ThreadOk
  <2> QED BY <2>1, <2>2, OthersFrame DEF Quiet
<1>3. \A m \in Mod : Dangles(m)' <=> Dangles(m)
  BY DEF Dangles, Quiet, Alone
<1>4. ListOk'
  BY DEF Quiet, GentleInv, ListOk
<1>5. ArgsOk'
  BY <1>3 DEF Quiet, GentleInv, ArgsOk
<1> QED BY <1>1, <1>2, <1>4, <1>5 DEF GentleInv

\* In a walk a thread stands on a listed module or on the head.
LEMMA FoundListed ==
    ASSUME KpmTypes, GentleInv, NEW t \in Thread, NEW o \in Op, Found(t, o)
    PROVE  /\ cur[t] \in found /\ cur[t] \in Mod /\ name[cur[t]] = arg[t] /\ op[t] = o
           /\ parts[cur[t]] = Part /\ pc[t] = "find"
BY ConstantFacts DEF Found, InCall, GentleInv, ThreadOk, HasName, ListOk

LEMMA QuietSteps ==
    ASSUME KpmTypes, GentleInv, NEW t \in Thread,
           \/ FindNext(t) \/ FindFault(t)
           \/ LoadExists(t) \/ LoadFails(t) \/ LoadInitFails(t) \/ LoadTail(t)
           \/ UnloadAbsent(t) \/ UnloadFault(t)
           \/ ControlAbsent(t) \/ ControlFault(t)
           \/ ControlCall(t) \/ Control1Call(t) \/ ControlReturn(t)
           \/ InfoReturn(t) \/ InfoAbsent(t) \/ ListReturn(t)
    PROVE  Quiet(t) /\ ThreadOk(t)'
<1>1. CASE FindNext(t)
  <2>1. Quiet(t)
    BY <1>1 DEF FindNext, Quiet, Alone, GoesOn, list, held, hist, KpmTypes
  <2>2. next[cur[t]] \in found \cup {HEAD}
    BY <1>1 DEF FindNext, GentleInv, ThreadOk, ListOk, Ring
  <2>3. ThreadOk(t)'
    BY <1>1, <2>2 DEF FindNext, ThreadOk, GentleInv, list, held, hist, KpmTypes
  <2> QED BY <2>1, <2>3
<1>2. ASSUME Goto(t, "fault"), pc[t] = "find",
             UNCHANGED <<next, prev, parts, name, ctl_args, bufs, found, overlap>>,
             UNCHANGED <<op, arg, cur, last, buf>>
      PROVE  Quiet(t) /\ ThreadOk(t)'
  BY <1>2 DEF Goto, Quiet, Alone, GoesOn, ThreadOk, GentleInv, KpmTypes
<1>3. CASE FindFault(t) \/ UnloadFault(t) \/ ControlFault(t)
  BY <1>2, <1>3 DEF FindFault, UnloadFault, ControlFault, Found, InCall, list, held, hist
<1>4. ASSUME Return(t), pc[t] # "alloc",
             UNCHANGED <<next, prev, parts, name, ctl_args, bufs, found, overlap>>
      PROVE  Quiet(t) /\ ThreadOk(t)'
  BY <1>4, ReturnIsQuiet DEF Quiet, ThreadOk
<1>5. CASE \/ LoadExists(t) \/ UnloadAbsent(t) \/ ControlAbsent(t) \/ ControlReturn(t)
           \/ InfoReturn(t) \/ InfoAbsent(t) \/ ListReturn(t)
  BY <1>4, <1>5 DEF LoadExists, UnloadAbsent, ControlAbsent, ControlReturn, InfoReturn,
                    InfoAbsent, ListReturn, Found, Absent, InCall, list, held, hist
<1>6. CASE LoadFails(t)
  <2>1. \A f \in Failure : f.taken \ f.freed = {}
    BY DEF Failure, Part
  <2>2. parts' = parts
    BY <1>6, <2>1 DEF LoadFails, KpmTypes
  <2> QED BY <1>4, <1>6, <2>2 DEF LoadFails, Absent, InCall, list, hist
<1>7. CASE LoadInitFails(t)
  BY <1>7 DEF LoadInitFails, InCall, Goto, list, hist, Quiet, Alone, GoesOn, ThreadOk,
              GentleInv, KpmTypes
<1>8. CASE LoadTail(t)
  BY <1>8 DEF LoadTail, InCall, Goto, list, hist, Quiet, Alone, GoesOn, ThreadOk,
              GentleInv, KpmTypes
<1>9. CASE ControlCall(t)
  BY <1>9 DEF ControlCall, InCall, Goto, list, held, hist, Quiet, Alone, GoesOn, ThreadOk,
              GentleInv, KpmTypes
<1>10. CASE Control1Call(t)
  <2>1. cur[t] \in found /\ name[cur[t]] = arg[t] /\ op[t] = "control1" /\ pc[t] = "find"
    BY <1>10, FoundListed DEF Control1Call, Op
  <2>2. Quiet(t)
    BY <1>10, <2>1 DEF Control1Call, Goto, list, held, hist, Quiet, Alone, GoesOn, KpmTypes
  <2>3. ThreadOk(t)'
    BY <1>10, <2>1 DEF Control1Call, Goto, list, held, hist, ThreadOk, GentleInv, KpmTypes
  <2> QED BY <2>2, <2>3
<1> QED BY <1>1, <1>3, <1>5, <1>6, <1>7, <1>8, <1>9, <1>10

\* While one loads no other changes the list, while one unloads no other is there.
LEMMA LoadsAlone ==
    ASSUME GentleInv, NEW t \in Thread, op[t] = "load", pc[t] # "idle"
    PROVE  \A u \in Thread \ {t} : pc[u] \notin {"init", "exit", "link", "unload"}
<1> SUFFICES ASSUME NEW u \in Thread \ {t}, pc[u] \in {"init", "exit", "link", "unload"}
             PROVE  FALSE
  OBVIOUS
<1>1. op[u] \in Changes
  BY DEF GentleInv, ThreadOk, Changes
<1> QED BY <1>1 DEF GentleInv, Apart, Changes

LEMMA UnloadsAlone ==
    ASSUME GentleInv, NEW t \in Thread, op[t] = "unload", pc[t] # "idle"
    PROVE  \A u \in Thread \ {t} : pc[u] = "idle"
BY DEF GentleInv, Apart

\* Two control0 at once are about different modules.
LEMMA ControlsDiffer ==
    ASSUME GentleInv, NEW t \in Thread, NEW u \in Thread \ {t},
           op[t] = "control0", pc[t] # "idle", cur[t] \in found, name[cur[t]] = arg[t],
           pc[u] \in {"alloc", "call", "running"}, op[u] = "control0"
    PROVE  cur[u] # cur[t]
BY DEF GentleInv, ThreadOk, Apart

LEMMA BeginKeeps ==
    ASSUME KpmTypes, GentleInv, NEW t \in Thread, NEW o \in Op, NEW n \in Name \cup {NIL},
           BeginCall(t, o, n), Gentle'
    PROVE  GentleInv'
<1>1. /\ UNCHANGED <<next, prev, parts, name, ctl_args, bufs, found, buf>>
      /\ Alone(t) /\ pc[t] = "idle" /\ pc'[t] = "find"
      /\ op'[t] = o /\ arg'[t] = n /\ cur'[t] = next[HEAD]
  BY DEF BeginCall, Goto, list, held, Alone, KpmTypes
<1>2. \A u \in Thread \ {t} : pc[u] # "idle" => ~Meet("uses", o, n, u) /\ ~Meet("changes", o, n, u)
  BY DEF BeginCall, Gentle
<1>3. \A u \in Thread \ {t} : Apart(t, u)' /\ Apart(u, t)'
  BY <1>1, <1>2 DEF Meet, Apart, Alone
<1>4. \A u, w \in Thread : u # w => Apart(u, w)'
  <2> TAKE u, w \in Thread
  <2>1. CASE u # t /\ w # t
    BY <1>1, <2>1 DEF Alone, GentleInv, Apart
  <2> QED BY <1>3, <2>1
<1>5. \A u \in Thread \ {t} : ThreadOk(u)'
  BY <1>1, OthersFrame DEF GentleInv, ThreadOk
<1>6. ThreadOk(t)'
  BY <1>1 DEF GentleInv, ThreadOk, ListOk, Ring
<1>7. \A m \in Mod : Dangles(m)' <=> Dangles(m)
  BY <1>1 DEF Dangles, Alone
<1>8. ListOk' /\ ArgsOk'
  BY <1>1, <1>7 DEF GentleInv, ListOk, ArgsOk
<1> QED BY <1>4, <1>5, <1>6, <1>8 DEF GentleInv

LEMMA LoadInitKeeps ==
    ASSUME KpmTypes, GentleInv, NEW t \in Thread, LoadInit(t)
    PROVE  GentleInv'
<1> PICK m \in Mod :
      /\ parts[m] = {} /\ parts' = [parts EXCEPT ![m] = Part]
      /\ name' = [name EXCEPT ![m] = arg[t]] /\ cur' = [cur EXCEPT ![t] = m]
  BY DEF LoadInit
<1>1. m \notin found /\ {} # Part
  BY DEF GentleInv, ListOk, Part
<1>2. /\ UNCHANGED <<next, prev, ctl_args, bufs, found>>
      /\ Alone(t) /\ GoesOn(t) /\ op[t] = "load" /\ pc[t] = "find" /\ op'[t] = "load"
      /\ pc'[t] = "init" /\ cur'[t] = m /\ parts'[m] = Part /\ buf'[t] = buf[t]
      /\ \A k \in Mod \ {m} : parts'[k] = parts[k] /\ name'[k] = name[k]
  BY DEF LoadInit, Absent, InCall, Goto, list, hist, Alone, GoesOn, KpmTypes
<1>3. \A u, w \in Thread : u # w => Apart(u, w)'
  BY <1>2, ApartFrame DEF GentleInv
<1>4. ASSUME NEW u \in Thread \ {t} PROVE ThreadOk(u)'
  <2>1. pc[u] \notin {"init", "exit", "link", "unload"}
    BY <1>2, LoadsAlone
  <2> QED BY <1>1, <1>2, <2>1, OthersFrame DEF GentleInv, KpmTypes
<1>5. ThreadOk(t)'
  BY <1>1, <1>2 DEF GentleInv, ThreadOk
<1>6. \A k \in Mod : Dangles(k)' <=> Dangles(k)
  BY <1>2 DEF Dangles, Alone
<1>7. ListOk'
  BY <1>1, <1>2 DEF GentleInv, ListOk
<1>8. ArgsOk'
  BY <1>2, <1>6 DEF GentleInv, ArgsOk
<1> QED BY <1>3, <1>4, <1>5, <1>7, <1>8 DEF GentleInv

\* The memory of a module that is not on the list goes.
LEMMA FreeKeepsList ==
    ASSUME KpmTypes, ListOk, NEW m \in Mod \ found, Free(m), UNCHANGED found
    PROVE  ListOk'
<1>1. \A x \in found \cup {HEAD} : x # m /\ x \in Node
  BY ConstantFacts DEF KpmTypes, Node
<1>2. \A x \in found \cup {HEAD} : next'[x] = next[x] /\ prev'[x] = prev[x]
  BY <1>1 DEF Free, KpmTypes
<1>3. Ring(next', prev', found)
  BY <1>2 DEF ListOk, Ring
<1>4. /\ \A k \in found : parts'[k] = Part
      /\ \A k \in Mod : parts'[k] = {} => ctl_args'[k] = NIL
  BY DEF ListOk, Free, KpmTypes
<1> QED BY <1>3, <1>4 DEF ListOk, Ring

LEMMA LoadFreeKeeps ==
    ASSUME KpmTypes, GentleInv, NEW t \in Thread, LoadFree(t)
    PROVE  GentleInv'
<1> DEFINE m == cur[t]
<1>1. /\ m \in Mod \ found /\ op[t] = "load" /\ pc[t] = "exit"
      /\ Free(m) /\ Return(t) /\ UNCHANGED <<bufs, found>>
  BY DEF LoadFree, InCall, hist, GentleInv, ThreadOk
<1>2. Alone(t) /\ GoesOn(t) /\ pc'[t] = "idle" /\ buf'[t] = NIL
  BY <1>1, ReturnIsQuiet
<1>3. \A u, w \in Thread : u # w => Apart(u, w)'
  BY <1>2, ApartFrame DEF GentleInv
<1>4. /\ ctl_args'[m] = NIL
      /\ \A k \in Mod \ {m} : name'[k] = name[k] /\ ctl_args'[k] = ctl_args[k]
  BY <1>1 DEF Free, KpmTypes
<1>5. ASSUME NEW u \in Thread \ {t} PROVE ThreadOk(u)'
  <2>1. pc[u] \notin {"init", "exit", "link", "unload"}
    BY <1>1, LoadsAlone
  <2>2. pc[u] # "idle" /\ cur[u] \in found =>
           cur[u] \in found' /\ name'[cur[u]] = name[cur[u]] /\ ctl_args'[cur[u]] = ctl_args[cur[u]]
    BY <1>1, <1>4 DEF KpmTypes
  <2>3. pc[u] = "running" => cur[u] \in found
    BY DEF GentleInv, ThreadOk
  <2> QED BY <1>2, <2>1, <2>2, <2>3, OthersFrame DEF GentleInv
<1>6. ThreadOk(t)'
  BY <1>2 DEF ThreadOk
<1>7. \A k \in Mod : Dangles(k)' <=> Dangles(k)
  BY <1>1, <1>2 DEF Dangles, Alone
<1>8. ListOk'
  BY <1>1, FreeKeepsList DEF GentleInv
<1>9. ArgsOk'
  BY <1>1, <1>4, <1>7 DEF GentleInv, ArgsOk
<1> QED BY <1>3, <1>5, <1>6, <1>8, <1>9 DEF GentleInv

\* list_add_tail of a module nobody else can see yet.
LEMMA AddTailKeepsRing ==
    ASSUME KpmTypes, NEW m \in Mod \ found, Ring(next, prev, found),
           prev' = [prev EXCEPT ![HEAD] = m, ![m] = prev[HEAD]],
           next' = [next EXCEPT ![m] = HEAD, ![prev[HEAD]] = m]
    PROVE  Ring(next', prev', found \cup {m})
<1> DEFINE x == prev[HEAD]
           S == found \cup {m}
<1>1. x \in found \cup {HEAD} /\ x \in Node /\ x # m /\ m # HEAD /\ next[x] = HEAD
  BY ConstantFacts DEF Ring, KpmTypes, Node
<1>2. \A y \in Node :
        /\ prev'[y] = IF y = m THEN x ELSE IF y = HEAD THEN m ELSE prev[y]
        /\ next'[y] = IF y = x THEN m ELSE IF y = m THEN HEAD ELSE next[y]
  <2>1. /\ prev' = [prev EXCEPT ![HEAD] = m, ![m] = x]
        /\ next' = [next EXCEPT ![m] = HEAD, ![x] = m]
    OBVIOUS
  <2> HIDE DEF x
  <2> QED BY <1>1, <2>1, AddTailPointers
<1>3. S \cup {HEAD} \subseteq Node
  BY DEF KpmTypes, Node
<1>4. \A y \in found \cup {HEAD} : /\ next[y] \in found \cup {HEAD} /\ prev[y] \in found \cup {HEAD}
                                   /\ next[prev[y]] = y /\ prev[next[y]] = y
  BY DEF Ring
<1> HIDE DEF x
<1>5. /\ prev'[m] = x /\ next'[m] = HEAD
      /\ prev'[HEAD] = m /\ next'[x] = m
  BY <1>1, <1>2, ConstantFacts DEF Node
<1>6. ASSUME NEW y \in found \cup {HEAD}
      PROVE  /\ y # m /\ y \in Node
             /\ prev'[y] = IF y = HEAD THEN m ELSE prev[y]
             /\ next'[y] = IF y = x THEN m ELSE next[y]
  BY <1>1, <1>2, <1>3
<1>7. ASSUME NEW y \in found \cup {HEAD}
      PROVE  /\ next'[y] \in S \cup {HEAD} /\ prev'[y] \in S \cup {HEAD}
             /\ prev'[next'[y]] = y /\ next'[prev'[y]] = y
  <2>1. next'[y] \in S \cup {HEAD} /\ prev'[y] \in S \cup {HEAD}
    <3>1. next[y] \in S \cup {HEAD} /\ prev[y] \in S \cup {HEAD} /\ m \in S
      BY <1>4
    <3> HIDE DEF S
    <3> QED BY <1>6, <3>1
  <2>2. prev'[next'[y]] = y
    <3>1. CASE y = x
      BY <1>5, <1>6, <3>1
    <3>2. CASE y # x
      <4>1. next'[y] = next[y] /\ next[y] # HEAD /\ next[y] \in found \cup {HEAD}
        BY <1>4, <1>6, <3>2 DEF x
      <4>2. prev'[next[y]] = prev[next[y]]
        BY <1>6, <4>1
      <4> QED BY <1>4, <4>1, <4>2
    <3> QED BY <3>1, <3>2
  <2>3. next'[prev'[y]] = y
    <3>1. CASE y = HEAD
      BY <1>5, <3>1
    <3>2. CASE y # HEAD
      <4>1. prev'[y] = prev[y] /\ prev[y] # x /\ prev[y] \in found \cup {HEAD}
        BY <1>1, <1>4, <1>6, <3>2
      <4>2. next'[prev[y]] = next[prev[y]]
        BY <1>6, <4>1
      <4> QED BY <1>4, <4>1, <4>2
    <3> QED BY <3>1, <3>2
  <2> QED BY <2>1, <2>2, <2>3
<1>8. ASSUME NEW y \in S \cup {HEAD}
      PROVE  /\ next'[y] \in S \cup {HEAD} /\ prev'[y] \in S \cup {HEAD}
             /\ next'[prev'[y]] = y /\ prev'[next'[y]] = y
  <2>1. CASE y = m
    BY <1>1, <1>5, <2>1
  <2>2. CASE y # m
    BY <1>7, <2>2
  <2> QED BY <2>1, <2>2
<1> QED BY <1>8 DEF Ring

\* list_del of a listed module.
LEMMA DeleteKeepsRing ==
    ASSUME KpmTypes, NEW m \in found, Ring(next, prev, found),
           prev' = [prev EXCEPT ![next[m]] = prev[m], ![m] = POISON],
           next' = [next EXCEPT ![prev[m]] = next[m], ![m] = POISON]
    PROVE  Ring(next', prev', found \ {m})
<1> DEFINE S == found \ {m}
<1>1. m \in Mod /\ m # HEAD /\ found \cup {HEAD} \subseteq Node
  BY ConstantFacts DEF KpmTypes, Node
<1>2. \A y \in Node :
        /\ prev'[y] = IF y = m THEN POISON ELSE IF y = next[m] THEN prev[m] ELSE prev[y]
        /\ next'[y] = IF y = m THEN POISON ELSE IF y = prev[m] THEN next[m] ELSE next[y]
  BY <1>1, DeletePointers
<1>3. \A y \in found \cup {HEAD} : /\ next[y] \in found \cup {HEAD} /\ prev[y] \in found \cup {HEAD}
                                   /\ next[prev[y]] = y /\ prev[next[y]] = y
  BY DEF Ring
<1>4. ASSUME NEW y \in S \cup {HEAD}
      PROVE  /\ next'[y] \in S \cup {HEAD} /\ prev'[y] \in S \cup {HEAD}
             /\ next'[prev'[y]] = y /\ prev'[next'[y]] = y
  <2>1. y # m /\ y \in found \cup {HEAD}
    BY <1>1
  <2>2. /\ next'[y] = IF y = prev[m] THEN next[m] ELSE next[y]
        /\ prev'[y] = IF y = next[m] THEN prev[m] ELSE prev[y]
    BY <1>1, <1>2, <2>1
  <2>3. next'[y] # m /\ prev'[y] # m
    BY <1>3, <2>1, <2>2
  <2>4. next'[y] \in found \cup {HEAD} /\ prev'[y] \in found \cup {HEAD}
    BY <1>3, <2>1, <2>2
  <2>5. prev'[next'[y]] = IF next'[y] = next[m] THEN prev[m] ELSE prev[next'[y]]
    BY <1>1, <1>2, <2>3, <2>4
  <2>6. next'[prev'[y]] = IF prev'[y] = prev[m] THEN next[m] ELSE next[prev'[y]]
    BY <1>1, <1>2, <2>3, <2>4
  <2>7. prev'[next'[y]] = y
    BY <1>3, <2>1, <2>2, <2>5
  <2>8. next'[prev'[y]] = y
    BY <1>3, <2>1, <2>2, <2>6
  <2> QED BY <2>3, <2>4, <2>7, <2>8
<1> QED BY <1>4 DEF Ring

LEMMA LoadLinkKeeps ==
    ASSUME KpmTypes, GentleInv, NEW t \in Thread, LoadLink(t)
    PROVE  GentleInv'
<1> DEFINE m == cur[t]
<1>1. /\ m \in Mod \ found /\ parts[m] = Part /\ op[t] = "load" /\ pc[t] = "link"
      /\ last[t] = prev[HEAD]
  BY DEF LoadLink, InCall, GentleInv, ThreadOk
<1>2. /\ Return(t) /\ found' = found \cup {m}
      /\ UNCHANGED <<parts, name, ctl_args, bufs>>
      /\ prev' = [prev EXCEPT ![HEAD] = m, ![m] = prev[HEAD]]
      /\ next' = [next EXCEPT ![m] = HEAD, ![prev[HEAD]] = m]
  BY <1>1 DEF LoadLink, held
<1>3. Alone(t) /\ GoesOn(t) /\ pc'[t] = "idle" /\ buf'[t] = NIL
  BY <1>2, ReturnIsQuiet
<1>4. \A u, w \in Thread : u # w => Apart(u, w)'
  BY <1>3, ApartFrame DEF GentleInv
<1>5. ASSUME NEW u \in Thread \ {t} PROVE ThreadOk(u)'
  <2>1. pc[u] \notin {"init", "exit", "link", "unload"}
    BY <1>1, LoadsAlone
  <2> QED BY <1>2, <1>3, <2>1, OthersFrame DEF GentleInv
<1>6. ThreadOk(t)'
  BY <1>3 DEF ThreadOk
<1>7. ListOk'
  BY <1>1, <1>2, AddTailKeepsRing DEF GentleInv, ListOk, Ring
<1>8. \A k \in Mod : Dangles(k)' <=> Dangles(k)
  BY <1>1, <1>3 DEF Dangles, Alone
<1>9. ArgsOk'
  BY <1>2, <1>8 DEF GentleInv, ArgsOk
<1> QED BY <1>4, <1>5, <1>6, <1>7, <1>9 DEF GentleInv

\* While the others are idle there is only t to look at.
LEMMA IdleFrame ==
    ASSUME GentleInv, NEW t \in Thread, Alone(t), \A u \in Thread \ {t} : pc[u] = "idle"
    PROVE  /\ \A u \in Thread \ {t} : ThreadOk(u)'
           /\ \A u, w \in Thread : u # w => Apart(u, w)'
<1>1. \A u \in Thread \ {t} : ThreadOk(u)'
  BY DEF GentleInv, ThreadOk, Alone
<1>2. \A u, w \in Thread : u # w => Apart(u, w)'
  BY DEF Apart, Alone
<1> QED BY <1>1, <1>2

LEMMA UnloadDeleteKeeps ==
    ASSUME KpmTypes, GentleInv, NEW t \in Thread, UnloadDelete(t)
    PROVE  GentleInv'
<1> DEFINE m == cur[t]
<1>1. m \in found /\ m \in Mod /\ parts[m] = Part /\ op[t] = "unload" /\ pc[t] = "find"
  BY FoundListed DEF UnloadDelete, Op
<1>2. /\ UNCHANGED <<parts, name, ctl_args, bufs, op, cur, buf>>
      /\ found' = found \ {m} /\ Alone(t) /\ pc'[t] = "unload"
  BY DEF UnloadDelete, Goto, Alone, KpmTypes
<1>3. (\A u \in Thread \ {t} : ThreadOk(u)') /\ \A u, w \in Thread : u # w => Apart(u, w)'
  BY <1>1, <1>2, UnloadsAlone, IdleFrame
<1>4. ThreadOk(t)'
  BY <1>1, <1>2 DEF ThreadOk, GentleInv
<1>5. Ring(next', prev', found')
  BY <1>1, <1>2, DeleteKeepsRing DEF UnloadDelete, GentleInv, ListOk
<1>6. ListOk'
  BY <1>2, <1>5 DEF GentleInv, ListOk, Ring
<1>7. \A k \in Mod : Dangles(k)' <=> Dangles(k)
  BY <1>1, <1>2 DEF Dangles, Alone
<1>8. ArgsOk'
  BY <1>2, <1>7 DEF GentleInv, ArgsOk
<1> QED BY <1>3, <1>4, <1>6, <1>8 DEF GentleInv

LEMMA UnloadFreeKeeps ==
    ASSUME KpmTypes, GentleInv, NEW t \in Thread, UnloadFree(t)
    PROVE  GentleInv'
<1> DEFINE m == cur[t]
<1>1. /\ m \in Mod \ found /\ op[t] = "unload" /\ pc[t] = "unload"
      /\ Free(m) /\ Return(t) /\ bufs' = bufs \ {ctl_args[m]} /\ UNCHANGED found
  BY DEF UnloadFree, InCall, hist, GentleInv, ThreadOk
<1>2. Alone(t) /\ pc'[t] = "idle" /\ buf'[t] = NIL
  BY <1>1, ReturnIsQuiet
<1>3. \A u \in Thread \ {t} : pc[u] = "idle"
  BY <1>1, UnloadsAlone
<1>4. (\A u \in Thread \ {t} : ThreadOk(u)') /\ \A u, w \in Thread : u # w => Apart(u, w)'
  BY <1>2, <1>3, IdleFrame
<1>5. ThreadOk(t)'
  BY <1>2 DEF ThreadOk
<1>6. ListOk'
  BY <1>1, FreeKeepsList DEF GentleInv
<1>7. \A k \in Mod : ~Dangles(k)
  BY <1>1, <1>3 DEF Dangles
<1>8. /\ ctl_args'[m] = NIL
      /\ \A k \in Mod \ {m} : ctl_args'[k] = ctl_args[k]
  BY <1>1 DEF Free, KpmTypes
<1>9. ArgsOk'
  BY <1>1, <1>7, <1>8 DEF GentleInv, ArgsOk
<1> QED BY <1>4, <1>5, <1>6, <1>9 DEF GentleInv

\* A control0 works on the arguments of its module: no other runs one of it.
LEMMA ControlFrame ==
    ASSUME KpmTypes, GentleInv, NEW t \in Thread, Alone(t), GoesOn(t),
           UNCHANGED <<next, prev, parts, name, found>>,
           pc[t] # "idle", op[t] = "control0", cur[t] \in found, name[cur[t]] = arg[t],
           \A k \in Mod \ {cur[t]} : ctl_args'[k] = ctl_args[k]
    PROVE  /\ \A u \in Thread \ {t} : ThreadOk(u)'
           /\ \A u, w \in Thread : u # w => Apart(u, w)'
           /\ \A u \in Thread \ {t} : ~(pc[u] = "alloc" /\ cur[u] = cur[t])
           /\ \A k \in Mod \ {cur[t]} : cur'[t] = cur[t] \/ pc'[t] = "idle"
                                            => (Dangles(k)' <=> Dangles(k))
<1>1. \A u, w \in Thread : u # w => Apart(u, w)'
  BY ApartFrame DEF GentleInv
<1>2. ASSUME NEW u \in Thread \ {t}
      PROVE  ThreadOk(u)' /\ ~(pc[u] = "alloc" /\ cur[u] = cur[t])
  <2>1. ThreadOk(u)
    BY DEF GentleInv
  <2>2. pc[u] = "alloc" => op[u] = "control0"
    BY <2>1 DEF ThreadOk
  <2>3. pc[u] \in {"alloc", "running"} /\ op[u] = "control0" => cur[u] # cur[t]
    BY ControlsDiffer
  <2>4. pc[u] \in {"init", "exit", "link", "unload"} => cur[u] \notin found
    BY <2>1 DEF ThreadOk
  <2>5. pc[u] = "running" => cur[u] \in Mod
    BY <2>1 DEF ThreadOk, KpmTypes
  <2>6. pc[u] = "running" /\ op[u] = "control0" => ctl_args'[cur[u]] = ctl_args[cur[u]]
    BY <2>3, <2>5
  <2> QED BY <2>1, <2>2, <2>3, <2>4, <2>6, OthersFrame
<1>3. \A k \in Mod \ {cur[t]} : cur'[t] = cur[t] \/ pc'[t] = "idle" => (Dangles(k)' <=> Dangles(k))
  BY DEF Dangles, Alone
<1> QED BY <1>1, <1>2, <1>3

LEMMA ControlFreeArgsKeeps ==
    ASSUME KpmTypes, GentleInv, NEW t \in Thread, ControlFreeArgs(t)
    PROVE  GentleInv'
<1> DEFINE m == cur[t]
<1>1. /\ m \in found /\ m \in Mod /\ name[m] = arg[t] /\ op[t] = "control0" /\ pc[t] = "find"
  BY FoundListed DEF ControlFreeArgs, Op
<1>2. /\ UNCHANGED <<next, prev, parts, name, ctl_args, found, cur, op, arg, buf>>
      /\ bufs' = bufs \ {ctl_args[m]} /\ pc'[t] = "alloc" /\ Alone(t) /\ GoesOn(t)
  BY <1>1 DEF ControlFreeArgs, Goto, list, hist, Alone, GoesOn, KpmTypes
<1>3. /\ \A u \in Thread \ {t} : ThreadOk(u)'
      /\ \A u, w \in Thread : u # w => Apart(u, w)'
      /\ \A u \in Thread \ {t} : ~(pc[u] = "alloc" /\ cur[u] = m)
      /\ \A k \in Mod \ {m} : Dangles(k)' <=> Dangles(k)
  BY <1>1, <1>2, ControlFrame
<1>4. ThreadOk(t)'
  BY <1>1, <1>2 DEF ThreadOk, GentleInv
<1>5. Dangles(m)' /\ ~Dangles(m)
  BY <1>1, <1>2, <1>3 DEF Dangles
<1>6. ArgsOk'
  BY <1>1, <1>2, <1>3, <1>5 DEF GentleInv, ArgsOk
<1>7. ListOk'
  BY <1>2 DEF GentleInv, ListOk
<1> QED BY <1>3, <1>4, <1>6, <1>7 DEF GentleInv

LEMMA ControlNoMemoryKeeps ==
    ASSUME KpmTypes, GentleInv, NEW t \in Thread, ControlNoMemory(t)
    PROVE  GentleInv'
<1> DEFINE m == cur[t]
<1>1. /\ m \in found /\ m \in Mod /\ name[m] = arg[t] /\ op[t] = "control0" /\ pc[t] = "alloc"
  BY DEF ControlNoMemory, InCall, GentleInv, ThreadOk, KpmTypes
<1>2. /\ UNCHANGED <<next, prev, parts, name, bufs, found>> /\ Return(t)
      /\ ctl_args'[m] = NIL /\ \A k \in Mod \ {m} : ctl_args'[k] = ctl_args[k]
  BY <1>1 DEF ControlNoMemory, list, hist, KpmTypes
<1>3. Alone(t) /\ GoesOn(t) /\ pc'[t] = "idle" /\ buf'[t] = NIL
  BY <1>2, ReturnIsQuiet
<1>4. /\ \A u \in Thread \ {t} : ThreadOk(u)'
      /\ \A u, w \in Thread : u # w => Apart(u, w)'
      /\ \A k \in Mod \ {m} : Dangles(k)' <=> Dangles(k)
  BY <1>1, <1>2, <1>3, ControlFrame
<1>5. ThreadOk(t)'
  BY <1>3 DEF ThreadOk
<1>6. ArgsOk'
  BY <1>1, <1>2, <1>4 DEF GentleInv, ArgsOk
<1>7. ListOk'
  BY <1>2 DEF GentleInv, ListOk
<1> QED BY <1>4, <1>5, <1>6, <1>7 DEF GentleInv

LEMMA ControlAllocKeeps ==
    ASSUME KpmTypes, GentleInv, NEW t \in Thread, ControlAlloc(t)
    PROVE  GentleInv'
<1> DEFINE m == cur[t]
<1>1. /\ m \in found /\ m \in Mod /\ name[m] = arg[t] /\ op[t] = "control0" /\ pc[t] = "alloc"
  BY DEF ControlAlloc, InCall, GentleInv, ThreadOk, KpmTypes
<1>2. PICK b \in Buf \ bufs : bufs' = bufs \cup {b} /\ ctl_args' = [ctl_args EXCEPT ![m] = b]
  BY DEF ControlAlloc
<1>3. /\ UNCHANGED <<next, prev, parts, name, found, op, arg, cur, buf>>
      /\ pc'[t] = "call" /\ Alone(t) /\ GoesOn(t)
      /\ ctl_args'[m] = b /\ \A k \in Mod \ {m} : ctl_args'[k] = ctl_args[k]
  BY <1>1, <1>2 DEF ControlAlloc, Goto, list, hist, Alone, GoesOn, KpmTypes
<1>4. /\ \A u \in Thread \ {t} : ThreadOk(u)'
      /\ \A u, w \in Thread : u # w => Apart(u, w)'
      /\ \A k \in Mod \ {m} : Dangles(k)' <=> Dangles(k)
  BY <1>1, <1>3, ControlFrame
<1>5. ThreadOk(t)'
  BY <1>1, <1>3 DEF ThreadOk, GentleInv
<1>6. b # NIL /\ b \in bufs' /\ \A k \in Mod : ctl_args[k] # NIL /\ ~Dangles(k) => ctl_args[k] # b
  BY <1>2, ConstantFacts DEF GentleInv, ArgsOk
<1>7. ArgsOk'
  BY <1>1, <1>2, <1>3, <1>4, <1>6 DEF GentleInv, ArgsOk
<1>8. parts[m] = Part /\ {} # Part
  BY <1>1 DEF GentleInv, ListOk, Part
<1>9. ListOk'
  BY <1>3, <1>8 DEF GentleInv, ListOk
<1> QED BY <1>4, <1>5, <1>7, <1>9 DEF GentleInv

\* What did not overlap after a step did not before it.
LEMMA OverlapGrows == ASSUME [KpmNext]_kpmVars PROVE overlap \subseteq overlap'
<1>1. CASE UNCHANGED kpmVars
  BY <1>1 DEF kpmVars, hist
<1>2. ASSUME NEW t \in Thread, NEW o \in Op, NEW n \in Name \cup {NIL}, BeginCall(t, o, n)
      PROVE  overlap \subseteq overlap'
  BY <1>2 DEF BeginCall
<1>3. ASSUME NEW t \in Thread, CallStep(t) PROVE overlap' = overlap
  BY <1>3 DEF CallStep, FindNext, FindFault, LoadExists, LoadFails, LoadInit, LoadInitFails,
              LoadFree, LoadTail, LoadLink, UnloadAbsent, UnloadDelete, UnloadFault,
              UnloadFree, ControlAbsent, ControlFault, ControlFreeArgs, ControlNoMemory,
              ControlAlloc, ControlCall, Control1Call, ControlReturn, InfoReturn,
              InfoAbsent, ListReturn, hist
<1> QED BY <1>1, <1>2, <1>3 DEF KpmNext

LEMMA GentleBack == ASSUME [KpmNext]_kpmVars, Gentle' PROVE Gentle
BY OverlapGrows DEF Gentle

LEMMA GentleStep ==
    ASSUME KpmTypes, Gentle => GentleInv, [KpmNext]_kpmVars
    PROVE  Gentle' => GentleInv'
<1> SUFFICES ASSUME Gentle', GentleInv PROVE GentleInv'
  BY GentleBack
<1>1. CASE UNCHANGED kpmVars
  BY <1>1 DEF kpmVars, list, held, local, hist, GentleInv, ListOk, ArgsOk, Dangles,
              ThreadOk, Apart
<1>2. ASSUME NEW t \in Thread, CallStep(t) PROVE GentleInv'
  BY <1>2, QuietSteps, QuietKeeps, LoadInitKeeps, LoadFreeKeeps, LoadLinkKeeps,
     UnloadDeleteKeeps, UnloadFreeKeeps, ControlFreeArgsKeeps, ControlNoMemoryKeeps,
     ControlAllocKeeps DEF CallStep
<1> QED BY <1>1, <1>2, BeginKeeps DEF KpmNext

\* For every number of threads, modules, names and calls: with no unload beside
\* another call, no two controls of one module at once and no two changes of the
\* list, a call works only on allocated memory and its own arguments.
THEOREM UsedStays == KpmSpec => []UsedStaysAllocated
<1>1. KpmInit => (Gentle => GentleInv)
  BY ConstantFacts DEF KpmInit, GentleInv, ListOk, Ring, ArgsOk, ThreadOk, Apart
<1>2. ASSUME KpmTypes, GentleInv PROVE CodeStaysWhileUsed
  <2> SUFFICES ASSUME NEW t \in Thread
               PROVE  /\ pc[t] \notin {"idle", "fault"} /\ cur[t] \in Mod
                            => "struct" \in parts[cur[t]]
                      /\ pc[t] \in {"init", "running"} => "exec" \in parts[cur[t]]
                      /\ pc[t] = "link" /\ last[t] \in Mod => "struct" \in parts[last[t]]
    BY DEF CodeStaysWhileUsed
  <2>1. ThreadOk(t) /\ pc[t] \in Label
    BY <1>2 DEF GentleInv, KpmTypes
  <2>2. \A m \in found : parts[m] = Part
    BY <1>2 DEF GentleInv, ListOk
  <2>3. prev[HEAD] \in found \cup {HEAD}
    BY <1>2 DEF GentleInv, ListOk, Ring
  <2> QED BY <1>2, <2>1, <2>2, <2>3, ConstantFacts DEF ThreadOk, Label, Part
<1>3. ASSUME KpmTypes, GentleInv PROVE ArgsStayWhileUsed
  <2>1. ASSUME NEW t \in Thread, pc[t] = "running", buf[t] # NIL
        PROVE  /\ op[t] = "control0" /\ buf[t] = ctl_args[cur[t]]
               /\ cur[t] \in found /\ cur[t] \in Mod /\ name[cur[t]] = arg[t]
               /\ ~Dangles(cur[t])
    <3>1. /\ op[t] = "control0" /\ buf[t] = ctl_args[cur[t]]
          /\ cur[t] \in found /\ cur[t] \in Mod /\ name[cur[t]] = arg[t]
      BY <1>3, <2>1 DEF GentleInv, ThreadOk, KpmTypes
    <3>2. ASSUME NEW u \in Thread, pc[u] = "alloc", cur[u] = cur[t] PROVE FALSE
      <4>1. op[u] = "control0" /\ u # t
        BY <1>3, <2>1, <3>2 DEF GentleInv, ThreadOk
      <4> QED BY <1>3, <2>1, <3>1, <3>2, <4>1, ControlsDiffer
    <3> QED BY <3>1, <3>2 DEF Dangles
  <2>2. ASSUME NEW t \in Thread, pc[t] = "running", buf[t] # NIL PROVE buf[t] \in bufs
    BY <1>3, <2>1, <2>2 DEF GentleInv, ArgsOk
  <2>3. ASSUME NEW t \in Thread, pc[t] = "running", buf[t] # NIL,
               NEW u \in Thread \ {t}, pc[u] = "running", buf[u] = buf[t]
        PROVE  FALSE
    <3>1. cur[u] = cur[t]
      BY <1>3, <2>1, <2>3 DEF GentleInv, ArgsOk
    <3> QED BY <1>3, <2>1, <2>3, <3>1, ControlsDiffer
  <2> QED BY <2>2, <2>3 DEF ArgsStayWhileUsed
<1>4. KpmTypes /\ (Gentle => GentleInv) => UsedStaysAllocated
  BY <1>2, <1>3 DEF UsedStaysAllocated
<1>5. KpmTypes /\ (Gentle => GentleInv) /\ [KpmNext]_kpmVars => (Gentle => GentleInv)'
  BY GentleStep
<1> QED BY <1>1, <1>4, <1>5, KpmTypesInvariant, PTL DEF KpmSpec

-----------------------------------------------------------------------------
(* What the list holds while loads and unloads come one after another      *)

Ranks == [Mod -> Nat]

\* A place for every listed module that grows along the list: the list is one
\* walk from the head.
Order(rank, top) ==
    /\ \A m \in found : rank[m] <= top /\ (next[m] # HEAD => rank[m] < rank[next[m]])
    /\ \A m, n \in found : rank[m] < rank[n] => next[m] # HEAD /\ rank[next[m]] <= rank[n]
    /\ \A m \in found : next[HEAD] # HEAD /\ rank[next[HEAD]] <= rank[m]
    /\ \A m, n \in found : rank[m] = rank[n] => m = n

\* The listed modules are up, one of a name.
UpOnce ==
    /\ \A m \in found : parts[m] = Part /\ stage[m] = "up"
    /\ \A m, n \in found : name[m] = name[n] => m = n

Changing(t) == pc[t] # "idle" /\ op[t] \in Changes

\* A call that changes the list has not passed its name, and adds it only once it
\* has passed them all.
ChangerOk(t, rank) ==
    /\ pc[t] = "find" /\ op[t] \in Changes =>
          /\ cur[t] \in found \cup {HEAD}
          /\ \A m \in found : name[m] = arg[t] => cur[t] # HEAD /\ rank[cur[t]] <= rank[m]
    /\ pc[t] \in {"init", "exit", "link"} =>
          /\ op[t] = "load" /\ cur[t] \in Mod \ found /\ parts[cur[t]] = Part
          /\ name[cur[t]] = arg[t] /\ \A m \in found : name[m] # arg[t]
    /\ pc[t] = "link" => last[t] = prev[HEAD] /\ stage[cur[t]] = "up"
    /\ pc[t] = "unload" => op[t] = "unload" /\ cur[t] \in Mod \ found

OrderlyInv(rank, top) ==
    /\ Ring(next, prev, found) /\ Order(rank, top) /\ UpOnce
    /\ \A t \in Thread : ChangerOk(t, rank)
    /\ \A t, u \in Thread : t # u => ~Changing(t) \/ ~Changing(u)

InOrder == \E rank \in Ranks, top \in Nat : OrderlyInv(rank, top)

\* Every read section is one of a call under way, or of an info that found nothing.
DepthOk ==
    /\ depth \in [Thread -> Int] /\ missed \in [Thread -> Int]
    /\ \A t \in Thread :
          /\ depth[t] = missed[t] + (IF pc[t] # "idle" /\ op[t] # "load" THEN 1 ELSE 0)
          /\ pc[t] = "running" => op[t] # "load"

\* While calls come one after another, all memory is a listed module's or in the
\* hands of the one call.
KeptInv ==
    /\ \A t, u \in Thread : t # u => pc[t] = "idle" \/ pc[u] = "idle"
    /\ \A m \in Mod : parts[m] # {} =>
          m \in found \/ \E t \in Thread : cur[t] = m /\ pc[t] \in {"init", "exit", "link", "unload"}
    /\ \A b \in bufs : \E m \in Mod :
          ctl_args[m] = b /\ (m \in found \/ \E t \in Thread : pc[t] = "unload" /\ cur[t] = m)
    /\ \A t \in Thread : pc[t] = "alloc" => ctl_args[cur[t]] \notin bufs
-----------------------------------------------------------------------------
(* Induction, and the walk along the list *)

\* Every set of numbers has a least member: sets 0 .. n are ordered by inclusion.
LEMMA Least ==
    ASSUME NEW T \in SUBSET Nat, T # {}
    PROVE  \E n \in T : \A m \in T : n <= m
<1> DEFINE F == {0 .. n : n \in T}
<1>1. F \subseteq FiniteSubsetsOf(Nat)
  <2> SUFFICES ASSUME NEW n \in T PROVE 0 .. n \in FiniteSubsetsOf(Nat)
    OBVIOUS
  <2>1. IsFiniteSet(0 .. n)
    BY FS_Interval
  <2> QED BY <2>1 DEF FiniteSubsetsOf
<1>2. F # {}
  OBVIOUS
<1>3. \E x \in F : \A y \in F : ~(<<y, x>> \in StrictSubsetOrdering(Nat))
  <2> HIDE DEF F
  <2> QED BY <1>1, <1>2, WFMin, FS_StrictSubsetOrderingWellFounded
<1>4. PICK n \in T : \A m \in T : ~(<<0 .. m, 0 .. n>> \in StrictSubsetOrdering(Nat))
  BY <1>3
<1>5. ASSUME NEW m \in T, m < n PROVE FALSE
  <2>1. n \in 0 .. n /\ n \notin 0 .. m
    BY <1>5
  <2>2. 0 .. m \in SUBSET Nat /\ 0 .. n \in SUBSET Nat /\ 0 .. m \subseteq 0 .. n /\ 0 .. m # 0 .. n
    BY <2>1, <1>5
  <2>3. <<0 .. m, 0 .. n>> \in StrictSubsetOrdering(Nat)
    BY <2>2 DEF StrictSubsetOrdering
  <2> QED BY <2>3, <1>4
<1> QED BY <1>5

LEMMA Induct ==
    ASSUME NEW T \in SUBSET Nat, 0 \in T, \A n \in T : n + 1 \in T
    PROVE  T = Nat
<1> SUFFICES ASSUME Nat \ T # {} PROVE FALSE
  OBVIOUS
<1>1. PICK n \in Nat \ T : \A m \in Nat \ T : n <= m
  BY Least
<1>2. n # 0 /\ n - 1 \in Nat /\ n - 1 \notin Nat \ T
  BY <1>1
<1> QED BY <1>2

\* The number of modules there is memory for.
N == Cardinality(Mod)

LEMMA ModsAreFinite == IsFiniteSet(Mod) /\ N \in Nat
BY ModuleAssumption, FS_CardinalityType DEF N

\* ModuleAt is a recursive function: there is one that satisfies its equation.
WalksTo(w, n) ==
    w = [k \in 0 .. n |-> IF k = 0 THEN next[HEAD] ELSE IF w[k - 1] \in Mod THEN next[w[k - 1]] ELSE w[k - 1]]

LEMMA SomeWalk == \E w : WalksTo(w, N)
<1> DEFINE T == {n \in Nat : \E w : WalksTo(w, n)}
<1>1. 0 \in T
  <2>1. WalksTo([k \in 0 .. 0 |-> next[HEAD]], 0)
    BY DEF WalksTo
  <2> QED BY <2>1
<1>2. ASSUME NEW n \in T PROVE n + 1 \in T
  <2>1. PICK w : WalksTo(w, n)
    OBVIOUS
  <2> DEFINE v == [k \in 0 .. n + 1 |->
                     IF k = n + 1 THEN (IF w[n] \in Mod THEN next[w[n]] ELSE w[n]) ELSE w[k]]
  <2>2. WalksTo(v, n + 1)
    <3> SUFFICES ASSUME NEW k \in 0 .. n + 1
                 PROVE v[k] = IF k = 0 THEN next[HEAD]
                              ELSE IF v[k - 1] \in Mod THEN next[v[k - 1]] ELSE v[k - 1]
      BY DEF WalksTo
    <3>1. \A j \in 0 .. n : v[j] = w[j]
      OBVIOUS
    <3>2. \A j \in 0 .. n : w[j] = IF j = 0 THEN next[HEAD]
                                   ELSE IF w[j - 1] \in Mod THEN next[w[j - 1]] ELSE w[j - 1]
      BY <2>1 DEF WalksTo
    <3>3. CASE k \in 0 .. n
      BY <3>1, <3>2, <3>3
    <3>4. CASE k = n + 1
      BY <3>1, <3>4
    <3> QED BY <3>3, <3>4
  <2> QED BY <2>2
<1>3. T = Nat
  <2> HIDE DEF T
  <2>1. T \in SUBSET Nat
    BY DEF T
  <2> QED BY <1>1, <1>2, <2>1, Induct
<1> QED BY <1>3, ModsAreFinite

LEMMA ModuleAtIs == WalksTo(ModuleAt, N)
<1>1. \E w : w = [k \in 0 .. Cardinality(Mod) |->
                    IF k = 0 THEN next[HEAD] ELSE IF w[k - 1] \in Mod THEN next[w[k - 1]] ELSE w[k - 1]]
  BY SomeWalk DEF WalksTo, N
<1> QED BY <1>1, Zenon DEF ModuleAt, WalksTo, N

LEMMA ModuleAtSteps ==
    /\ ModuleAt[0] = next[HEAD]
    /\ \A k \in 0 .. N : k + 1 \in 0 .. N =>
          ModuleAt[k + 1] = IF ModuleAt[k] \in Mod THEN next[ModuleAt[k]] ELSE ModuleAt[k]
<1>1. 0 \in 0 .. N
  BY ModsAreFinite
<1>2. \A k \in 0 .. N : ModuleAt[k] = IF k = 0 THEN next[HEAD]
                                      ELSE IF ModuleAt[k - 1] \in Mod THEN next[ModuleAt[k - 1]] ELSE ModuleAt[k - 1]
  BY ModuleAtIs DEF WalksTo
<1>3. ModuleAt[0] = next[HEAD]
  BY <1>1, <1>2
<1>4. ASSUME NEW k \in 0 .. N, k + 1 \in 0 .. N
      PROVE ModuleAt[k + 1] = IF ModuleAt[k] \in Mod THEN next[ModuleAt[k]] ELSE ModuleAt[k]
  <2>1. k + 1 # 0 /\ (k + 1) - 1 = k
    BY ModsAreFinite
  <2> QED BY <1>2, <1>4, <2>1
<1> QED BY <1>3, <1>4

\* The walks of find_module and its like come by every module of an ordered list,
\* and by nothing else.
LEMMA ListedIs ==
    ASSUME KpmTypes, NEW rank \in Ranks, NEW top \in Nat, Ring(next, prev, found), Order(rank, top)
    PROVE  ListedModules = found
<1> USE ModsAreFinite
<1>h. HEAD \notin Mod /\ found \subseteq Mod
  BY ConstantFacts DEF KpmTypes
<1>1. \A k \in 0 .. N : ModuleAt[k] \in found \cup {HEAD}
  <2> DEFINE T == {k \in Nat : k <= N => ModuleAt[k] \in found \cup {HEAD}}
  <2>1. 0 \in T
    BY ModuleAtSteps DEF Ring
  <2>2. ASSUME NEW k \in T PROVE k + 1 \in T
    <3>1. CASE k + 1 <= N
      <4>1. k \in 0 .. N /\ k + 1 \in 0 .. N
        BY <3>1
      <4> QED BY <4>1, ModuleAtSteps DEF Ring
    <3> QED BY <3>1
  <2>3. T = Nat
    <3> HIDE DEF T
    <3>1. T \in SUBSET Nat
      BY DEF T
    <3> QED BY <2>1, <2>2, <3>1, Induct
  <2> QED BY <2>3
<1>2. ListedModules = {ModuleAt[k] : k \in 0 .. N} \cap Mod
  BY DEF ListedModules, N
<1>3. ASSUME NEW m \in found, \A k \in 0 .. N : ModuleAt[k] # m PROVE FALSE
  <2> DEFINE Up(k) == /\ ModuleAt[k] \in found /\ rank[ModuleAt[k]] < rank[m]
                      /\ \A j \in 0 .. N : j < k =>
                            ModuleAt[j] \in found /\ rank[ModuleAt[j]] < rank[ModuleAt[k]]
             T == {k \in Nat : k <= N => Up(k)}
  <2>r. \A n \in found : rank[n] \in Int
    BY <1>h DEF Ranks
  <2>d. \A n \in found : rank[n] = rank[m] => n = m
    BY DEF Order
  <2>1. 0 \in T
    <3>1. 0 \in 0 .. N
      OBVIOUS
    <3>2. ModuleAt[0] # HEAD /\ rank[ModuleAt[0]] <= rank[m]
      BY ModuleAtSteps DEF Order
    <3>3. ModuleAt[0] \in found /\ ModuleAt[0] # m
      BY <3>1, <3>2, <1>1, <1>3
    <3> QED BY <3>1, <3>2, <3>3, <2>r, <2>d
  <2>2. ASSUME NEW k \in T PROVE k + 1 \in T
    <3>1. CASE k + 1 <= N
      <4>1. k \in 0 .. N /\ k + 1 \in 0 .. N
        BY <3>1
      <4>2. Up(k)
        BY <4>1
      <4>3. ModuleAt[k + 1] = next[ModuleAt[k]]
        BY <4>1, <4>2, <1>h, ModuleAtSteps
      <4>4. next[ModuleAt[k]] # HEAD /\ rank[next[ModuleAt[k]]] <= rank[m]
            /\ rank[ModuleAt[k]] < rank[next[ModuleAt[k]]]
        BY <4>2 DEF Order
      <4>5. ModuleAt[k + 1] \in found /\ ModuleAt[k + 1] # m
        BY <4>1, <4>3, <4>4, <1>1, <1>3
      <4>6. rank[ModuleAt[k + 1]] < rank[m]
        BY <4>3, <4>4, <4>5, <2>r, <2>d
      <4>7. ASSUME NEW j \in 0 .. N, j < k + 1
            PROVE  ModuleAt[j] \in found /\ rank[ModuleAt[j]] < rank[ModuleAt[k + 1]]
        <5>1. CASE j = k
          BY <5>1, <4>2, <4>3, <4>4
        <5>2. CASE j # k
          <6>1. ModuleAt[j] \in found /\ rank[ModuleAt[j]] < rank[ModuleAt[k]]
            BY <5>2, <4>7, <4>2
          <6> QED BY <6>1, <4>2, <4>3, <4>4, <4>5, <2>r
        <5> QED BY <5>1, <5>2
      <4> QED BY <4>5, <4>6, <4>7
    <3> QED BY <3>1
  <2>3. T = Nat
    <3> HIDE DEF T
    <3>1. T \in SUBSET Nat
      BY DEF T
    <3> QED BY <2>1, <2>2, <3>1, Induct
  <2>4. \A k \in 0 .. N : Up(k)
    BY <2>3
  <2> DEFINE f == [k \in 0 .. N |-> ModuleAt[k]]
  <2>5. f \in [0 .. N -> Mod]
    BY <2>4, <1>h
  <2>6. IsFiniteSet(0 .. N) /\ Cardinality(0 .. N) = N + 1
    BY FS_Interval
  <2>7. PICK i, j \in 0 .. N : i # j /\ f[i] = f[j]
    <3> HIDE DEF f
    <3>1. Cardinality(Mod) < Cardinality(0 .. N)
      BY <2>6 DEF N
    <3> QED BY <2>5, <2>6, <3>1, FS_PigeonHole
  <2>8. ModuleAt[i] = ModuleAt[j] /\ rank[ModuleAt[i]] \in Int
    BY <2>7, <2>4, <2>r
  <2>9. CASE i < j
    BY <2>9, <2>8, <2>4
  <2>10. CASE j < i
    BY <2>10, <2>8, <2>4
  <2> QED BY <2>7, <2>9, <2>10
<1> QED BY <1>1, <1>2, <1>3, <1>h

-----------------------------------------------------------------------------
(* Every step leaves the list in order *)

\* A step of a call that the list does not see.
Unseen(t) ==
    /\ pc[t] # "idle" /\ pc'[t] \in {"idle", "fault", "alloc", "call", "running"}
    /\ UNCHANGED <<next, prev, parts, name, stage, found>>
    /\ Alone(t) /\ GoesOn(t)

LEMMA CallKinds ==
    ASSUME KpmTypes, NEW t \in Thread, CallStep(t)
    PROVE  \/ Unseen(t) \/ FindNext(t)
           \/ LoadInit(t) \/ LoadInitFails(t) \/ LoadTail(t) \/ LoadLink(t) \/ LoadFree(t)
           \/ UnloadDelete(t) \/ UnloadFree(t)
<1>1. ASSUME Return(t), pc[t] # "idle", UNCHANGED <<next, prev, parts, name, stage, found>>
      PROVE  Unseen(t)
  BY <1>1, ReturnIsQuiet DEF Unseen
<1>2. ASSUME NEW label \in {"fault", "alloc", "call", "running"}, Goto(t, label), pc[t] # "idle",
             UNCHANGED <<op, arg, cur, last>>, \A u \in Thread \ {t} : buf'[u] = buf[u],
             UNCHANGED <<next, prev, parts, name, stage, found>>
      PROVE  Unseen(t)
  BY <1>2 DEF Goto, KpmTypes, Unseen, Alone, GoesOn
<1>3. CASE \/ FindFault(t) \/ UnloadFault(t) \/ ControlFault(t) \/ Control1Call(t)
           \/ ControlFreeArgs(t) \/ ControlAlloc(t)
  BY <1>2, <1>3 DEF FindFault, UnloadFault, ControlFault, Control1Call, ControlFreeArgs,
                    ControlAlloc, Found, InCall, list, held, hist
<1>4. CASE ControlCall(t)
  BY <1>2, <1>4 DEF ControlCall, InCall, list, held, hist, KpmTypes
<1>5. CASE \/ LoadExists(t) \/ UnloadAbsent(t) \/ ControlAbsent(t) \/ ControlReturn(t)
           \/ InfoReturn(t) \/ ListReturn(t) \/ InfoAbsent(t) \/ ControlNoMemory(t)
  BY <1>1, <1>5 DEF LoadExists, UnloadAbsent, ControlAbsent, ControlReturn, InfoReturn,
                    ListReturn, InfoAbsent, ControlNoMemory, Found, Absent, InCall, list, held, hist
<1>6. CASE LoadFails(t)
  <2>1. \A f \in Failure : f.taken \ f.freed = {}
    BY DEF Failure, Part
  <2>2. parts' = parts
    BY <1>6, <2>1 DEF LoadFails, KpmTypes
  <2> QED BY <1>1, <1>6, <2>2 DEF LoadFails, Absent, InCall, list, hist
<1> QED BY <1>3, <1>4, <1>5, <1>6 DEF CallStep

\* A step that leaves the listed modules alone.
LEMMA OrderlyFrame ==
    ASSUME KpmTypes, NEW rank \in Ranks, NEW top \in Nat, OrderlyInv(rank, top),
           NEW t \in Thread, Alone(t), GoesOn(t), found' = found,
           \A x \in found \cup {HEAD} : next'[x] = next[x] /\ prev'[x] = prev[x],
           \A m \in found : parts'[m] = parts[m] /\ name'[m] = name[m] /\ stage'[m] = stage[m],
           UNCHANGED <<parts, name, stage>> \/ Changing(t),
           ChangerOk(t, rank)'
    PROVE  OrderlyInv(rank, top)'
<1>1. Ring(next', prev', found') /\ UpOnce'
  BY DEF OrderlyInv, Ring, UpOnce
<1>2. Order(rank, top)'
  BY DEF OrderlyInv, Order
<1>3. \A u, w \in Thread : u # w => (~Changing(u) \/ ~Changing(w))'
  BY DEF OrderlyInv, Changing, Alone, GoesOn
<1>4. ASSUME NEW u \in Thread \ {t} PROVE ChangerOk(u, rank)'
  <2>1. ChangerOk(u, rank)
    BY DEF OrderlyInv
  <2>2. CASE Changing(u)
    <3>1. UNCHANGED <<parts, name, stage>>
      BY <2>2 DEF OrderlyInv
    <3> QED BY <2>1, <3>1 DEF ChangerOk, Alone
  <2>3. CASE ~Changing(u)
    BY <2>1, <2>3 DEF ChangerOk, Alone, Changing, Changes
  <2> QED BY <2>2, <2>3
<1>5. \A u \in Thread : ChangerOk(u, rank)'
  BY <1>4
<1> QED BY <1>1, <1>2, <1>3, <1>5 DEF OrderlyInv

LEMMA ForeignStep ==
    ASSUME KpmTypes, NEW rank \in Ranks, NEW top \in Nat, OrderlyInv(rank, top),
           NEW t \in Thread,
           Unseen(t) \/ FindNext(t) \/ LoadInit(t) \/ LoadInitFails(t) \/ LoadTail(t)
           \/ LoadFree(t) \/ UnloadFree(t)
    PROVE  OrderlyInv(rank, top)'
<1>1. ChangerOk(t, rank) /\ found \subseteq Mod /\ HEAD \notin Mod
  BY ConstantFacts DEF OrderlyInv, KpmTypes
<1>2. CASE Unseen(t)
  <2>1. ChangerOk(t, rank)'
    BY <1>2 DEF Unseen, ChangerOk
  <2> QED BY <1>2, <2>1, OrderlyFrame DEF Unseen
<1>3. CASE FindNext(t)
  <2>1. /\ Alone(t) /\ GoesOn(t) /\ UNCHANGED <<next, prev, parts, name, stage, found, pc, op, arg>>
        /\ pc[t] = "find" /\ cur[t] \in Mod /\ name[cur[t]] # arg[t] /\ cur'[t] = next[cur[t]]
    BY <1>3 DEF FindNext, HasName, Alone, GoesOn, list, held, hist, KpmTypes
  <2>2. ASSUME op[t] \in Changes
        PROVE  /\ next[cur[t]] \in found \cup {HEAD}
               /\ \A m \in found : name[m] = arg[t] =>
                     next[cur[t]] # HEAD /\ rank[next[cur[t]]] <= rank[m]
    <3>1. cur[t] \in found
      BY <1>1, <2>1, <2>2 DEF ChangerOk
    <3>2. next[cur[t]] \in found \cup {HEAD}
      BY <3>1 DEF OrderlyInv, Ring
    <3>3. ASSUME NEW m \in found, name[m] = arg[t]
          PROVE  next[cur[t]] # HEAD /\ rank[next[cur[t]]] <= rank[m]
      <4>1. rank[cur[t]] <= rank[m] /\ m # cur[t]
        BY <1>1, <2>1, <2>2, <3>3 DEF ChangerOk
      <4>2. rank[cur[t]] # rank[m] /\ rank[cur[t]] \in Nat /\ rank[m] \in Nat
        BY <1>1, <3>1, <4>1 DEF OrderlyInv, Order, Ranks
      <4>3. rank[cur[t]] < rank[m]
        BY <4>1, <4>2
      <4> QED BY <3>1, <4>3 DEF OrderlyInv, Order
    <3> QED BY <3>2, <3>3
  <2>3. ChangerOk(t, rank)'
    BY <2>1, <2>2 DEF ChangerOk
  <2> QED BY <2>1, <2>3, OrderlyFrame
<1>4. CASE LoadInit(t)
  <2>1. PICK m \in Mod :
          /\ parts[m] = {} /\ parts' = [parts EXCEPT ![m] = Part]
          /\ name' = [name EXCEPT ![m] = arg[t]] /\ cur' = [cur EXCEPT ![t] = m]
          /\ stage' = [stage EXCEPT ![m] = "init"]
    BY <1>4 DEF LoadInit
  <2>2. /\ Alone(t) /\ GoesOn(t) /\ Changing(t) /\ UNCHANGED <<next, prev, found, op, arg>>
        /\ pc[t] = "find" /\ op[t] = "load" /\ cur[t] = HEAD /\ pc'[t] = "init"
    BY <1>4, <2>1 DEF LoadInit, Absent, InCall, Goto, Changing, Changes, Alone, GoesOn, list, hist, KpmTypes
  <2>3. m \notin found /\ parts'[m] = Part /\ name'[m] = arg[t] /\ cur'[t] = m
        /\ \A k \in Mod \ {m} : parts'[k] = parts[k] /\ name'[k] = name[k] /\ stage'[k] = stage[k]
    BY <2>1 DEF OrderlyInv, UpOnce, Part, KpmTypes
  <2>4. \A k \in found : name[k] # arg[t]
    BY <1>1, <2>2 DEF ChangerOk, Changes
  <2>5. ChangerOk(t, rank)'
    BY <1>1, <2>2, <2>3, <2>4 DEF ChangerOk
  <2> QED BY <1>1, <2>2, <2>3, <2>5, OrderlyFrame
<1>5. CASE LoadInitFails(t) \/ LoadTail(t)
  <2>1. PICK s \in {"exit", "up"} : stage' = [stage EXCEPT ![cur[t]] = s] /\ (LoadTail(t) => s = "up")
    BY <1>5 DEF LoadInitFails, LoadTail, InCall
  <2>2. /\ Alone(t) /\ GoesOn(t) /\ Changing(t) /\ UNCHANGED <<next, prev, found, op, arg, cur, parts, name>>
        /\ pc[t] = "init" /\ cur[t] \in Mod \ found
        /\ pc'[t] = "exit" \/ LoadTail(t)
    <3>1. pc[t] = "init" /\ op[t] = "load" /\ cur[t] \in Mod \ found
      BY <1>1, <1>5 DEF LoadInitFails, LoadTail, InCall, ChangerOk
    <3>2. CASE LoadInitFails(t)
      BY <3>1, <3>2 DEF LoadInitFails, Goto, Changing, Changes, Alone, GoesOn, list, hist, KpmTypes
    <3>3. CASE LoadTail(t)
      BY <3>1, <3>3 DEF LoadTail, Goto, Changing, Changes, Alone, GoesOn, list, hist, KpmTypes
    <3> QED BY <1>5, <3>2, <3>3
  <2>6. LoadTail(t) => pc'[t] = "link" /\ last'[t] = prev[HEAD] /\ stage'[cur[t]] = "up"
    BY <2>1, <2>2 DEF LoadTail, Goto, KpmTypes
  <2>3. \A k \in found : stage'[k] = stage[k]
    BY <1>1, <2>1, <2>2 DEF KpmTypes
  <2>4. ChangerOk(t, rank)'
    BY <1>1, <2>2, <2>6 DEF ChangerOk
  <2> QED BY <1>1, <2>2, <2>3, <2>4, OrderlyFrame
<1>6. CASE LoadFree(t) \/ UnloadFree(t)
  <2>1. /\ Free(cur[t]) /\ Return(t) /\ found' = found /\ cur[t] \in Mod \ found /\ Changing(t)
    BY <1>1, <1>6 DEF LoadFree, UnloadFree, InCall, hist, ChangerOk, Changing, Changes
  <2>2. Alone(t) /\ GoesOn(t) /\ pc'[t] = "idle"
    BY <2>1, ReturnIsQuiet
  <2>3. \A x \in found \cup {HEAD} : x # cur[t] /\ x \in Node
    BY <1>1, <2>1 DEF Node
  <2>4. \A x \in found \cup {HEAD} : next'[x] = next[x] /\ prev'[x] = prev[x]
    BY <2>1, <2>3 DEF Free, KpmTypes
  <2>5. \A x \in found : parts'[x] = parts[x] /\ name'[x] = name[x] /\ stage'[x] = stage[x]
    BY <1>1, <2>1, <2>3 DEF Free, KpmTypes
  <2>6. ChangerOk(t, rank)'
    BY <2>2 DEF ChangerOk
  <2> QED BY <2>1, <2>2, <2>4, <2>5, <2>6, OrderlyFrame
<1> QED BY <1>2, <1>3, <1>4, <1>5, <1>6

\* A thread that changes the list keeps the places of what others stand on: no
\* other changes it.
LEMMA OthersWait ==
    ASSUME KpmTypes, NEW rank \in Ranks, NEW top \in Nat, OrderlyInv(rank, top),
           NEW other \in Ranks, NEW t \in Thread, Changing(t), Alone(t), GoesOn(t)
    PROVE  /\ \A u \in Thread \ {t} : ChangerOk(u, other)'
           /\ \A u, w \in Thread : u # w => (~Changing(u) \/ ~Changing(w))'
<1>1. ASSUME NEW u \in Thread \ {t} PROVE ChangerOk(u, other)'
  <2>1. ChangerOk(u, rank) /\ ~Changing(u)
    BY DEF OrderlyInv
  <2> QED BY <2>1 DEF ChangerOk, Alone, Changing, Changes
<1>2. \A u, w \in Thread : u # w => (~Changing(u) \/ ~Changing(w))'
  BY DEF OrderlyInv, Changing, Alone, GoesOn
<1> QED BY <1>1, <1>2

\* The module a load links comes after all others.
LEMMA LinkKeepsOrder ==
    ASSUME KpmTypes, NEW rank \in Ranks, NEW top \in Nat, OrderlyInv(rank, top),
           NEW t \in Thread, LoadLink(t)
    PROVE  \E other \in Ranks, high \in Nat : OrderlyInv(other, high)'
<1>0. cur[t] \in Mod
  BY DEF LoadLink, InCall, KpmTypes
<1> PICK m \in Mod : m = cur[t]
  BY <1>0
<1> PICK x : x = prev[HEAD]
  OBVIOUS
<1>4. [rank EXCEPT ![m] = top + 1] \in Ranks
  BY DEF Ranks
<1> PICK other \in Ranks : other = [rank EXCEPT ![m] = top + 1]
  BY <1>4
<1>1. /\ m \in Mod \ found /\ parts[m] = Part /\ name[m] = arg[t] /\ stage[m] = "up"
      /\ \A k \in found : name[k] # arg[t]
      /\ op[t] = "load" /\ pc[t] = "link" /\ last[t] = x
  BY DEF LoadLink, InCall, OrderlyInv, ChangerOk
<1>2. /\ Return(t) /\ found' = found \cup {m} /\ UNCHANGED <<parts, name, stage>>
      /\ prev' = [prev EXCEPT ![HEAD] = m, ![m] = x]
      /\ next' = [next EXCEPT ![m] = HEAD, ![x] = m]
  BY <1>1 DEF LoadLink, held
<1>3. Alone(t) /\ GoesOn(t) /\ pc'[t] = "idle" /\ Changing(t)
  BY <1>1, <1>2, ReturnIsQuiet DEF Changing, Changes
<1>5. ChangerOk(t, other)'
  BY <1>3 DEF ChangerOk
<1>6. /\ \A u \in Thread : ChangerOk(u, other)'
      /\ \A u, w \in Thread : u # w => (~Changing(u) \/ ~Changing(w))'
  <2> QED BY <1>3, <1>5, OthersWait
<1>7. Ring(next', prev', found')
  BY <1>1, <1>2, AddTailKeepsRing DEF OrderlyInv
<1>8. UpOnce'
  BY <1>1, <1>2 DEF OrderlyInv, UpOnce
<1>9. /\ x \in found \cup {HEAD} /\ x \in Node /\ next[x] = HEAD /\ x # m /\ m # HEAD
      /\ HEAD \notin found /\ found \cup {HEAD} \subseteq Node
      /\ \A y \in found \cup {HEAD} : next[y] \in found \cup {HEAD} /\ (next[y] = HEAD => y = x)
  BY <1>1, ConstantFacts DEF OrderlyInv, Ring, KpmTypes, Node
<1>10. /\ next'[m] = HEAD /\ next'[x] = m
       /\ \A y \in (found \cup {HEAD}) \ {x} : next'[y] = next[y]
  <2>1. \A y \in Node : next'[y] = IF y = x THEN m ELSE IF y = m THEN HEAD ELSE next[y]
    <3>1. /\ prev' = [prev EXCEPT ![HEAD] = m, ![m] = x]
          /\ next' = [next EXCEPT ![m] = HEAD, ![x] = m]
      BY <1>2
    <3>2. x \in Node /\ m \in Mod
      BY <1>9
    <3>3. next \in [Node -> Pointers] /\ m \in Node
      BY <3>2 DEF KpmTypes, Node
    <3> QED BY <1>9, <3>1, <3>2, <3>3
  <2>2. m \in Node /\ found \cup {HEAD} \subseteq Node
    BY <1>9 DEF Node
  <2> QED BY <1>1, <1>9, <2>1, <2>2
<1>11. /\ other[m] = top + 1
       /\ \A y \in found : other[y] = rank[y] /\ rank[y] \in Nat /\ rank[y] <= top
  BY <1>1 DEF Ranks, OrderlyInv, Order, KpmTypes
<1>12. \A y, n \in found : /\ next[y] # HEAD => rank[y] < rank[next[y]]
                           /\ rank[y] < rank[n] => next[y] # HEAD /\ rank[next[y]] <= rank[n]
                           /\ next[HEAD] # HEAD /\ rank[next[HEAD]] <= rank[y]
                           /\ rank[y] = rank[n] => y = n
  BY DEF OrderlyInv, Order
<1>13. ASSUME NEW y \in found'
       PROVE other[y] <= top + 1 /\ (next'[y] # HEAD => other[y] < other[next'[y]])
  <2>1. CASE y = m
    BY <1>10, <1>11, <2>1
  <2>2. CASE y = x
    BY <1>2, <1>9, <1>10, <1>11, <2>2
  <2>3. CASE y \in found /\ y # x
    <3>1. next'[y] = next[y] /\ next[y] \in found /\ rank[y] < rank[next[y]]
      BY <1>9, <1>10, <1>12, <2>3
    <3> QED BY <1>11, <2>3, <3>1
  <2> QED BY <1>2, <2>1, <2>2, <2>3
<1>14. ASSUME NEW y \in found', NEW n \in found', other[y] < other[n]
       PROVE  next'[y] # HEAD /\ other[next'[y]] <= other[n]
  <2>1. y \in found
    BY <1>2, <1>11, <1>14
  <2>2. CASE y = x
    <3>1. n \notin found
      BY <1>9, <1>11, <1>12, <1>14, <2>1, <2>2
    <3> QED BY <1>2, <1>9, <1>10, <1>11, <2>2, <3>1
  <2>3. CASE y # x
    <3>1. next'[y] = next[y] /\ next[y] \in found
      BY <1>9, <1>10, <2>1, <2>3
    <3>2. CASE n = m
      BY <1>9, <1>11, <3>1, <3>2
    <3>3. CASE n \in found
      BY <1>9, <1>11, <1>12, <1>14, <2>1, <3>1, <3>3
    <3> QED BY <1>2, <3>2, <3>3
  <2> QED BY <2>2, <2>3
<1>15. ASSUME NEW y \in found' PROVE next'[HEAD] # HEAD /\ other[next'[HEAD]] <= other[y]
  <2>1. CASE x = HEAD
    <3>1. found = {}
      BY <1>9, <1>12, <2>1
    <3> QED BY <1>2, <1>9, <1>10, <1>11, <2>1, <3>1
  <2>2. CASE x \in found
    <3>1. next'[HEAD] = next[HEAD] /\ next[HEAD] # HEAD /\ next[HEAD] \in found
      BY <1>9, <1>10, <1>12, <2>2
    <3>2. CASE y = m
      BY <1>11, <3>1, <3>2
    <3>3. CASE y \in found
      BY <1>11, <1>12, <3>1, <3>3
    <3> QED BY <1>2, <3>1, <3>2, <3>3
  <2> QED BY <1>9, <2>1, <2>2
<1>16. \A y, n \in found' : other[y] = other[n] => y = n
  BY <1>2, <1>11, <1>12
<1>17. Order(other, top + 1)'
  BY <1>13, <1>14, <1>15, <1>16 DEF Order
<1>18. OrderlyInv(other, top + 1)'
  BY <1>6, <1>7, <1>8, <1>17 DEF OrderlyInv
<1>19. top + 1 \in Nat
  OBVIOUS
<1> QED BY <1>18, <1>19

\* What an unload takes out leaves the others in their places.
LEMMA DeleteKeepsOrder ==
    ASSUME KpmTypes, NEW rank \in Ranks, NEW top \in Nat, OrderlyInv(rank, top),
           NEW t \in Thread, UnloadDelete(t)
    PROVE  OrderlyInv(rank, top)'
<1> PICK m : m = cur[t]
  OBVIOUS
<1> PICK x : x = prev[m]
  OBVIOUS
<1>1. /\ op[t] = "unload" /\ pc[t] = "find" /\ m \in found /\ m \in Mod
      /\ \A u, w \in Thread : u # w => ~Changing(u) \/ ~Changing(w)
  BY ConstantFacts DEF UnloadDelete, Found, InCall, OrderlyInv, ChangerOk, Changes
<1>2. /\ UNCHANGED <<parts, name, op, arg, cur>> /\ stage' = [stage EXCEPT ![m] = "exit"]
      /\ found' = found \ {m} /\ pc'[t] = "unload" /\ Alone(t) /\ GoesOn(t) /\ Changing(t)
  BY <1>1 DEF UnloadDelete, Goto, Alone, GoesOn, KpmTypes, Changing, Changes
<1>3. /\ prev' = [prev EXCEPT ![next[m]] = x, ![m] = POISON]
      /\ next' = [next EXCEPT ![x] = next[m], ![m] = POISON]
  BY DEF UnloadDelete
<1>4. ChangerOk(t, rank)'
  BY <1>1, <1>2 DEF ChangerOk
<1>5. /\ \A u \in Thread : ChangerOk(u, rank)'
      /\ \A u, w \in Thread : u # w => (~Changing(u) \/ ~Changing(w))'
  BY <1>2, <1>4, OthersWait
<1>6. Ring(next', prev', found')
  BY <1>1, <1>2, <1>3, DeleteKeepsRing DEF OrderlyInv
<1>7. UpOnce'
  BY <1>1, <1>2 DEF OrderlyInv, UpOnce, KpmTypes
<1>8. /\ \A y \in found \cup {HEAD} :
            /\ next[y] \in found \cup {HEAD} /\ y \in Node
            /\ y # x => next[y] # m
      /\ x \in found \cup {HEAD} /\ next[x] = m /\ HEAD \notin found
  BY <1>1, ConstantFacts DEF OrderlyInv, Ring, KpmTypes, Node
<1>9. \A y \in Node : next'[y] = IF y = m THEN POISON ELSE IF y = x THEN next[m] ELSE next[y]
  <2>1. /\ prev' = [prev EXCEPT ![next[m]] = prev[m], ![m] = POISON]
        /\ next' = [next EXCEPT ![prev[m]] = next[m], ![m] = POISON]
    BY <1>3
  <2>2. m \in Mod
    BY <1>1
  <2>3. \A y \in Node : next'[y] = IF y = m THEN POISON ELSE IF y = prev[m] THEN next[m] ELSE next[y]
    BY <2>1, <2>2, DeletePointers
  <2> QED BY <2>3
<1>10. \A y, n \in found : /\ next[y] # HEAD => rank[y] < rank[next[y]]
                           /\ rank[y] < rank[n] => next[y] # HEAD /\ rank[next[y]] <= rank[n]
                           /\ next[HEAD] # HEAD /\ rank[next[HEAD]] <= rank[y]
                           /\ rank[y] = rank[n] => y = n
                           /\ rank[y] <= top /\ rank[y] \in Nat
  BY DEF OrderlyInv, Order, Ranks, KpmTypes
\* From the one that stood before m the next is the one that stood behind it.
<1>11. ASSUME NEW n \in found', rank[m] <= rank[n]
       PROVE  next[m] # HEAD /\ next[m] \in found /\ rank[next[m]] <= rank[n]
  <2>1. rank[m] < rank[n]
    BY <1>1, <1>2, <1>10, <1>11
  <2> QED BY <1>1, <1>2, <1>8, <1>10, <2>1
<1>12. ASSUME NEW y \in found'
       PROVE  rank[y] <= top /\ (next'[y] # HEAD => rank[y] < rank[next'[y]])
  <2>1. CASE y = x
    <3>1. next'[y] = next[m] /\ rank[y] < rank[m]
      BY <1>1, <1>2, <1>8, <1>9, <1>10, <2>1
    <3>2. next[m] # HEAD => next[m] \in found /\ rank[m] < rank[next[m]]
      BY <1>1, <1>8, <1>10
    <3> QED BY <1>1, <1>2, <1>10, <3>1, <3>2
  <2>2. CASE y # x
    BY <1>2, <1>8, <1>9, <1>10, <2>2
  <2> QED BY <2>1, <2>2
<1>13. ASSUME NEW y \in found', NEW n \in found', rank[y] < rank[n]
       PROVE  next'[y] # HEAD /\ rank[next'[y]] <= rank[n]
  <2>1. CASE y = x
    <3>1. next'[y] = next[m] /\ rank[m] <= rank[n]
      BY <1>1, <1>2, <1>8, <1>9, <1>10, <1>13, <2>1
    <3> QED BY <1>11, <3>1
  <2>2. CASE y # x
    BY <1>2, <1>8, <1>9, <1>10, <1>13, <2>2
  <2> QED BY <2>1, <2>2
<1>14. ASSUME NEW y \in found' PROVE next'[HEAD] # HEAD /\ rank[next'[HEAD]] <= rank[y]
  <2>1. CASE x = HEAD
    <3>1. next'[HEAD] = next[m] /\ rank[m] <= rank[y]
      BY <1>1, <1>2, <1>8, <1>9, <1>10, <2>1
    <3> QED BY <1>11, <3>1
  <2>2. CASE x # HEAD
    <3>1. next'[HEAD] = next[HEAD]
      BY <1>1, <1>8, <1>9, <2>2
    <3> QED BY <1>2, <1>10, <3>1
  <2> QED BY <2>1, <2>2
<1>15. Order(rank, top)'
  BY <1>2, <1>10, <1>12, <1>13, <1>14 DEF Order
<1> QED BY <1>5, <1>6, <1>7, <1>15 DEF OrderlyInv

LEMMA BeginKeepsOrder ==
    ASSUME KpmTypes, NEW rank \in Ranks, NEW top \in Nat, OrderlyInv(rank, top),
           NEW t \in Thread, NEW o \in Op, NEW n \in Name \cup {NIL}, BeginCall(t, o, n), Orderly'
    PROVE  OrderlyInv(rank, top)'
<1>1. /\ UNCHANGED <<next, prev, parts, name, stage, found>>
      /\ Alone(t) /\ pc[t] = "idle" /\ pc'[t] = "find"
      /\ op'[t] = o /\ arg'[t] = n /\ cur'[t] = next[HEAD]
  BY DEF BeginCall, Goto, list, held, Alone, KpmTypes
<1>2. \A u \in Thread \ {t} : pc[u] # "idle" => ~Meet("changes", o, n, u)
  BY DEF BeginCall, Orderly
<1>3. \A u, w \in Thread : u # w => (~Changing(u) \/ ~Changing(w))'
  <2>1. \A u \in Thread \ {t} : Changing(t)' => ~Changing(u)
    BY <1>1, <1>2 DEF Meet, Changing
  <2>2. \A u \in Thread \ {t} : Changing(u)' <=> Changing(u)
    BY <1>1 DEF Changing, Alone
  <2> QED BY <2>1, <2>2 DEF OrderlyInv
<1>4. ASSUME NEW u \in Thread \ {t} PROVE ChangerOk(u, rank)'
  BY <1>1 DEF OrderlyInv, ChangerOk, Alone
<1>5. ChangerOk(t, rank)'
  BY <1>1 DEF OrderlyInv, Ring, Order, ChangerOk
<1>6. Ring(next', prev', found') /\ UpOnce' /\ Order(rank, top)'
  BY <1>1 DEF OrderlyInv, Ring, UpOnce, Order
<1>7. \A u \in Thread : ChangerOk(u, rank)'
  BY <1>4, <1>5
<1> QED BY <1>3, <1>6, <1>7 DEF OrderlyInv

LEMMA OrderStep ==
    ASSUME KpmTypes, Orderly => InOrder, [KpmNext]_kpmVars
    PROVE  Orderly' => InOrder'
<1> SUFFICES ASSUME Orderly', InOrder PROVE InOrder'
  BY OverlapGrows DEF Orderly
<1> PICK rank \in Ranks, top \in Nat : OrderlyInv(rank, top)
  BY DEF InOrder
<1> SUFFICES \E other \in Ranks, high \in Nat : OrderlyInv(other, high)'
  BY DEF InOrder
<1>1. CASE UNCHANGED kpmVars
  <2>1. OrderlyInv(rank, top)'
    BY <1>1 DEF kpmVars, list, held, local, hist, OrderlyInv, Ring, Order, UpOnce, ChangerOk, Changing
  <2> QED BY <2>1
<1>2. ASSUME NEW t \in Thread, NEW o \in Op, NEW n \in Name \cup {NIL}, BeginCall(t, o, n)
      PROVE  OrderlyInv(rank, top)'
  BY <1>2, BeginKeepsOrder
<1>3. ASSUME NEW t \in Thread, CallStep(t)
      PROVE  OrderlyInv(rank, top)' \/ LoadLink(t)
  BY <1>3, CallKinds, ForeignStep, DeleteKeepsOrder
<1> QED BY <1>1, <1>2, <1>3, LinkKeepsOrder DEF KpmNext

-----------------------------------------------------------------------------
(* Nothing is left behind *)

LEMMA DepthStep == ASSUME KpmTypes, DepthOk, [KpmNext]_kpmVars PROVE DepthOk'
<1> DEFINE Open(t) == IF pc[t] # "idle" /\ op[t] # "load" THEN 1 ELSE 0
<1>1. CASE UNCHANGED kpmVars
  BY <1>1 DEF kpmVars, local, hist, DepthOk
\* What t changes of its own.
<1>2. ASSUME NEW t \in Thread, Alone(t),
             depth' \in [Thread -> Int], missed' \in [Thread -> Int],
             \A u \in Thread \ {t} : depth'[u] = depth[u] /\ missed'[u] = missed[u],
             depth'[t] = missed'[t] + Open(t)', pc'[t] = "running" => op'[t] # "load"
      PROVE  DepthOk'
  BY <1>2 DEF DepthOk, Alone
\* A call that returns closes its section, and a load has none.
<1>3. ASSUME NEW t \in Thread, Return(t), pc[t] # "idle", missed' = missed,
             \/ op[t] # "load" /\ rcu_read_unlock(t)
             \/ op[t] = "load" /\ depth' = depth
      PROVE  DepthOk'
  <2>1. Alone(t) /\ pc'[t] = "idle"
    BY <1>3, ReturnIsQuiet
  <2>2. depth[t] = missed[t] + Open(t)
    BY DEF DepthOk
  <2> QED BY <1>2, <1>3, <2>1, <2>2 DEF DepthOk, rcu_read_unlock
<1>4. ASSUME NEW t \in Thread, Alone(t), pc[t] # "idle", pc'[t] # "idle", op'[t] = op[t],
             UNCHANGED <<depth, missed>>, pc'[t] = "running" => op[t] # "load"
      PROVE  DepthOk'
  BY <1>2, <1>4 DEF DepthOk
<1>5. ASSUME NEW t \in Thread, NEW o \in Op, NEW n \in Name \cup {NIL}, BeginCall(t, o, n)
      PROVE  DepthOk'
  <2>1. /\ Alone(t) /\ pc[t] = "idle" /\ pc'[t] = "find" /\ op'[t] = o /\ missed' = missed
        /\ depth' = IF o = "load" THEN depth ELSE [depth EXCEPT ![t] = @ + 1]
    BY <1>5 DEF BeginCall, Goto, list, held, Alone, KpmTypes
  <2>2. depth[t] = missed[t]
    BY <2>1 DEF DepthOk
  <2> QED BY <1>2, <2>1, <2>2 DEF DepthOk
<1>6. ASSUME NEW t \in Thread, CallStep(t) PROVE DepthOk'
  <2>1. CASE \/ UnloadAbsent(t) \/ UnloadFree(t) \/ ControlAbsent(t) \/ ControlNoMemory(t)
             \/ InfoReturn(t) \/ ListReturn(t)
    BY <1>3, <2>1 DEF UnloadAbsent, UnloadFree, ControlAbsent, ControlNoMemory, InfoReturn,
                      ListReturn, Found, Absent, InCall, hist
  <2>2. CASE ControlReturn(t)
    BY <1>3, <2>2 DEF ControlReturn, hist, DepthOk
  <2>3. CASE LoadExists(t) \/ LoadFails(t) \/ LoadFree(t) \/ LoadLink(t)
    BY <1>3, <2>3 DEF LoadExists, LoadFails, LoadFree, LoadLink, Found, Absent, InCall, hist
  <2>4. CASE InfoAbsent(t)
    <3>1. /\ Return(t) /\ pc[t] = "find" /\ op[t] = "info" /\ depth' = depth
          /\ missed' = [missed EXCEPT ![t] = @ + 1]
      BY <2>4 DEF InfoAbsent, Absent, InCall
    <3>2. Alone(t) /\ pc'[t] = "idle"
      BY <3>1, ReturnIsQuiet
    <3> QED BY <1>2, <3>1, <3>2 DEF DepthOk
  <2>5. CASE FindNext(t)
    BY <1>4, <2>5 DEF FindNext, hist, Alone, KpmTypes
  <2>6. ASSUME NEW label \in Label \ {"idle"}, Goto(t, label), pc[t] # "idle",
               UNCHANGED <<op, arg, last>> \/ UNCHANGED <<op, arg, buf>>,
               \A u \in Thread \ {t} : /\ cur'[u] = cur[u] /\ last'[u] = last[u]
                                       /\ buf'[u] = buf[u],
               UNCHANGED <<depth, missed>>, label = "running" => op[t] # "load"
        PROVE  DepthOk'
    BY <1>4, <2>6 DEF Goto, Alone, KpmTypes, Label
  <2>7. CASE FindFault(t) \/ UnloadFault(t) \/ ControlFault(t)
    BY <2>6, <2>7 DEF FindFault, UnloadFault, ControlFault, Found, InCall, hist, Label
  <2>8. CASE LoadInit(t)
    BY <2>6, <2>8 DEF LoadInit, Absent, InCall, hist, Label, KpmTypes
  <2>9. CASE LoadInitFails(t)
    BY <2>6, <2>9 DEF LoadInitFails, InCall, hist, Label
  <2>10. CASE LoadTail(t)
    BY <2>6, <2>10 DEF LoadTail, InCall, hist, Label, KpmTypes
  <2>11. CASE UnloadDelete(t)
    BY <2>6, <2>11 DEF UnloadDelete, Found, InCall, hist, Label
  <2>12. CASE ControlFreeArgs(t) \/ ControlAlloc(t)
    BY <2>6, <2>12 DEF ControlFreeArgs, ControlAlloc, Found, InCall, hist, Label
  <2>13. CASE ControlCall(t)
    BY <2>6, <2>13 DEF ControlCall, InCall, hist, Label, KpmTypes
  <2>14. CASE Control1Call(t)
    BY <2>6, <2>14 DEF Control1Call, Found, InCall, hist, Label
  <2> QED BY <1>6, <2>1, <2>2, <2>3, <2>4, <2>5, <2>7, <2>8, <2>9, <2>10, <2>11, <2>12, <2>13,
             <2>14 DEF CallStep
<1> QED BY <1>1, <1>5, <1>6 DEF KpmNext

\* All memory is a listed module's or in the hands of t.
Kept(t) ==
    /\ \A m \in Mod : parts[m] # {} => m \in found \/ Owns(t, m)
    /\ \A b \in bufs : \E m \in Mod :
          ctl_args[m] = b /\ (m \in found \/ (pc[t] = "unload" /\ cur[t] = m))
    /\ pc[t] = "alloc" => ctl_args[cur[t]] \notin bufs

LEMMA KeptCall ==
    ASSUME KpmTypes, GentleInv, KeptInv, NEW t \in Thread, CallStep(t)
    PROVE  KeptInv'
<1>1. pc[t] # "idle"
  BY DEF CallStep, FindNext, FindFault, LoadExists, LoadFails, LoadInit, LoadInitFails,
              LoadFree, LoadTail, LoadLink, UnloadAbsent, UnloadDelete, UnloadFault,
              UnloadFree, ControlAbsent, ControlFault, ControlFreeArgs, ControlNoMemory,
              ControlAlloc, ControlCall, Control1Call, ControlReturn, InfoReturn,
              InfoAbsent, ListReturn, Found, Absent, InCall
<1>2. \A u \in Thread \ {t} : pc[u] = "idle"
  BY <1>1 DEF KeptInv
<1>3. Kept(t)
  BY <1>2 DEF KeptInv, Kept, Owns
<1>4. ASSUME Alone(t), Kept(t)' PROVE KeptInv'
  BY <1>2, <1>4 DEF KeptInv, Kept, Owns, Alone
<1>5. ThreadOk(t) /\ found \subseteq Mod
  BY DEF GentleInv, KpmTypes
<1>6. ASSUME UNCHANGED <<parts, found, ctl_args, bufs>>, Alone(t),
             pc[t] \notin {"init", "exit", "link", "unload"}, pc'[t] # "alloc"
      PROVE  KeptInv'
  <2>1. Kept(t)'
    BY <1>3, <1>6 DEF Kept, Owns
  <2> QED BY <1>4, <1>6, <2>1
<1>7. CASE \/ FindNext(t) \/ FindFault(t) \/ LoadExists(t) \/ LoadFails(t)
           \/ UnloadAbsent(t) \/ UnloadFault(t) \/ ControlAbsent(t) \/ ControlFault(t)
           \/ ControlCall(t) \/ Control1Call(t) \/ ControlReturn(t)
           \/ InfoReturn(t) \/ InfoAbsent(t) \/ ListReturn(t)
  <2>1. Quiet(t)
    BY <1>7, QuietSteps
  <2>2. pc[t] \notin {"init", "exit", "link", "unload"}
    BY <1>7 DEF FindNext, FindFault, LoadExists, LoadFails, UnloadAbsent, UnloadFault,
                ControlAbsent, ControlFault, ControlCall, Control1Call, ControlReturn,
                InfoReturn, InfoAbsent, ListReturn, Found, Absent, InCall
  <2> QED BY <1>6, <2>1, <2>2 DEF Quiet
<1>8. CASE LoadInitFails(t) \/ LoadTail(t)
  <2>1. Quiet(t) /\ pc[t] = "init" /\ pc'[t] \in {"exit", "link"} /\ cur'[t] = cur[t]
    BY <1>8, QuietSteps DEF LoadInitFails, LoadTail, InCall, Goto, KpmTypes
  <2>2. Kept(t)'
    BY <1>3, <2>1 DEF Kept, Owns, Quiet
  <2> QED BY <1>4, <2>1, <2>2 DEF Quiet
<1>9. CASE LoadInit(t)
  <2>1. PICK m \in Mod : parts' = [parts EXCEPT ![m] = Part] /\ cur' = [cur EXCEPT ![t] = m]
    BY <1>9 DEF LoadInit
  <2>2. /\ Alone(t) /\ pc[t] = "find" /\ pc'[t] = "init" /\ cur'[t] = m
        /\ UNCHANGED <<found, ctl_args, bufs>> /\ \A k \in Mod \ {m} : parts'[k] = parts[k]
    BY <1>9, <2>1 DEF LoadInit, Absent, InCall, Goto, list, hist, Alone, KpmTypes
  <2>3. Kept(t)'
    BY <1>3, <2>2 DEF Kept, Owns
  <2> QED BY <1>4, <2>2, <2>3
<1>10. CASE LoadFree(t) \/ UnloadFree(t)
  <2> PICK m : m = cur[t]
    OBVIOUS
  <2>1. /\ m \in Mod \ found /\ Free(m) /\ Return(t) /\ UNCHANGED found
        /\ \/ pc[t] = "exit" /\ UNCHANGED bufs
           \/ pc[t] = "unload" /\ bufs' = bufs \ {ctl_args[m]}
    BY <1>5, <1>10 DEF LoadFree, UnloadFree, InCall, ThreadOk, hist
  <2>2. Alone(t) /\ pc'[t] = "idle"
    BY <2>1, ReturnIsQuiet
  <2>3. /\ parts'[m] = {}
        /\ \A k \in Mod \ {m} : parts'[k] = parts[k] /\ ctl_args'[k] = ctl_args[k]
    BY <2>1 DEF Free, KpmTypes
  <2>4. \A k \in Mod : parts'[k] # {} => k \in found
    BY <1>3, <2>3 DEF Kept, Owns
  <2>5. ASSUME NEW b \in bufs' PROVE \E k \in found : ctl_args'[k] = b
    <3>1. PICK k \in Mod : ctl_args[k] = b /\ (k \in found \/ (pc[t] = "unload" /\ k = m))
      BY <1>3, <2>1 DEF Kept
    <3>2. k \in found /\ k # m
      BY <2>1, <2>5, <3>1
    <3> QED BY <2>3, <3>1, <3>2
  <2>6. Kept(t)'
    BY <1>5, <2>1, <2>2, <2>4, <2>5 DEF Kept
  <2> QED BY <1>4, <2>2, <2>6
<1>11. CASE LoadLink(t)
  <2> PICK m : m = cur[t]
    OBVIOUS
  <2>1. /\ Return(t) /\ found' = found \cup {m} /\ UNCHANGED <<parts, ctl_args, bufs>>
        /\ pc[t] = "link"
    BY <1>11 DEF LoadLink, InCall, held
  <2>2. Alone(t) /\ pc'[t] = "idle"
    BY <2>1, ReturnIsQuiet
  <2>3. Kept(t)'
    BY <1>3, <2>1, <2>2 DEF Kept, Owns
  <2> QED BY <1>4, <2>2, <2>3
<1>12. CASE UnloadDelete(t)
  <2> PICK m : m = cur[t]
    OBVIOUS
  <2>1. /\ pc[t] = "find" /\ pc'[t] = "unload" /\ cur'[t] = m /\ found' = found \ {m}
        /\ UNCHANGED <<parts, ctl_args, bufs>> /\ Alone(t)
    BY <1>12 DEF UnloadDelete, Found, InCall, Goto, Alone, KpmTypes
  <2>2. Kept(t)'
    BY <1>3, <2>1 DEF Kept, Owns
  <2> QED BY <1>4, <2>1, <2>2
<1>13. CASE ControlFreeArgs(t)
  <2>1. /\ pc[t] = "find" /\ pc'[t] = "alloc" /\ cur' = cur /\ Alone(t)
        /\ UNCHANGED <<parts, ctl_args, found>> /\ bufs' = bufs \ {ctl_args[cur[t]]}
    BY <1>13 DEF ControlFreeArgs, Found, InCall, Goto, list, hist, Alone, KpmTypes
  <2>2. Kept(t)'
    BY <1>3, <2>1 DEF Kept, Owns
  <2> QED BY <1>4, <2>1, <2>2
<1>14. CASE ControlNoMemory(t) \/ ControlAlloc(t)
  <2> PICK m : m = cur[t]
    OBVIOUS
  <2>1. /\ pc[t] = "alloc" /\ pc'[t] \in {"idle", "call"} /\ Alone(t)
        /\ UNCHANGED <<parts, found>> /\ m \in found
        /\ \A k \in Mod \ {m} : ctl_args'[k] = ctl_args[k]
        /\ ctl_args[m] \notin bufs
    <3>1. pc[t] = "alloc" /\ m \in found /\ ctl_args[m] \notin bufs
      BY <1>3, <1>5, <1>14 DEF ControlNoMemory, ControlAlloc, InCall, ThreadOk, Kept
    <3>2. CASE ControlNoMemory(t)
      BY <1>5, <3>1, <3>2, ReturnIsQuiet DEF ControlNoMemory, list, hist, KpmTypes
    <3>3. CASE ControlAlloc(t)
      BY <1>5, <3>1, <3>3 DEF ControlAlloc, Goto, Alone, list, hist, KpmTypes
    <3> QED BY <1>14, <3>1, <3>2, <3>3
  <2>2. bufs' = bufs \/ bufs' = bufs \cup {ctl_args'[m]}
    BY <1>5, <1>14, <2>1 DEF ControlNoMemory, ControlAlloc, list, KpmTypes
  <2>3. ASSUME NEW b \in bufs' PROVE \E k \in found : ctl_args'[k] = b
    <3>1. CASE b \in bufs
      <4>1. PICK k \in found : ctl_args[k] = b
        BY <1>3, <2>1, <3>1 DEF Kept
      <4> QED BY <1>5, <2>1, <3>1, <4>1
    <3>2. CASE b = ctl_args'[m]
      BY <2>1, <3>2
    <3> QED BY <2>2, <3>1, <3>2
  <2>4. \A k \in Mod : parts'[k] # {} => k \in found
    BY <1>3, <2>1 DEF Kept, Owns
  <2>5. Kept(t)'
    BY <1>5, <2>1, <2>3, <2>4 DEF Kept
  <2> QED BY <1>4, <2>1, <2>5
<1> QED BY <1>7, <1>8, <1>9, <1>10, <1>11, <1>12, <1>13, <1>14 DEF CallStep

LEMMA KeptStep ==
    ASSUME KpmTypes, Gentle => GentleInv, overlap = {} => KeptInv, [KpmNext]_kpmVars
    PROVE  overlap' = {} => KeptInv'
<1> SUFFICES ASSUME overlap' = {}, overlap = {}, GentleInv, KeptInv PROVE KeptInv'
  BY OverlapGrows DEF Gentle
<1>1. CASE UNCHANGED kpmVars
  BY <1>1 DEF kpmVars, list, held, local, hist, KeptInv
<1>2. ASSUME NEW t \in Thread, NEW o \in Op, NEW n \in Name \cup {NIL}, BeginCall(t, o, n)
      PROVE  KeptInv'
  <2>1. /\ UNCHANGED <<parts, ctl_args, bufs, found>>
        /\ Alone(t) /\ pc'[t] = "find"
    BY <1>2 DEF BeginCall, Goto, list, held, Alone, KpmTypes
  <2>2. \A u \in Thread : pc[u] = "idle"
    BY <1>2 DEF BeginCall, Meet
  <2> QED BY <2>1, <2>2 DEF KeptInv, Alone
<1> QED BY <1>1, <1>2, KeptCall DEF KpmNext

\* For every number of threads, modules, names and calls: while loads and unloads
\* come one after another the list holds the modules that are up, one of a name;
\* and calls that come one after another leave nothing behind.
THEOREM ListIsUp == KpmSpec => []ListHoldsModulesUp
<1> DEFINE Inv == /\ KpmTypes /\ (Gentle => GentleInv) /\ DepthOk
                  /\ (Orderly => InOrder) /\ (overlap = {} => KeptInv)
<1>1. ASSUME KpmInit PROVE Inv
  <2>1. KpmTypes
    BY <1>1, ConstantFacts DEF KpmInit, KpmTypes, Node, Pointers, Label
  <2>2. GentleInv
    BY <1>1, ConstantFacts DEF KpmInit, GentleInv, ListOk, Ring, ArgsOk, ThreadOk, Apart
  <2>3. DepthOk
    BY <1>1 DEF KpmInit, DepthOk
  <2>4. KeptInv
    BY <1>1 DEF KpmInit, KeptInv
  <2>5. [m \in Mod |-> 0] \in Ranks
    BY DEF Ranks
  <2>6. OrderlyInv([m \in Mod |-> 0], 0)
    BY <1>1 DEF KpmInit, OrderlyInv, Ring, Order, UpOnce, ChangerOk, Changing
  <2>7. InOrder
    BY <2>5, <2>6 DEF InOrder
  <2> QED BY <2>1, <2>2, <2>3, <2>4, <2>7
<1>2. Inv /\ [KpmNext]_kpmVars => Inv'
  BY TypeStep, GentleStep, DepthStep, OrderStep, KeptStep
<1>3. ASSUME Inv PROVE ListHoldsModulesUp
  <2>1. ASSUME Orderly PROVE ListedModules = found /\ UpOnce
    <3>1. PICK rank \in Ranks, top \in Nat : OrderlyInv(rank, top)
      BY <1>3, <2>1 DEF InOrder
    <3> QED BY <1>3, <3>1, ListedIs DEF OrderlyInv
  <2>2. Orderly => OneModulePerName /\ ListedAreUp
    BY <2>1 DEF OneModulePerName, ListedAreUp, UpOnce
  <2>3. NothingLost
    <3> SUFFICES ASSUME overlap = {}, \A t \in Thread : pc[t] = "idle"
                 PROVE  /\ \A m \in Mod : parts[m] # {} => m \in ListedModules
                        /\ bufs \subseteq {ctl_args[m] : m \in ListedModules}
                        /\ \A t \in Thread : depth[t] = missed[t]
      BY DEF NothingLost
    <3>1. KeptInv /\ ListedModules = found
      BY <1>3, <2>1 DEF Orderly
    <3>2. \A t \in Thread : depth[t] = missed[t]
      BY <1>3 DEF DepthOk
    <3> QED BY <3>1, <3>2 DEF KeptInv
  <2> QED BY <2>2, <2>3 DEF ListHoldsModulesUp
<1> QED BY <1>1, <1>2, <1>3, PTL DEF KpmSpec

=============================================================================
