-------------------------- MODULE AccessHookProofs --------------------------
(***************************************************************************)
(* The filters' decisions and the counters, for every number of filters,   *)
(* processes and calls.  The counters need nothing of the commands; the    *)
(* filters are proved for one sender of commands, as add_filter tests the  *)
(* length of the table and raises it later with no lock.  Then how the     *)
(* module looks into processes: the walk of a stack and the reading of     *)
(* memory, for every map, stack and number of threads.  Last, that its     *)
(* kpm_exit finds every hook of its kpm_init again.                        *)
(***************************************************************************)
EXTENDS AccessHook, ProcMem, TraceModule, FiniteSetTheorems, TLAPS

CallPc == {"idle", "scan", "mode", "decided", "store"}
CtlPc == {"idle", "wipe", "entry", "load", "bump"}
CallType == [pc : CallPc, kind : Kind, i : Nat, hit : BOOLEAN, hook : BOOLEAN, n : Nat,
             yes : BOOLEAN, no : BOOLEAN, cleared : BOOLEAN]

AccessTypes ==
    /\ filter_mode \in {"whitelist", "blacklist"}
    /\ filters \in [Index -> Filter \cup {NULL}] /\ filter_count \in Nat
    /\ count \in [Kind -> Nat] /\ hooked \in [Kind -> Nat] /\ recent \in [Kind -> Nat]
    /\ call \in [Process -> CallType]
    /\ ctl \in [Caller -> [pc : CtlPc, i : Nat, f : Filter \cup {NULL}]]
    /\ torn \in BOOLEAN

-----------------------------------------------------------------------------
(* The counters: what an increment has loaded is bounded as the counter is, *)
(* so that its store cannot exceed the bound however late it comes.         *)

Storing(p) == call[p].pc = "store"

CountInv ==
    /\ \A k \in Kind : count[k] <= hooked[k] /\ (~torn => count[k] <= recent[k])
    /\ \A p \in Process : Storing(p) =>
          /\ call[p].n + 1 <= hooked[call[p].kind]
          /\ ~torn => call[p].n + 1 <= recent[call[p].kind]

-----------------------------------------------------------------------------
(* The filters *)

OneSender == \A c, d \in Caller : c = d

\* An active filter of the table that p meets.
Meets(p, i) == i < filter_count /\ filters[i] # NULL /\ p \in Matches[filters[i]]
Matched(p) == \E i \in Index : Meets(p, i)

\* Where the sender is in clear_filters or add_filter.
CtlOk(c) ==
    LET t == ctl[c] IN
    /\ t.pc = "wipe" => filter_count = 0 /\ t.i \in Index
    /\ t.pc = "entry" => t.f \in Filter
    /\ t.pc \in {"entry", "load", "bump"} => filter_count < MAX_FILTERS
    /\ t.pc \in {"load", "bump"} => filters[filter_count] # NULL
    /\ t.pc = "bump" => t.i = filter_count

\* What a call that is still deciding may rely on, unless the table was cleared
\* under it, when both answers are justified: the table only grows, so a match
\* stays one, and a match that came too late came with both answers.
DecidingOk(p) ==
    LET t == call[p] IN
    /\ IF Should(p, filter_mode, filters, filter_count) THEN t.yes ELSE t.no
    /\ t.cleared => t.yes
    /\ ~t.cleared =>
          /\ filter_count > 0
          /\ t.pc = "scan" => /\ ~t.hit /\ t.i <= filter_count
                              /\ \A j \in Index : j < t.i => ~Meets(p, j)
          /\ t.pc = "mode" => IF t.hit THEN Matched(p)
                              ELSE Matched(p) => t.yes /\ t.no

FilterInv ==
    /\ FilterTableBounded
    /\ \A c \in Caller : CtlOk(c)
    /\ \A p \in Process : Deciding(p) => DecidingOk(p)
    /\ DecisionsJustified

-----------------------------------------------------------------------------
LEMMA AccessConstants ==
    /\ MAX_FILTERS \in Nat \ {0} /\ MaxCommands \in Nat /\ MaxCalls \in Nat
    /\ Matches \in [Filter -> SUBSET Process] /\ NULL \notin Filter
BY AccessAssumption

LEMMA ShouldIsAnswer ==
    \A p, mode, fs, n : Should(p, mode, fs, n) \in BOOLEAN
BY DEF Should

\* On the configuration as it is.
LEMMA ShouldNow ==
    ASSUME NEW p \in Process
    PROVE  Should(p, filter_mode, filters, filter_count)
               <=> filter_count = 0 \/ (Matched(p) <=> filter_mode = "whitelist")
BY DEF Should, Matched, Meets

\* The new configuration's answer.
NewAnswer(p) == Should(p, filter_mode', filters', filter_count')

LEMMA WitnessTyped ==
    ASSUME AccessTypes, NEW clear \in BOOLEAN, Witness(clear)
    PROVE  /\ call' \in [Process -> CallType]
           /\ \A p \in Process : /\ call'[p].pc = call[p].pc /\ call'[p].kind = call[p].kind
                                  /\ call'[p].i = call[p].i /\ (call'[p].hit <=> call[p].hit)
                                  /\ (call'[p].hook <=> call[p].hook) /\ call'[p].n = call[p].n
           /\ \A p \in Process : Deciding(p) =>
                 /\ call'[p].yes <=> call[p].yes \/ NewAnswer(p)
                 /\ call'[p].no <=> call[p].no \/ ~NewAnswer(p)
                 /\ call'[p].cleared <=> call[p].cleared \/ clear
           /\ \A p \in Process : ~Deciding(p) => call'[p] = call[p]
<1>1. ASSUME NEW p \in Process, ~Deciding(p) PROVE call'[p] = call[p]
  BY <1>1 DEF Witness
<1>2. ASSUME NEW p \in Process, Deciding(p)
      PROVE  /\ call'[p] \in CallType
             /\ call'[p].pc = call[p].pc /\ call'[p].kind = call[p].kind
             /\ call'[p].i = call[p].i /\ (call'[p].hit <=> call[p].hit)
             /\ (call'[p].hook <=> call[p].hook) /\ call'[p].n = call[p].n
             /\ (call'[p].yes <=> call[p].yes \/ NewAnswer(p))
             /\ (call'[p].no <=> call[p].no \/ ~NewAnswer(p))
             /\ (call'[p].cleared <=> call[p].cleared \/ clear)
  <2> DEFINE y == call[p].yes \/ NewAnswer(p)
  <2> DEFINE n == call[p].no \/ ~NewAnswer(p)
  <2> DEFINE c == call[p].cleared \/ clear
  <2>1. call[p] \in CallType
    BY DEF AccessTypes
  <2>2. call'[p] = [call[p] EXCEPT !.yes = y, !.no = n, !.cleared = c]
    BY <1>2 DEF Witness, NewAnswer
  <2>3. y \in BOOLEAN /\ n \in BOOLEAN /\ c \in BOOLEAN
    OBVIOUS
  <2> HIDE DEF y, n, c
  <2>4. /\ call'[p] \in CallType
        /\ call'[p].pc = call[p].pc /\ call'[p].kind = call[p].kind
        /\ call'[p].i = call[p].i /\ (call'[p].hit <=> call[p].hit)
        /\ (call'[p].hook <=> call[p].hook) /\ call'[p].n = call[p].n
        /\ call'[p].yes = y /\ call'[p].no = n /\ call'[p].cleared = c
    BY <2>1, <2>2, <2>3 DEF CallType
  <2>5. QED
    BY <2>4 DEF y, n, c
<1>3. \A p \in Process : call'[p] \in CallType
  BY <1>1, <1>2 DEF AccessTypes
<1>4. call' = [p \in Process |-> call'[p]]
  BY DEF Witness
<1>5. call' \in [Process -> CallType]
  BY <1>3, <1>4
<1>6. QED
  BY <1>1, <1>2, <1>5

-----------------------------------------------------------------------------
(* Types *)

LEMMA Reshaped ==
    ASSUME NEW t \in CallType, NEW q \in CallPc, NEW n \in Nat, NEW b \in BOOLEAN
    PROVE  /\ [t EXCEPT !.pc = q] \in CallType
           /\ [t EXCEPT !.pc = q, !.hit = b] \in CallType
           /\ [t EXCEPT !.pc = q, !.hook = b] \in CallType
           /\ [t EXCEPT !.pc = q, !.n = n] \in CallType
           /\ [t EXCEPT !.i = n] \in CallType
BY DEF CallType

\* The outcomes of one pass of the filter loop.
Scanned(p, t, u) ==
    LET i == t.i IN
    /\ (u.yes <=> t.yes) /\ (u.no <=> t.no) /\ (u.cleared <=> t.cleared)
    /\ \/ i < filter_count /\ i \in Index /\ Meets(p, i) /\ u.pc = "mode" /\ u.hit
       \/ i < filter_count /\ ~(i \in Index /\ Meets(p, i)) /\ u.pc = t.pc /\ u.i = i + 1 /\ (u.hit <=> t.hit)
       \/ i >= filter_count /\ u.pc = "mode" /\ (u.hit <=> t.hit)

LEMMA ScanOutcomes ==
    ASSUME AccessTypes, NEW p \in Process, Scan(p)
    PROVE  /\ Scanned(p, call[p], call'[p]) /\ call'[p] \in CallType
           /\ call' = [call EXCEPT ![p] = call'[p]]
<1> DEFINE t == call[p]
<1> DEFINE u == call'[p]
<1>1. t \in CallType /\ t.i + 1 \in Nat /\ call \in [Process -> CallType]
  BY DEF AccessTypes, CallType
<1>2. \/ t.i < filter_count /\ t.i \in Index /\ Meets(p, t.i) /\ u = [t EXCEPT !.pc = "mode", !.hit = TRUE]
      \/ t.i < filter_count /\ ~(t.i \in Index /\ Meets(p, t.i)) /\ u = [t EXCEPT !.i = t.i + 1]
      \/ t.i >= filter_count /\ u = [t EXCEPT !.pc = "mode"]
  BY <1>1 DEF Scan, Meets
<1>3. u \in CallType
  BY <1>1, <1>2, Reshaped DEF CallPc
<1>4. call' = [call EXCEPT ![p] = u]
  BY <1>1 DEF Scan
<1>5. Scanned(p, t, u)
  <2>1. CASE t.i < filter_count /\ t.i \in Index /\ Meets(p, t.i) /\ u = [t EXCEPT !.pc = "mode", !.hit = TRUE]
    BY <1>1, <2>1 DEF Scanned, CallType
  <2>2. CASE t.i < filter_count /\ ~(t.i \in Index /\ Meets(p, t.i)) /\ u = [t EXCEPT !.i = t.i + 1]
    BY <1>1, <2>2 DEF Scanned, CallType
  <2>3. CASE t.i >= filter_count /\ u = [t EXCEPT !.pc = "mode"]
    BY <1>1, <2>3 DEF Scanned, CallType
  <2>4. QED
    BY <1>2, <2>1, <2>2, <2>3
<1>6. QED
  BY <1>3, <1>4, <1>5

Configure(c) ==
    SetMode(c) \/ ClearFilters(c) \/ ClearEntry(c) \/ AddEntry(c) \/ AddBump(c)

LEMMA ConfigureWitnesses ==
    ASSUME NEW c \in Caller, Configure(c)
    PROVE  \E clear \in BOOLEAN : Witness(clear) /\ (clear => filter_count' = 0)
BY DEF Configure, SetMode, ClearFilters, ClearEntry, AddEntry, AddBump

LEMMA TypesStep == AccessTypes /\ [Next]_vars => AccessTypes'
<1> SUFFICES ASSUME AccessTypes, [Next]_vars PROVE AccessTypes'
  OBVIOUS
<1> USE AccessConstants
<1>0. \A p \in Process : call[p] \in CallType
  BY DEF AccessTypes
<1>1. ASSUME NEW p \in Process, NEW k \in Kind, Enter(p, k) PROVE AccessTypes'
  <2> DEFINE now == Should(p, filter_mode, filters, filter_count)
  <2>1. now \in BOOLEAN /\ (~now) \in BOOLEAN /\ (filter_count = 0) \in BOOLEAN
    BY ShouldIsAnswer
  <2> DEFINE r == [Idle EXCEPT !.pc = IF filter_count = 0 THEN "decided" ELSE "scan",
                               !.kind = k, !.hook = filter_count = 0, !.yes = now, !.no = ~now]
  <2>2. r \in CallType
    BY <2>1 DEF CallType, CallPc, Idle, Kind
  <2>3. QED
    BY <1>1, <2>2 DEF Enter, AccessTypes, config, hist
<1>2. ASSUME NEW p \in Process, Scan(p) PROVE AccessTypes'
  BY <1>2, ScanOutcomes DEF Scan, AccessTypes, config, hist
<1>3. ASSUME NEW p \in Process, Decide(p) PROVE AccessTypes'
  <2>1. (call[p].hit <=> filter_mode = "whitelist") \in BOOLEAN /\ "decided" \in CallPc
    BY DEF CallPc
  <2>2. [call[p] EXCEPT !.pc = "decided", !.hook = call[p].hit <=> filter_mode = "whitelist"] \in CallType
    BY <1>0, <2>1 DEF CallType
  <2>3. QED
    BY <1>3, <2>2 DEF Decide, AccessTypes, config, hist
<1>4. ASSUME NEW p \in Process, Skip(p) PROVE AccessTypes'
  BY <1>4 DEF Skip, AccessTypes, CallType, CallPc, Idle, Kind, config, hist
<1>5. ASSUME NEW p \in Process, CountLoad(p) PROVE AccessTypes'
  <2>1. call[p].kind \in Kind /\ count[call[p].kind] \in Nat /\ "store" \in CallPc
    BY <1>0 DEF AccessTypes, CallType, CallPc
  <2>2. [call[p] EXCEPT !.pc = "store", !.n = count[call[p].kind]] \in CallType
    BY <1>0, <2>1 DEF CallType
  <2>3. hooked' \in [Kind -> Nat] /\ recent' \in [Kind -> Nat]
    BY <1>5, <2>1 DEF CountLoad, AccessTypes
  <2>4. QED
    BY <1>5, <2>2, <2>3 DEF CountLoad, AccessTypes, config
<1>6. ASSUME NEW p \in Process, CountStore(p) PROVE AccessTypes'
  BY <1>0, <1>6 DEF CountStore, AccessTypes, CallType, CallPc, Idle, Kind, config, hist
<1>7. ASSUME NEW c \in Caller, Switch(c) PROVE AccessTypes'
  BY <1>7 DEF Switch, AccessTypes, config, hist
<1>8. ASSUME NEW c \in Caller, ResetCounters(c) PROVE AccessTypes'
  BY <1>8 DEF ResetCounters, Reset, AccessTypes, config
<1>9. ASSUME NEW c \in Caller, AddFilter(c) PROVE AccessTypes'
  <2>1. PICK f \in Filter : ctl' = [ctl EXCEPT ![c] = [IdleCtl EXCEPT !.pc = "entry", !.f = f]]
    BY <1>9 DEF AddFilter
  <2>2. [IdleCtl EXCEPT !.pc = "entry", !.f = f] \in [pc : CtlPc, i : Nat, f : Filter \cup {NULL}]
    BY DEF IdleCtl, CtlPc
  <2>3. QED
    BY <1>9, <2>1, <2>2 DEF AddFilter, AccessTypes, config, hist
<1>10. ASSUME NEW c \in Caller, AddLoad(c) PROVE AccessTypes'
  BY <1>10 DEF AddLoad, AccessTypes, CtlPc, config, hist
<1>11. ASSUME NEW c \in Caller, Configure(c) PROVE AccessTypes'
  <2>1. call' \in [Process -> CallType]
    BY <1>11, ConfigureWitnesses, WitnessTyped
  <2>2. ctl[c] \in [pc : CtlPc, i : Nat, f : Filter \cup {NULL}]
    BY DEF AccessTypes
  <2>3. CASE SetMode(c)
    BY <2>1, <2>3 DEF SetMode, AccessTypes, hist
  <2>4. CASE ClearFilters(c)
    BY <2>1, <2>4 DEF ClearFilters, Receive, AccessTypes, IdleCtl, CtlPc, hist
  <2>5. CASE ClearEntry(c)
    <3>1. /\ [ctl[c] EXCEPT !.i = ctl[c].i + 1] \in [pc : CtlPc, i : Nat, f : Filter \cup {NULL}]
          /\ IdleCtl \in [pc : CtlPc, i : Nat, f : Filter \cup {NULL}]
      BY <2>2 DEF IdleCtl, CtlPc
    <3>2. QED
      BY <2>1, <2>5, <3>1 DEF ClearEntry, AccessTypes, hist
  <2>6. CASE AddEntry(c)
    BY <2>1, <2>2, <2>6 DEF AddEntry, AccessTypes, CtlPc, hist
  <2>7. CASE AddBump(c)
    BY <2>1, <2>2, <2>7 DEF AddBump, AccessTypes, IdleCtl, CtlPc, hist
  <2>8. QED
    BY <1>11, <2>3, <2>4, <2>5, <2>6, <2>7 DEF Configure
<1>12. CASE UNCHANGED vars
  BY <1>12 DEF vars, AccessTypes, config, hist
<1>13. QED
  BY <1>1, <1>2, <1>3, <1>4, <1>5, <1>6, <1>7, <1>8, <1>9, <1>10, <1>11, <1>12
     DEF Next, CallStep, kpm_control, Configure

LEMMA AccessStarts == Init => AccessTypes
<1>1. Idle \in CallType
  BY DEF Idle, CallType, CallPc, Kind
<1>2. IdleCtl \in [pc : CtlPc, i : Nat, f : Filter \cup {NULL}]
  BY DEF IdleCtl, CtlPc
<1>3. ASSUME Init
      PROVE  /\ filter_mode \in {"whitelist", "blacklist"} /\ filter_count \in Nat /\ torn \in BOOLEAN
             /\ filters \in [Index -> Filter \cup {NULL}]
  BY <1>3 DEF Init
<1>4. ASSUME Init PROVE count \in [Kind -> Nat] /\ hooked \in [Kind -> Nat] /\ recent \in [Kind -> Nat]
  BY <1>4 DEF Init
<1>5. ASSUME Init PROVE /\ call \in [Process -> CallType]
                       /\ ctl \in [Caller -> [pc : CtlPc, i : Nat, f : Filter \cup {NULL}]]
  BY <1>1, <1>2, <1>5 DEF Init
<1>6. QED
  BY <1>3, <1>4, <1>5 DEF AccessTypes

-----------------------------------------------------------------------------
(* The counters *)

\* Whatever leaves the counters alone and moves no call into or out of its store.
LEMMA CountsUntouched ==
    ASSUME CountInv, UNCHANGED <<count, hooked, recent, torn>>,
           \A p \in Process : call'[p].pc = "store" =>
               call[p].pc = "store" /\ call'[p].n = call[p].n /\ call'[p].kind = call[p].kind
    PROVE  CountInv'
BY DEF CountInv, Storing

LEMMA CountStep == AccessTypes /\ CountInv /\ [Next]_vars => CountInv'
<1> SUFFICES ASSUME AccessTypes, CountInv, [Next]_vars PROVE CountInv'
  OBVIOUS
<1>0. \A p \in Process : call[p] \in CallType
  BY DEF AccessTypes
<1>1. ASSUME NEW p \in Process, NEW k \in Kind, Enter(p, k) PROVE CountInv'
  <2>1. call'[p].pc # "store" /\ \A q \in Process : q # p => call'[q] = call[q]
    BY <1>1 DEF Enter, AccessTypes, Idle
  <2>2. QED
    BY <1>1, <2>1, CountsUntouched DEF Enter, hist
<1>2. ASSUME NEW p \in Process, Scan(p) \/ Decide(p) \/ Skip(p) PROVE CountInv'
  <2>1. call'[p].pc # "store" /\ \A q \in Process : q # p => call'[q] = call[q]
    BY <1>0, <1>2 DEF Scan, Decide, Skip, AccessTypes, CallType, Idle
  <2>2. QED
    BY <1>2, <2>1, CountsUntouched DEF Scan, Decide, Skip, hist
<1>3. ASSUME NEW p \in Process, CountLoad(p) PROVE CountInv'
  <2> DEFINE k == call[p].kind
  <2>1. k \in Kind /\ count[k] \in Nat /\ hooked[k] \in Nat /\ recent[k] \in Nat
    BY <1>0 DEF AccessTypes, CallType
  <2>2. /\ hooked' = [hooked EXCEPT ![k] = @ + 1] /\ recent' = [recent EXCEPT ![k] = @ + 1]
        /\ UNCHANGED <<count, torn>>
        /\ call'[p].kind = k /\ call'[p].n = count[k]
        /\ \A q \in Process : q # p => call'[q] = call[q]
    BY <1>0, <1>3 DEF CountLoad, AccessTypes, CallType
  <2>3. \A j \in Kind : count[j] \in Nat /\ hooked[j] \in Nat /\ recent[j] \in Nat
                       /\ hooked'[j] >= hooked[j] /\ recent'[j] >= recent[j]
    BY <2>2 DEF AccessTypes
  <2>4. hooked'[k] = hooked[k] + 1 /\ recent'[k] = recent[k] + 1
    BY <2>1, <2>2 DEF AccessTypes
  <2>5. \A q \in Process : call[q].kind \in Kind /\ call[q].n \in Nat
    BY <1>0 DEF CallType
  <2> HIDE DEF k
  <2>6. \A j \in Kind : count'[j] <= hooked'[j] /\ (~torn' => count'[j] <= recent'[j])
    BY <2>2, <2>3 DEF CountInv
  <2>7. ASSUME NEW q \in Process, call'[q].pc = "store"
        PROVE  /\ call'[q].n + 1 <= hooked'[call'[q].kind]
               /\ ~torn' => call'[q].n + 1 <= recent'[call'[q].kind]
    <3>1. CASE q = p
      BY <2>1, <2>2, <2>4, <3>1 DEF CountInv
    <3>2. CASE q # p
      BY <2>2, <2>3, <2>5, <2>7, <3>2 DEF CountInv, Storing
    <3>3. QED
      BY <3>1, <3>2
  <2>8. QED
    BY <2>6, <2>7 DEF CountInv, Storing
<1>4. ASSUME NEW p \in Process, CountStore(p) PROVE CountInv'
  <2>1. /\ count' = [count EXCEPT ![call[p].kind] = call[p].n + 1] /\ call[p].kind \in Kind
        /\ call'[p].pc = "idle" /\ \A q \in Process : q # p => call'[q] = call[q]
        /\ UNCHANGED <<hooked, recent, torn>>
    BY <1>0, <1>4 DEF CountStore, AccessTypes, CallType, Idle, hist
  <2>2. Storing(p)
    BY <1>4 DEF CountStore, Storing
  <2>3. \A k \in Kind : count'[k] <= hooked[k] /\ (~torn => count'[k] <= recent[k])
    BY <2>1, <2>2 DEF CountInv, AccessTypes
  <2>4. QED
    BY <2>1, <2>3 DEF CountInv, Storing
<1>5. ASSUME NEW c \in Caller, ResetCounters(c) PROVE CountInv'
  <2>1. /\ count' = [k \in Kind |-> 0] /\ recent' = [k \in Kind |-> 0] /\ UNCHANGED <<hooked, call>>
        /\ ~torn' => \A p \in Process : call[p].pc # "store"
    BY <1>5 DEF ResetCounters, Reset
  <2>2. \A k \in Kind : hooked[k] \in Nat
    BY DEF AccessTypes
  <2>3. QED
    BY <2>1, <2>2 DEF CountInv, Storing
<1>6. ASSUME NEW c \in Caller, Configure(c) PROVE CountInv'
  <2>1. \A p \in Process : call'[p].pc = call[p].pc /\ call'[p].kind = call[p].kind /\ call'[p].n = call[p].n
    BY <1>6, ConfigureWitnesses, WitnessTyped
  <2>2. UNCHANGED <<count, hooked, recent, torn>>
    BY <1>6 DEF Configure, SetMode, ClearFilters, ClearEntry, AddEntry, AddBump, hist
  <2>3. QED
    BY <2>1, <2>2, CountsUntouched
<1>7. ASSUME NEW c \in Caller, Switch(c) \/ AddFilter(c) \/ AddLoad(c) PROVE CountInv'
  BY <1>7, CountsUntouched DEF Switch, AddFilter, AddLoad, hist
<1>8. CASE UNCHANGED vars
  BY <1>8, CountsUntouched DEF vars, hist
<1>9. QED
  BY <1>1, <1>2, <1>3, <1>4, <1>5, <1>6, <1>7, <1>8 DEF Next, CallStep, kpm_control, Configure

\* accessOffstinlineHook.c: with counters that are neither locked nor atomic, no store of
\* an increment, however late, lifts a counter above the calls reported, nor above those
\* since the reset unless the reset came inside an increment.
THEOREM CountersBounded == Spec => []ResetTakesEffect
<1>1. Init => CountInv
  BY DEF Init, CountInv, Storing, Idle
<1>2. CountInv => ResetTakesEffect
  BY DEF CountInv, ResetTakesEffect
<1>3. QED
  BY <1>1, <1>2, AccessStarts, TypesStep, CountStep, PTL DEF Spec

-----------------------------------------------------------------------------
(* The filters: the steps of a call *)

\* A step of p's call leaves the table, the sender and the other calls alone.
LEMMA CallStepAlone ==
    ASSUME FilterInv, NEW p \in Process,
           UNCHANGED <<filter_mode, filters, filter_count, ctl>>,
           \A q \in Process : q # p => call'[q] = call[q],
           Deciding(p)' => DecidingOk(p)',
           call'[p].pc = "decided" => IF call'[p].hook THEN call'[p].yes ELSE call'[p].no \/ call'[p].cleared
    PROVE  FilterInv'
<1>1. FilterTableBounded' /\ \A c \in Caller : CtlOk(c)'
  BY DEF FilterInv, FilterTableBounded, CtlOk
<1>2. \A q \in Process : q # p => (Deciding(q)' => DecidingOk(q)')
  BY DEF FilterInv, Deciding, DecidingOk, Matched, Meets
<1>3. DecisionsJustified'
  BY DEF FilterInv, DecisionsJustified
<1>4. QED
  BY <1>1, <1>2, <1>3 DEF FilterInv

LEMMA EnterDecides ==
    ASSUME AccessTypes, FilterInv, NEW p \in Process, NEW k \in Kind, Enter(p, k)
    PROVE  FilterInv'
<1> DEFINE now == Should(p, filter_mode, filters, filter_count)
<1>1. /\ call'[p].pc = IF filter_count = 0 THEN "decided" ELSE "scan"
      /\ call'[p].hook <=> filter_count = 0
      /\ (call'[p].yes <=> now) /\ (call'[p].no <=> ~now)
      /\ call'[p].i = 0 /\ ~call'[p].hit /\ ~call'[p].cleared
      /\ \A q \in Process : q # p => call'[q] = call[q]
      /\ UNCHANGED <<filter_mode, filters, filter_count, ctl>>
  BY DEF Enter, AccessTypes, Idle, config
<1>2. filter_count \in Nat
  BY DEF AccessTypes
<1>3. filter_count = 0 => now
  BY DEF Should
<1>4. Should(p, filter_mode, filters, filter_count)' <=> now
  BY <1>1
<1> HIDE DEF now
<1>5. call'[p].pc = "decided" => IF call'[p].hook THEN call'[p].yes ELSE call'[p].no \/ call'[p].cleared
  BY <1>1, <1>3
<1>6. ASSUME Deciding(p)' PROVE DecidingOk(p)'
  <2>1. call'[p].pc = "scan" /\ filter_count' > 0
    BY <1>1, <1>2, <1>6 DEF Deciding
  <2>2. \A j \in Index : ~(j < 0)
    BY DEF Index
  <2>3. IF Should(p, filter_mode, filters, filter_count)' THEN call'[p].yes ELSE call'[p].no
    BY <1>1, <1>4
  <2>4. call'[p].i <= filter_count' /\ \A j \in Index : j < call'[p].i => ~Meets(p, j)'
    BY <1>1, <1>2, <2>2
  <2>5. QED
    BY <1>1, <2>1, <2>3, <2>4 DEF DecidingOk
<1>7. QED
  BY <1>1, <1>5, <1>6, CallStepAlone

LEMMA ScanDecides ==
    ASSUME AccessTypes, FilterInv, NEW p \in Process, Scan(p)
    PROVE  FilterInv'
<1> DEFINE t == call[p]
<1> DEFINE u == call'[p]
<1>1. /\ t \in CallType /\ filter_count \in Nat /\ t.pc = "scan" /\ MAX_FILTERS \in Nat
      /\ filter_count <= MAX_FILTERS /\ Deciding(p) /\ DecidingOk(p)
  BY AccessConstants DEF AccessTypes, Scan, FilterInv, FilterTableBounded, Deciding
<1>2. /\ Scanned(p, t, u) /\ call' = [call EXCEPT ![p] = u]
      /\ \A q \in Process : q # p => call'[q] = call[q]
      /\ UNCHANGED <<filter_mode, filters, filter_count, ctl>>
  BY ScanOutcomes DEF Scan, config, AccessTypes
<1>3. (u.yes <=> t.yes) /\ (u.no <=> t.no) /\ (u.cleared <=> t.cleared) /\ u.pc \in {"scan", "mode"} /\ t.i \in Nat
  BY <1>1, <1>2 DEF Scanned, CallType
<1>4. ~t.cleared => /\ filter_count > 0 /\ ~t.hit /\ t.i <= filter_count
                    /\ \A j \in Index : j < t.i => ~Meets(p, j)
  BY <1>1 DEF DecidingOk
<1>5. ASSUME ~t.cleared, u.pc = "scan"
      PROVE  ~u.hit /\ u.i <= filter_count /\ \A j \in Index : j < u.i => ~Meets(p, j)
  <2>1. t.i < filter_count /\ ~(t.i \in Index /\ Meets(p, t.i)) /\ u.i = t.i + 1 /\ ~u.hit
    BY <1>2, <1>4, <1>5 DEF Scanned
  <2>2. \A j \in Index : j < u.i => j < t.i \/ j = t.i
    BY <1>3, <2>1 DEF Index
  <2>3. QED
    BY <1>1, <1>3, <1>4, <1>5, <2>1, <2>2
<1>6. ASSUME ~t.cleared, u.pc = "mode"
      PROVE  u.hit <=> Matched(p)
  <2>1. CASE t.i \in Index /\ Meets(p, t.i) /\ u.hit
    BY <2>1 DEF Matched
  <2>2. CASE t.i >= filter_count /\ ~u.hit
    <3>1. \A j \in Index : j < filter_count => j < t.i
      BY <1>1, <1>3, <2>2 DEF Index
    <3>2. QED
      BY <1>4, <1>6, <2>2, <3>1 DEF Matched, Meets
  <2>3. QED
    BY <1>1, <1>2, <1>4, <1>6, <2>1, <2>2 DEF Scanned
<1>7. DecidingOk(p)'
  <2>1. /\ IF Should(p, filter_mode, filters, filter_count)' THEN u.yes ELSE u.no
        /\ u.cleared => u.yes
    BY <1>1, <1>2, <1>3 DEF DecidingOk
  <2>2. \A j : Meets(p, j)' <=> Meets(p, j)
    BY <1>2 DEF Meets
  <2>3. QED
    BY <1>2, <1>3, <1>4, <1>5, <1>6, <2>1, <2>2 DEF DecidingOk, Matched
<1>8. QED
  BY <1>2, <1>3, <1>7, CallStepAlone

LEMMA DecideDecides ==
    ASSUME AccessTypes, FilterInv, NEW p \in Process, Decide(p)
    PROVE  FilterInv'
<1> DEFINE t == call[p]
<1> DEFINE u == call'[p]
<1>1. /\ t \in CallType /\ filter_count \in Nat /\ t.pc = "mode" /\ DecidingOk(p)
  BY DEF AccessTypes, Decide, FilterInv, Deciding
<1>2. /\ u.pc = "decided" /\ (u.hook <=> (t.hit <=> filter_mode = "whitelist"))
      /\ (u.yes <=> t.yes) /\ (u.no <=> t.no) /\ (u.cleared <=> t.cleared)
      /\ \A q \in Process : q # p => call'[q] = call[q]
      /\ UNCHANGED <<filter_mode, filters, filter_count, ctl>>
  <2>1. u = [t EXCEPT !.pc = "decided", !.hook = (t.hit <=> filter_mode = "whitelist")]
    BY <1>1 DEF Decide, AccessTypes
  <2>2. QED
    BY <1>1, <2>1 DEF Decide, AccessTypes, CallType, config
<1>3. ASSUME t.cleared PROVE IF u.hook THEN u.yes ELSE u.no \/ u.cleared
  BY <1>1, <1>2, <1>3 DEF DecidingOk
<1>4. ASSUME ~t.cleared PROVE IF u.hook THEN u.yes ELSE u.no
  <2> DEFINE now == Should(p, filter_mode, filters, filter_count)
  <2>1. /\ IF now THEN t.yes ELSE t.no
        /\ filter_count > 0
        /\ IF t.hit THEN Matched(p) ELSE Matched(p) => t.yes /\ t.no
    BY <1>1, <1>4 DEF DecidingOk
  <2>2. now <=> (Matched(p) <=> filter_mode = "whitelist")
    BY <1>1, <2>1, ShouldNow
  <2> HIDE DEF now
  <2>3. QED
    BY <1>2, <2>1, <2>2
<1>5. ~Deciding(p)'
  BY <1>2 DEF Deciding
<1>6. IF u.hook THEN u.yes ELSE u.no \/ u.cleared
  BY <1>3, <1>4
<1>7. QED
  BY <1>2, <1>5, <1>6, CallStepAlone

LEMMA ReportKeepsFilters ==
    ASSUME AccessTypes, FilterInv, NEW p \in Process, Skip(p) \/ CountLoad(p) \/ CountStore(p)
    PROVE  FilterInv'
<1>1. call[p] \in CallType
  BY DEF AccessTypes
<1>2. /\ call'[p].pc \in {"idle", "store"}
      /\ \A q \in Process : q # p => call'[q] = call[q]
      /\ UNCHANGED <<filter_mode, filters, filter_count, ctl>>
  BY <1>1 DEF Skip, CountLoad, CountStore, AccessTypes, CallType, Idle, config
<1>3. QED
  BY <1>2, CallStepAlone DEF Deciding

-----------------------------------------------------------------------------
(* The filters: the commands *)

\* A command that changes the configuration: each call still deciding sees the
\* new one.  Cleared, or a table that only grew, and a match with it only while
\* the mode stayed: then both answers were there.
LEMMA WitnessKeeps ==
    ASSUME AccessTypes, AccessTypes', FilterInv, NEW clear \in BOOLEAN, Witness(clear),
           NEW p \in Process, Deciding(p)', clear => filter_count' = 0,
           ~clear /\ ~call[p].cleared =>
               /\ filter_count' >= filter_count
               /\ \A j \in Index : Meets(p, j) => Meets(p, j)'
               /\ \A j \in Index : j < filter_count /\ Meets(p, j)' => Meets(p, j)
               /\ Matched(p) \/ (~Matched(p))' \/ filter_mode' = filter_mode
    PROVE  DecidingOk(p)'
<1> DEFINE t == call[p]
<1> DEFINE u == call'[p]
<1> DEFINE now == Should(p, filter_mode, filters, filter_count)
<1>1. /\ u.pc = t.pc /\ u.i = t.i /\ (u.hit <=> t.hit)
      /\ (u.yes <=> t.yes \/ NewAnswer(p)) /\ (u.no <=> t.no \/ ~NewAnswer(p))
      /\ (u.cleared <=> t.cleared \/ clear)
  BY WitnessTyped DEF Deciding
<1>2. DecidingOk(p)
  BY <1>1 DEF FilterInv, Deciding
<1>3. IF NewAnswer(p) THEN u.yes ELSE u.no
  BY <1>1
<1>4. u.cleared => u.yes
  <2>1. t.cleared => t.yes
    BY <1>2 DEF DecidingOk
  <2>2. clear => NewAnswer(p)
    BY DEF Should, NewAnswer
  <2>3. QED
    BY <1>1, <2>1, <2>2
<1>5. ASSUME ~u.cleared
      PROVE  /\ filter_count' > 0
             /\ u.pc = "scan" => /\ ~u.hit /\ u.i <= filter_count'
                                 /\ \A j \in Index : j < u.i => ~Meets(p, j)'
             /\ u.pc = "mode" => IF u.hit THEN Matched(p)' ELSE Matched(p)' => u.yes /\ u.no
  <2>1. ~t.cleared /\ ~clear
    BY <1>1, <1>5
  <2>2. /\ filter_count > 0
        /\ IF now THEN t.yes ELSE t.no
        /\ t.pc = "scan" => /\ ~t.hit /\ t.i <= filter_count
                            /\ \A j \in Index : j < t.i => ~Meets(p, j)
        /\ t.pc = "mode" => IF t.hit THEN Matched(p) ELSE Matched(p) => t.yes /\ t.no
    BY <1>2, <2>1 DEF DecidingOk
  <2>3. filter_count \in Nat /\ filter_count' \in Nat /\ filter_count' >= filter_count /\ t.i \in Nat
    BY <2>1 DEF AccessTypes, CallType
  <2>4. /\ \A j \in Index : Meets(p, j) => Meets(p, j)'
        /\ \A j \in Index : j < filter_count /\ Meets(p, j)' => Meets(p, j)
    BY <2>1
  <2>5. u.pc = "scan" => /\ ~u.hit /\ u.i <= filter_count'
                        /\ \A j \in Index : j < u.i => ~Meets(p, j)'
    <3>1. \A j \in Index : j < t.i /\ t.i <= filter_count => j < filter_count
      BY <2>3 DEF Index
    <3>2. QED
      BY <1>1, <2>2, <2>3, <2>4, <3>1
  <2>6. Matched(p) => Matched(p)'
    BY <2>4 DEF Matched
  <2>7. ASSUME u.pc = "mode", ~u.hit, Matched(p)' PROVE u.yes /\ u.no
    <3>1. CASE Matched(p)
      BY <1>1, <2>2, <2>7, <3>1
    <3>2. CASE ~Matched(p)
      <4>1. filter_mode' = filter_mode
        BY <2>1, <2>7, <3>2
      <4>2. now <=> ~(filter_mode = "whitelist")
        BY <2>2, <2>3, <3>2, ShouldNow
      <4>3. NewAnswer(p) <=> filter_mode = "whitelist"
        BY <2>2, <2>3, <2>7, <4>1 DEF Should, Matched, Meets, NewAnswer
      <4> HIDE DEF now
      <4>4. QED
        BY <1>1, <2>2, <4>2, <4>3
    <3>3. QED
      BY <3>1, <3>2
  <2>8. u.pc = "mode" => IF u.hit THEN Matched(p)' ELSE Matched(p)' => u.yes /\ u.no
    BY <1>1, <2>2, <2>6, <2>7
  <2>9. filter_count' > 0
    BY <2>2, <2>3
  <2>10. QED
    BY <2>5, <2>8, <2>9
<1>6. QED
  BY <1>3, <1>4, <1>5 DEF DecidingOk, NewAnswer

LEMMA WitnessKeepsDecided ==
    ASSUME AccessTypes, FilterInv, NEW clear \in BOOLEAN, Witness(clear)
    PROVE  DecisionsJustified'
<1>1. ASSUME NEW p \in Process, call'[p].pc = "decided" PROVE call'[p] = call[p]
  BY <1>1, WitnessTyped DEF Deciding
<1>2. QED
  BY <1>1 DEF FilterInv, DecisionsJustified

LEMMA ConfigureKeeps ==
    ASSUME OneSender, AccessTypes, AccessTypes', FilterInv, NEW c \in Caller, Configure(c)
    PROVE  FilterInv'
<1> USE AccessConstants
<1>1. /\ \A d \in Caller : d = c
      /\ CtlOk(c) /\ FilterTableBounded /\ ctl \in [Caller -> [pc : CtlPc, i : Nat, f : Filter \cup {NULL}]]
      /\ filters \in [Index -> Filter \cup {NULL}] /\ filter_count \in Nat
  BY DEF OneSender, FilterInv, AccessTypes
<1>2. PICK clear \in BOOLEAN : Witness(clear) /\ (clear => filter_count' = 0)
  BY ConfigureWitnesses
<1>3. DecisionsJustified'
  BY <1>2, WitnessKeepsDecided
<1>4. \A p \in Process : Deciding(p)' => Deciding(p)
  BY <1>2, WitnessTyped DEF Deciding
<1>5. CASE SetMode(c)
  <2>1. UNCHANGED <<filters, filter_count, ctl>> /\ Witness(FALSE)
    BY <1>5 DEF SetMode
  <2>2. FilterTableBounded' /\ \A d \in Caller : CtlOk(d)'
    BY <1>1, <2>1 DEF FilterTableBounded, CtlOk
  <2>3. ASSUME NEW p \in Process, Deciding(p)' PROVE DecidingOk(p)'
    <3>1. /\ \A j \in Index : Meets(p, j)' <=> Meets(p, j)
          /\ Matched(p)' <=> Matched(p)
      BY <2>1 DEF Meets, Matched
    <3>2. /\ filter_count' >= filter_count
          /\ \A j \in Index : Meets(p, j) => Meets(p, j)'
          /\ \A j \in Index : j < filter_count /\ Meets(p, j)' => Meets(p, j)
          /\ Matched(p) \/ (~Matched(p))' \/ filter_mode' = filter_mode
      BY <1>1, <2>1, <3>1
    <3>3. QED
      BY <2>1, <2>3, <3>2, WitnessKeeps
  <2>4. QED
    BY <1>3, <2>2, <2>3 DEF FilterInv
<1>6. CASE ClearFilters(c)
  <2>1. /\ filter_count' = 0 /\ UNCHANGED <<filter_mode, filters>> /\ Witness(TRUE)
        /\ ctl'[c].pc = "wipe" /\ ctl'[c].i = 0
    BY <1>1, <1>6 DEF ClearFilters, IdleCtl
  <2>2. FilterTableBounded' /\ \A d \in Caller : CtlOk(d)'
    BY <1>1, <2>1 DEF FilterTableBounded, CtlOk, Index
  <2>3. ASSUME NEW p \in Process, Deciding(p)' PROVE DecidingOk(p)'
    BY <2>1, <2>3, WitnessKeeps
  <2>4. QED
    BY <1>3, <2>2, <2>3 DEF FilterInv
<1>7. CASE ClearEntry(c)
  <2>1. /\ filter_count' = filter_count /\ filter_count = 0 /\ Witness(FALSE)
        /\ ctl'[c].pc \in {"wipe", "idle"} /\ (ctl'[c].pc = "wipe" => ctl'[c].i \in Index)
    BY <1>1, <1>7 DEF ClearEntry, IdleCtl, CtlOk
  <2>2. FilterTableBounded' /\ \A d \in Caller : CtlOk(d)'
    BY <1>1, <2>1 DEF FilterTableBounded, CtlOk, Index
  <2>3. ASSUME NEW p \in Process, Deciding(p)' PROVE DecidingOk(p)'
    <3>1. call[p].cleared
      <4>1. DecidingOk(p)
        BY <1>4, <2>3 DEF FilterInv
      <4>2. QED
        BY <2>1, <4>1 DEF DecidingOk
    <3>2. QED
      BY <2>1, <2>3, <3>1, WitnessKeeps
  <2>4. QED
    BY <1>3, <2>2, <2>3 DEF FilterInv
<1>8. CASE AddEntry(c)
  <2>1. /\ UNCHANGED <<filter_mode, filter_count>> /\ Witness(FALSE)
        /\ filter_count < MAX_FILTERS /\ ctl[c].f \in Filter
        /\ filters' = [filters EXCEPT ![filter_count] = ctl[c].f]
        /\ ctl'[c].pc = "load"
    BY <1>1, <1>8 DEF AddEntry, CtlOk, Index
  <2>2. filter_count \in Index /\ \A j \in Index : j < filter_count => filters'[j] = filters[j]
    BY <1>1, <2>1 DEF Index
  <2>3. FilterTableBounded' /\ \A d \in Caller : CtlOk(d)'
    BY <1>1, <2>1, <2>2 DEF FilterTableBounded, CtlOk
  <2>4. ASSUME NEW p \in Process, Deciding(p)' PROVE DecidingOk(p)'
    <3>1. /\ \A j \in Index : Meets(p, j)' <=> Meets(p, j)
          /\ Matched(p)' <=> Matched(p)
      BY <2>1, <2>2 DEF Meets, Matched
    <3>2. /\ filter_count' >= filter_count
          /\ \A j \in Index : Meets(p, j) => Meets(p, j)'
          /\ \A j \in Index : j < filter_count /\ Meets(p, j)' => Meets(p, j)
          /\ Matched(p) \/ (~Matched(p))' \/ filter_mode' = filter_mode
      BY <1>1, <2>1, <3>1
    <3>3. QED
      BY <2>1, <2>4, <3>2, WitnessKeeps
  <2>5. QED
    BY <1>3, <2>3, <2>4 DEF FilterInv
<1>9. CASE AddBump(c)
  <2>1. /\ filter_count' = filter_count + 1 /\ UNCHANGED <<filter_mode, filters>> /\ Witness(FALSE)
        /\ filter_count < MAX_FILTERS /\ filters[filter_count] # NULL
        /\ ctl'[c].pc = "idle"
    BY <1>1, <1>9 DEF AddBump, CtlOk, IdleCtl
  <2>2. FilterTableBounded' /\ \A d \in Caller : CtlOk(d)'
    BY <1>1, <2>1 DEF FilterTableBounded, CtlOk, Index
  <2>3. ASSUME NEW p \in Process, Deciding(p)' PROVE DecidingOk(p)'
    <3>1. /\ \A j \in Index : Meets(p, j) => Meets(p, j)'
          /\ \A j \in Index : j < filter_count /\ Meets(p, j)' => Meets(p, j)
      BY <1>1, <2>1 DEF Meets, Index
    <3>2. /\ filter_count' >= filter_count
          /\ \A j \in Index : Meets(p, j) => Meets(p, j)'
          /\ \A j \in Index : j < filter_count /\ Meets(p, j)' => Meets(p, j)
          /\ Matched(p) \/ (~Matched(p))' \/ filter_mode' = filter_mode
      BY <1>1, <2>1, <3>1
    <3>3. QED
      BY <2>1, <2>3, <3>2, WitnessKeeps
  <2>4. QED
    BY <1>3, <2>2, <2>3 DEF FilterInv
<1>10. QED
  BY <1>5, <1>6, <1>7, <1>8, <1>9 DEF Configure

LEMMA OtherCommandsKeep ==
    ASSUME OneSender, AccessTypes, FilterInv, NEW c \in Caller,
           Switch(c) \/ ResetCounters(c) \/ AddFilter(c) \/ AddLoad(c)
    PROVE  FilterInv'
<1>1. UNCHANGED <<filter_mode, filters, filter_count, call>>
  BY DEF Switch, ResetCounters, Reset, AddFilter, AddLoad, config
<1>2. CtlOk(c)'
  <2>1. ctl \in [Caller -> [pc : CtlPc, i : Nat, f : Filter \cup {NULL}]] /\ CtlOk(c)
    BY DEF AccessTypes, FilterInv
  <2>2. CASE Switch(c) \/ ResetCounters(c)
    BY <1>1, <2>1, <2>2 DEF Switch, ResetCounters, Reset, CtlOk
  <2>3. CASE AddFilter(c)
    BY <1>1, <2>1, <2>3 DEF AddFilter, IdleCtl, CtlOk
  <2>4. CASE AddLoad(c)
    BY <1>1, <2>1, <2>4 DEF AddLoad, CtlOk
  <2>5. QED
    BY <2>2, <2>3, <2>4
<1>3. \A d \in Caller : CtlOk(d)'
  BY <1>2 DEF OneSender
<1>4. QED
  BY <1>1, <1>3 DEF FilterInv, FilterTableBounded, Deciding, DecidingOk, Matched, Meets, DecisionsJustified

LEMMA FilterStep == OneSender /\ AccessTypes /\ FilterInv /\ [Next]_vars => FilterInv'
<1> SUFFICES ASSUME OneSender, AccessTypes, FilterInv, [Next]_vars PROVE FilterInv'
  OBVIOUS
<1>0. AccessTypes'
  BY TypesStep
<1>1. ASSUME NEW p \in Process, NEW k \in Kind, Enter(p, k) PROVE FilterInv'
  BY <1>1, EnterDecides
<1>2. ASSUME NEW p \in Process, CallStep(p) PROVE FilterInv'
  BY <1>2, ScanDecides, DecideDecides, ReportKeepsFilters DEF CallStep
<1>3. ASSUME NEW c \in Caller, kpm_control(c) PROVE FilterInv'
  BY <1>0, <1>3, ConfigureKeeps, OtherCommandsKeep DEF kpm_control, Configure
<1>4. CASE UNCHANGED vars
  BY <1>4 DEF vars, config, FilterInv, FilterTableBounded, CtlOk, Deciding, DecidingOk, Matched,
     Meets, DecisionsJustified
<1>5. QED
  BY <1>1, <1>2, <1>3, <1>4 DEF Next

\* accessOffstinlineHook.c: should_hook_process, add_filter, clear_filters with no lock
\* between them.  With one sender of commands every decision is one that some
\* configuration justifies that was in force while it was taken, or the skip that a
\* clear_filters under it may cause, and no callback reads an entry that is not there.
THEOREM FiltersJustify == OneSender => (Spec => []FiltersDecide)
<1>1. ASSUME OneSender PROVE Spec => []FiltersDecide
  <2>1. Init => FilterInv
    BY AccessConstants DEF Init, FilterInv, FilterTableBounded, CtlOk, IdleCtl, Idle, Deciding,
       DecisionsJustified, Index
  <2>2. AccessTypes /\ FilterInv /\ [Next]_vars => FilterInv'
    BY <1>1, FilterStep
  <2>3. FilterInv => FiltersDecide
    BY DEF FilterInv, FiltersDecide
  <2>4. QED
    BY <2>1, <2>2, <2>3, AccessStarts, TypesStep, PTL DEF Spec
<1>2. QED
  BY <1>1

\* Among finitely many there is a lowest and a highest.
LEMMA Extremes ==
    ASSUME NEW S, IsFiniteSet(S), S # {}, NEW f, \A x \in S : f[x] \in Int
    PROVE  /\ \E x \in S : \A y \in S : f[x] <= f[y]
           /\ \E x \in S : \A y \in S : f[x] >= f[y]
<1>1. ASSUME NEW g, \A x \in S : g[x] \in Int
      PROVE  \E x \in S : \A y \in S : g[x] <= g[y]
  <2> DEFINE Below(x) == {y \in S : g[y] < g[x]}
             F == {Below(x) : x \in S}
  <2>1. F \subseteq FiniteSubsetsOf(S)
    <3> SUFFICES ASSUME NEW x \in S PROVE Below(x) \in FiniteSubsetsOf(S)
      OBVIOUS
    <3>1. Below(x) \subseteq S
      OBVIOUS
    <3>2. IsFiniteSet(Below(x))
      <4> HIDE DEF Below
      <4> QED BY <3>1, FS_Subset
    <3> QED BY <3>1, <3>2 DEF FiniteSubsetsOf
  <2>2. F # {}
    OBVIOUS
  <2>3. \E a \in F : \A b \in F : ~(<<b, a>> \in StrictSubsetOrdering(S))
    <3> HIDE DEF F
    <3> QED BY <2>1, <2>2, WFMin, FS_StrictSubsetOrderingWellFounded
  <2>4. PICK x \in S : \A y \in S : ~(<<Below(y), Below(x)>> \in StrictSubsetOrdering(S))
    BY <2>3
  <2>5. ASSUME NEW y \in S, g[y] < g[x] PROVE FALSE
    <3>1. \A z \in S : g[z] < g[y] => g[z] < g[x]
      BY <1>1, <2>5
    <3>2. ~(g[y] < g[y])
      BY <1>1
    <3>3. y \in Below(x) /\ y \notin Below(y)
      BY <2>5, <3>2
    <3>4. Below(y) \in SUBSET S /\ Below(x) \in SUBSET S /\ Below(y) \subseteq Below(x) /\ Below(y) # Below(x)
      BY <3>1, <3>3
    <3>5. <<Below(y), Below(x)>> \in StrictSubsetOrdering(S)
      BY <3>4 DEF StrictSubsetOrdering
    <3> QED BY <3>5, <2>4
  <2> QED BY <1>1, <2>5
<1>2. \E x \in S : \A y \in S : f[x] <= f[y]
  BY <1>1
<1>3. \E x \in S : \A y \in S : f[x] >= f[y]
  <2> DEFINE g == [x \in S |-> -f[x]]
  <2>1. \A x \in S : g[x] \in Int /\ g[x] = -f[x]
    OBVIOUS
  <2> HIDE DEF g
  <2>2. PICK x \in S : \A y \in S : g[x] <= g[y]
    BY <1>1, <2>1
  <2>3. \A y \in S : f[x] >= f[y]
    BY <2>1, <2>2
  <2> QED BY <2>3
<1> QED BY <1>2, <1>3

-----------------------------------------------------------------------------
(* The map of a process *)

LEMMA Vm ==
    /\ IsFiniteSet(DOMAIN Vmas) /\ NoVma \notin DOMAIN Vmas
    /\ \A v \in DOMAIN Vmas : /\ Vmas[v].start \in Int /\ Vmas[v].end \in Int
                              /\ Vmas[v].start < Vmas[v].end
    /\ \A v, x \in DOMAIN Vmas : v # x => Vmas[v].end <= Vmas[x].start \/ Vmas[x].end <= Vmas[v].start
BY VmaAssumption DEF NoVma

LEMMA LowestIs ==
    ASSUME NEW S \in SUBSET DOMAIN Vmas, S # {}
    PROVE  Lowest(S) \in S /\ \A x \in S : Vmas[Lowest(S)].start <= Vmas[x].start
<1> DEFINE f == [x \in S |-> Vmas[x].start]
<1>1. IsFiniteSet(S) /\ \A x \in S : f[x] \in Int /\ f[x] = Vmas[x].start
  BY Vm, FS_Subset
<1> HIDE DEF f
<1>2. \E x \in S : \A y \in S : f[x] <= f[y]
  BY <1>1, Extremes
<1>3. \E x \in S : \A y \in S : Vmas[x].start <= Vmas[y].start
  BY <1>1, <1>2
<1> QED BY <1>3 DEF Lowest

LEMMA HighestIs ==
    ASSUME NEW S \in SUBSET DOMAIN Vmas, S # {}
    PROVE  Highest(S) \in S /\ \A x \in S : Vmas[Highest(S)].start >= Vmas[x].start
<1> DEFINE f == [x \in S |-> Vmas[x].start]
<1>1. IsFiniteSet(S) /\ \A x \in S : f[x] \in Int /\ f[x] = Vmas[x].start
  BY Vm, FS_Subset
<1> HIDE DEF f
<1>2. \E x \in S : \A y \in S : f[x] >= f[y]
  BY <1>1, Extremes
<1>3. \E x \in S : \A y \in S : Vmas[x].start >= Vmas[y].start
  BY <1>1, <1>2
<1> QED BY <1>3 DEF Highest

\* What find_vma and Prev answer, and where a file starts, as the map M has it.
VmaAt(M, ip) ==
    LET behind == {v \in M : Vmas[v].end > ip}
    IN  IF behind = {} THEN NoVma ELSE Lowest(behind)
PrevIn(M, v) ==
    LET before == {x \in M : Vmas[x].start < Vmas[v].start}
    IN  IF before = {} THEN NoVma ELSE Highest(before)
StartIn(M, v) ==
    LET Between(x) == {y \in M : Vmas[x].start <= Vmas[y].start /\ Vmas[y].start <= Vmas[v].start}
        run == {x \in M : v \in Between(x) /\ \A y \in Between(x) : SameFile(v, y)}
    IN  IF Vmas[v].file = "anon" THEN Vmas[v].start ELSE Vmas[Lowest(run)].start

LEMMA VmaAtIs ==
    ASSUME NEW M \in SUBSET DOMAIN Vmas, NEW ip
    PROVE  VmaAt(M, ip) = NoVma \/ VmaAt(M, ip) \in M
<1> DEFINE behind == {v \in M : Vmas[v].end > ip}
<1>1. CASE behind = {}
  BY <1>1 DEF VmaAt
<1>2. CASE behind # {}
  <2>1. VmaAt(M, ip) = Lowest(behind) /\ behind \in SUBSET DOMAIN Vmas
    BY <1>2 DEF VmaAt
  <2>2. Lowest(behind) \in behind
    <3> HIDE DEF behind
    <3> QED BY <1>2, <2>1, LowestIs
  <2> QED BY <2>1, <2>2
<1> QED BY <1>1, <1>2

LEMMA PrevInIs ==
    ASSUME NEW M \in SUBSET DOMAIN Vmas, NEW v \in M
    PROVE  LET p == PrevIn(M, v) IN
           \/ p = NoVma /\ \A x \in M : Vmas[x].start >= Vmas[v].start
           \/ /\ p \in M /\ p # NoVma /\ Vmas[p].start < Vmas[v].start
              /\ \A x \in M : Vmas[x].start < Vmas[v].start => Vmas[x].start <= Vmas[p].start
<1> DEFINE before == {x \in M : Vmas[x].start < Vmas[v].start}
<1>1. CASE before = {}
  <2>1. PrevIn(M, v) = NoVma
    BY <1>1 DEF PrevIn
  <2>2. \A x \in M : Vmas[x].start >= Vmas[v].start
    BY <1>1, Vm
  <2> QED BY <2>1, <2>2
<1>2. CASE before # {}
  <2>1. PrevIn(M, v) = Highest(before) /\ before \in SUBSET DOMAIN Vmas
    BY <1>2 DEF PrevIn
  <2>2. Highest(before) \in before /\ \A x \in before : Vmas[Highest(before)].start >= Vmas[x].start
    <3> HIDE DEF before
    <3> QED BY <1>2, <2>1, HighestIs
  <2>3. PICK p : p = Highest(before)
    OBVIOUS
  <2>4. /\ p \in M /\ p # NoVma /\ Vmas[p].start < Vmas[v].start
        /\ \A x \in M : Vmas[x].start < Vmas[v].start => Vmas[x].start <= Vmas[p].start
    BY <2>2, <2>3, Vm
  <2> QED BY <2>1, <2>3, <2>4
<1> QED BY <1>1, <1>2

\* All that is mapped from x to v is of v's file.
Chain(M, x, v) ==
    /\ x \in M /\ v \in M /\ Vmas[x].start <= Vmas[v].start
    /\ \A y \in M : Vmas[x].start <= Vmas[y].start /\ Vmas[y].start <= Vmas[v].start => SameFile(v, y)

\* Where the segment before is of another file, or there is none, the file starts.
LEMMA FileStarts ==
    ASSUME NEW M \in SUBSET DOMAIN Vmas, NEW v, NEW x, Chain(M, x, v), Vmas[v].file # "anon",
           PrevIn(M, x) = NoVma \/ ~SameFile(x, PrevIn(M, x))
    PROVE  StartIn(M, v) = Vmas[x].start
<1> DEFINE Between(z) == {y \in M : Vmas[z].start <= Vmas[y].start /\ Vmas[y].start <= Vmas[v].start}
           run == {z \in M : v \in Between(z) /\ \A y \in Between(z) : SameFile(v, y)}
<1>1. StartIn(M, v) = Vmas[Lowest(run)].start
  BY DEF StartIn
<1>2. \A z \in M : Vmas[z].start \in Int /\ z # NoVma
  BY Vm
<1>3. x \in run
  BY <1>2 DEF Chain
<1>4. ASSUME NEW z \in run, Vmas[z].start < Vmas[x].start PROVE FALSE
  <2>1. PICK p \in M : /\ Vmas[p].start < Vmas[x].start /\ ~SameFile(x, p)
                       /\ Vmas[z].start <= Vmas[p].start
    BY <1>2, <1>4, PrevInIs DEF Chain
  <2>2. p \in Between(z) /\ SameFile(v, x)
    BY <1>2, <2>1 DEF Chain
  <2>3. SameFile(v, p)
    BY <1>4, <2>2
  <2> QED BY <2>1, <2>2, <2>3 DEF SameFile
<1>5. run \in SUBSET DOMAIN Vmas /\ run \subseteq M
  OBVIOUS
<1> HIDE DEF run
<1>6. Lowest(run) \in run /\ Vmas[Lowest(run)].start <= Vmas[x].start
  BY <1>3, <1>5, LowestIs
<1> QED BY <1>1, <1>2, <1>3, <1>4, <1>5, <1>6

\* No file has more segments than are looked back over.
SegmentsOf(v) == {x \in DOMAIN Vmas : SameFile(v, x)}
ShortFiles == \A v \in DOMAIN Vmas : Cardinality(SegmentsOf(v)) <= MaxBack + 1
Above(x, v) == {y \in SegmentsOf(v) : Vmas[y].start > Vmas[x].start}

LEMMA Steps ==
    ASSUME ShortFiles, NEW M \in SUBSET DOMAIN Vmas, NEW v, NEW x, Chain(M, x, v),
           NEW p \in M, Vmas[p].start < Vmas[x].start, SameFile(x, p),
           \A y \in M : Vmas[y].start < Vmas[x].start => Vmas[y].start <= Vmas[p].start,
           NEW n \in Nat, n <= Cardinality(Above(x, v))
    PROVE  Chain(M, p, v) /\ n + 1 <= Cardinality(Above(p, v)) /\ n # MaxBack
<1> DEFINE A == Above(x, v)  B == Above(p, v)  C == SegmentsOf(v)
<1>1. /\ \A y \in DOMAIN Vmas : Vmas[y].start \in Int
      /\ IsFiniteSet(DOMAIN Vmas) /\ MaxBack \in Nat
  BY Vm, MemAssumption
<1>2. Chain(M, p, v)
  <2>1. ASSUME NEW y \in M, Vmas[p].start <= Vmas[y].start, Vmas[y].start <= Vmas[v].start
        PROVE  SameFile(v, y)
    <3>1. CASE Vmas[x].start <= Vmas[y].start
      BY <2>1, <3>1 DEF Chain
    <3>2. CASE Vmas[y].start < Vmas[x].start
      <4>1. Vmas[y].start = Vmas[p].start
        BY <1>1, <2>1, <3>2
      <4>2. y = p
        BY <4>1, Vm
      <4>3. SameFile(v, x)
        BY <1>1 DEF Chain
      <4> QED BY <4>2, <4>3 DEF SameFile
    <3>3. Vmas[x].start \in Int /\ Vmas[y].start \in Int
      BY <1>1 DEF Chain
    <3> QED BY <3>1, <3>2, <3>3
  <2>2. p \in M /\ v \in M /\ Vmas[p].start <= Vmas[v].start
    BY <1>1 DEF Chain
  <2> QED BY <2>1, <2>2 DEF Chain
<1>3. C \subseteq DOMAIN Vmas /\ A \subseteq C /\ B \subseteq C
  BY DEF Above, SegmentsOf
<1>4. x \in C /\ p \in C /\ x \notin A /\ p \notin B /\ x \in B /\ A \subseteq B
  BY <1>1 DEF Chain, SameFile, Above, SegmentsOf
<1>5. v \in DOMAIN Vmas
  BY DEF Chain
<1> HIDE DEF A, B, C
<1>6. IsFiniteSet(C) /\ IsFiniteSet(A) /\ IsFiniteSet(B)
  BY <1>1, <1>3, FS_Subset
<1>7. Cardinality(A) \in Nat /\ Cardinality(B) \in Nat /\ Cardinality(C) \in Nat
  BY <1>6, FS_CardinalityType
<1>8. Cardinality(A \cup {x}) = Cardinality(A) + 1 /\ IsFiniteSet(A \cup {x})
  BY <1>4, <1>6, FS_AddElement
<1>9. Cardinality(A \cup {x}) <= Cardinality(B)
  BY <1>4, <1>6, FS_Subset
<1>10. Cardinality(B \cup {p}) = Cardinality(B) + 1 /\ IsFiniteSet(B \cup {p})
  BY <1>4, <1>6, FS_AddElement
<1>11. Cardinality(B \cup {p}) <= Cardinality(C)
  BY <1>3, <1>4, <1>6, FS_Subset
<1>12. Cardinality(C) <= MaxBack + 1
  BY <1>5 DEF ShortFiles, C
<1>13. n + 1 <= Cardinality(B) /\ n # MaxBack
  BY <1>1, <1>7, <1>8, <1>9, <1>10, <1>11, <1>12 DEF A
<1> QED BY <1>2, <1>13 DEF B

-----------------------------------------------------------------------------
(* The walk *)

Fields == {"pc", "trace", "fp", "sp", "depth", "met", "i", "vma", "base", "back", "page", "line"}
Traced == Places \cup Ips \cup {Terminator, Max(Places)}
Locked == {"find", "back", "page", "path", "print", "unlock"}

WalkRec(u) ==
    /\ DOMAIN u = Fields /\ u.page \in BOOLEAN
    /\ u.trace \in Seq(Traced) /\ u.met \in Seq(Int) /\ u.fp \in Int
\* From the frames met, upwards.
GoesUp(u) ==
    /\ Len(u.trace) <= MAX_STACK_DEPTH
    /\ \A i, j \in DOMAIN u.met : i < j => u.met[i] < u.met[j]
    /\ u.pc = "frame" => \A i \in DOMAIN u.met : u.met[i] < u.fp
\* What has been found of the place, in the map M that the lock keeps.
Found(u, M) ==
    LET v == VmaAt(M, u.trace[u.i])
    IN  /\ u.vma # NoVma => u.pc \in Locked \ {"find"} /\ u.vma \in M
        /\ u.pc = "back" => /\ Chain(M, u.vma, v) /\ Vmas[v].file # "anon"
                            /\ u.base = Vmas[u.vma].start
                            /\ u.back \in Nat /\ u.back <= Cardinality(Above(u.vma, v))
        /\ u.pc \in {"page", "path", "print"} => u.base = StartIn(M, v)
        /\ u.pc = "unlock" /\ u.vma # NoVma => u.line = u.trace[u.i] - StartIn(M, v)
WalkerOk(u, M, held) ==
    /\ WalkRec(u) /\ GoesUp(u) /\ Found(u, M)
    /\ held <=> u.pc \in Locked
    /\ u.page => u.pc = "path"

WalkInv ==
    /\ mapped \in SUBSET DOMAIN Vmas
    /\ holders \subseteq Walkers /\ (holders # {} => ~writer)
    /\ \A a \in DOMAIN stack : stack[a].next \in Int /\ stack[a].ret \in Traced
    /\ DOMAIN walk = Walkers
    /\ \A w \in Walkers : WalkerOk(walk[w], mapped, w \in holders)

\* One walker's step.
LEMMA OneWalks ==
    ASSUME WalkInv, NEW w \in Walkers, NEW r, Unwind(w, r), UNCHANGED <<mapped, stack, writer>>,
           WalkerOk(r, mapped, w \in holders'),
           \/ holders' = holders
           \/ holders' = holders \cup {w} /\ ~writer
           \/ holders' = holders \ {w}
    PROVE  WalkInv'
<1>1. DOMAIN walk' = Walkers /\ walk'[w] = r /\ \A x \in Walkers : x # w => walk'[x] = walk[x]
  BY DEF WalkInv, Unwind
<1>2. \A x \in Walkers : x # w => (x \in holders' <=> x \in holders)
  OBVIOUS
<1>3. ASSUME NEW x \in Walkers PROVE WalkerOk(walk'[x], mapped', x \in holders')
  <2>1. CASE x = w
    BY <1>1, <2>1
  <2>2. CASE x # w
    <3>1. WalkerOk(walk[x], mapped, x \in holders) /\ walk'[x] = walk[x] /\ mapped' = mapped
      BY <1>1, <2>2 DEF WalkInv
    <3> QED BY <1>2, <2>2, <3>1 DEF WalkerOk
  <2> QED BY <2>1, <2>2
<1>4. /\ mapped' \in SUBSET DOMAIN Vmas /\ holders' \subseteq Walkers /\ (holders' # {} => ~writer')
      /\ \A a \in DOMAIN stack' : stack'[a].next \in Int /\ stack'[a].ret \in Traced
  BY DEF WalkInv
<1> QED BY <1>1, <1>3, <1>4 DEF WalkInv

LEMMA Begins ==
    ASSUME WalkInv, NEW w \in Walkers, unwind_user_stack_standard(w)
    PROVE  WalkInv'
<1>1. /\ walk[w].pc = "idle" /\ holders' = holders /\ UNCHANGED <<mapped, stack, writer>>
      /\ w \notin holders
  BY DEF WalkInv, WalkerOk, Locked, unwind_user_stack_standard
<1>2. MAX_STACK_DEPTH \in Nat /\ MAX_STACK_DEPTH > 1 /\ Frames \subseteq Int
  BY MemAssumption
<1>3. ASSUME NEW u, DOMAIN u = Fields, u.pc \in {"frame", "place"}, u.fp \in Int, u.met = << >>,
             u.vma = NoVma, u.page = FALSE, u.trace \in Seq(Traced), Len(u.trace) <= MAX_STACK_DEPTH
      PROVE  WalkerOk(u, mapped, w \in holders')
  <2>1. u.met \in Seq(Int) /\ DOMAIN u.met = {}
    BY <1>3
  <2>2. WalkRec(u) /\ GoesUp(u)
    BY <1>3, <2>1 DEF WalkRec, GoesUp
  <2>3. Found(u, mapped) /\ u.pc \notin Locked
    BY <1>3 DEF Found, Locked
  <2> QED BY <1>1, <1>3, <2>2, <2>3 DEF WalkerOk
<1>4. CASE \E pc \in Places, lr \in Places, fp, sp \in Frames :
            LET t == Recorded(<<pc>>, lr)
            IN  Unwind(w, [Walk0 EXCEPT !.pc = "frame", !.fp = fp, !.sp = sp,
                                        !.trace = IF lr > FrameLow THEN t ELSE <<pc>>])
  <2>1. PICK pc \in Places, lr \in Places, fp \in Frames, sp \in Frames :
            Unwind(w, [Walk0 EXCEPT !.pc = "frame", !.fp = fp, !.sp = sp,
                                    !.trace = IF lr > FrameLow THEN Recorded(<<pc>>, lr) ELSE <<pc>>])
    BY <1>4
  <2>2. PICK t : t = IF lr > FrameLow THEN Recorded(<<pc>>, lr) ELSE <<pc>>
    OBVIOUS
  <2>3. <<pc>> \in Seq(Traced) /\ Len(<<pc>>) = 1 /\ lr \in Traced
    BY DEF Traced
  <2>4. t \in Seq(Traced) /\ Len(t) <= MAX_STACK_DEPTH
    BY <1>2, <2>2, <2>3 DEF Recorded, Full
  <2>5. PICK u : u = [Walk0 EXCEPT !.pc = "frame", !.fp = fp, !.sp = sp, !.trace = t]
    OBVIOUS
  <2>6. Unwind(w, u)
    BY <2>1, <2>2, <2>5
  <2>7. /\ DOMAIN u = Fields /\ u.pc \in {"frame", "place"} /\ u.fp = fp /\ u.met = << >>
        /\ u.vma = NoVma /\ u.page = FALSE /\ u.trace = t
    BY <2>5 DEF Walk0, Fields
  <2>8. WalkerOk(u, mapped, w \in holders')
    BY <1>2, <1>3, <2>4, <2>7
  <2> QED BY <1>1, <2>6, <2>8, OneWalks
<1>5. CASE \E pc \in Ips : Unwind(w, [Walk0 EXCEPT !.pc = "place", !.trace = <<pc>>])
  <2>1. PICK pc \in Ips : Unwind(w, [Walk0 EXCEPT !.pc = "place", !.trace = <<pc>>])
    BY <1>5
  <2>2. <<pc>> \in Seq(Traced) /\ Len(<<pc>>) <= MAX_STACK_DEPTH
    BY <1>2 DEF Traced
  <2>3. PICK u : u = [Walk0 EXCEPT !.pc = "place", !.trace = <<pc>>]
    OBVIOUS
  <2>4. /\ DOMAIN u = Fields /\ u.pc \in {"frame", "place"} /\ u.fp = 0 /\ u.met = << >>
        /\ u.vma = NoVma /\ u.page = FALSE /\ u.trace = <<pc>>
    BY <2>3 DEF Walk0, Fields
  <2>5. u.fp \in Int /\ u.trace \in Seq(Traced) /\ Len(u.trace) <= MAX_STACK_DEPTH
    BY <2>2, <2>4
  <2>6. WalkerOk(u, mapped, w \in holders')
    BY <1>3, <2>4, <2>5
  <2> QED BY <1>1, <2>1, <2>3, <2>6, OneWalks
<1> QED BY <1>4, <1>5 DEF unwind_user_stack_standard

LEMMA Climbs ==
    ASSUME WalkInv, NEW w \in Walkers, my_unwind_compat(w)
    PROVE  WalkInv'
<1> DEFINE u == walk[w]
           t == IF stack[u.fp].ret > FrameLow /\ Last(u.trace) # stack[u.fp].ret
                THEN Append(u.trace, stack[u.fp].ret) ELSE u.trace
           Ended(tr) == [u EXCEPT !.pc = "place", !.met = << >>, !.trace = Recorded(tr, Terminator)]
           Higher(tr) == [u EXCEPT !.trace = tr, !.fp = stack[u.fp].next, !.depth = @ + 1, !.met = Append(@, u.fp)]
<1>1. /\ u.pc = "frame" /\ holders' = holders /\ UNCHANGED <<mapped, stack, writer>>
      /\ WalkerOk(u, mapped, w \in holders)
      /\ \A a \in DOMAIN stack : stack[a].next \in Int /\ stack[a].ret \in Traced
  BY DEF WalkInv, my_unwind_compat
<1>2. WalkRec(u) /\ GoesUp(u) /\ u.vma = NoVma /\ u.page = FALSE /\ w \notin holders'
  <2>1. u.pc \notin Locked /\ u.pc # "path"
    BY <1>1 DEF Locked
  <2>2. Found(u, mapped) /\ (u.page => u.pc = "path") /\ (w \in holders <=> u.pc \in Locked)
    BY <1>1 DEF WalkerOk
  <2>3. u.vma # NoVma => u.pc \in Locked
    BY <2>2 DEF Found
  <2> QED BY <1>1, <2>1, <2>2, <2>3 DEF WalkerOk, WalkRec
<1>3. \/ Unwind(w, Ended(u.trace))
      \/ u.fp \in DOMAIN stack /\ ~Full(u.trace) /\ Unwind(w, Ended(t))
      \/ u.fp \in DOMAIN stack /\ ~Full(u.trace) /\ ~WalkEnds(u, stack[u.fp].next) /\ Unwind(w, Higher(t))
  BY DEF my_unwind_compat
<1>4. MAX_STACK_DEPTH \in Nat
  BY MemAssumption
<1>5. u.fp \in DOMAIN stack /\ ~Full(u.trace) => t \in Seq(Traced) /\ Len(t) <= MAX_STACK_DEPTH
  BY <1>1, <1>2, <1>4 DEF Full, WalkRec
<1>6. u.trace \in Seq(Traced) /\ Len(u.trace) <= MAX_STACK_DEPTH
  BY <1>2 DEF WalkRec, GoesUp
<1>7. ASSUME NEW tr \in Seq(Traced), Len(tr) <= MAX_STACK_DEPTH, Unwind(w, Ended(tr))
      PROVE  WalkInv'
  <2>1. PICK r : r = Ended(tr)
    OBVIOUS
  <2>2. PICK rt : rt = Recorded(tr, Terminator)
    OBVIOUS
  <2>3. rt \in Seq(Traced) /\ Len(rt) <= MAX_STACK_DEPTH
    BY <1>4, <1>7, <2>2 DEF Recorded, Full, Traced
  <2>4. /\ DOMAIN r = DOMAIN u /\ r.fp = u.fp /\ r.pc = "place" /\ r.met = << >> /\ r.trace = rt
        /\ r.vma = u.vma /\ r.page = u.page
    BY <1>2, <2>1, <2>2 DEF WalkRec, Fields
  <2>5. r.met \in Seq(Int) /\ DOMAIN r.met = {}
    BY <2>4
  <2>6. WalkRec(r) /\ GoesUp(r)
    BY <1>2, <2>3, <2>4, <2>5 DEF WalkRec, GoesUp
  <2>7. Found(r, mapped) /\ r.pc \notin Locked
    BY <1>2, <2>4 DEF Found, Locked
  <2>8. WalkerOk(r, mapped, w \in holders')
    BY <1>2, <2>4, <2>6, <2>7 DEF WalkerOk
  <2> QED BY <1>1, <1>7, <2>1, <2>8, OneWalks
<1>8. ASSUME NEW tr \in Seq(Traced), Len(tr) <= MAX_STACK_DEPTH, u.fp \in DOMAIN stack,
             ~WalkEnds(u, stack[u.fp].next), Unwind(w, Higher(tr))
      PROVE  WalkInv'
  <2>1. PICK r : r = Higher(tr)
    OBVIOUS
  <2>2. PICK m : m = Append(u.met, u.fp)
    OBVIOUS
  <2>3. u.met \in Seq(Int) /\ u.fp \in Int /\ stack[u.fp].next \in Int /\ stack[u.fp].next > u.fp
    BY <1>1, <1>2, <1>8 DEF WalkRec, WalkEnds
  <2>4. /\ DOMAIN r = DOMAIN u /\ r.fp = stack[u.fp].next /\ r.pc = "frame" /\ r.met = m /\ r.trace = tr
        /\ r.vma = u.vma /\ r.page = u.page
    BY <1>1, <1>2, <2>1, <2>2 DEF WalkRec, Fields
  <2>5. /\ m \in Seq(Int) /\ Len(m) = Len(u.met) + 1 /\ m[Len(m)] = u.fp
        /\ \A i \in 1..Len(u.met) : m[i] = u.met[i]
        /\ DOMAIN m = 1..(Len(u.met) + 1) /\ DOMAIN u.met = 1..Len(u.met) /\ Len(u.met) \in Nat
    BY <2>2, <2>3
  <2>6. /\ \A i, j \in DOMAIN u.met : i < j => u.met[i] < u.met[j]
        /\ \A i \in DOMAIN u.met : u.met[i] < u.fp /\ u.met[i] \in Int
    BY <1>1, <1>2, <2>3 DEF GoesUp
  <2>7. PICK k \in Nat : k = Len(u.met)
    BY <2>5
  <2>8. PICK h \in Int, nx \in Int : h = u.fp /\ nx = stack[u.fp].next /\ nx > h
    BY <2>3
  <2>9. PICK met : met = u.met
    OBVIOUS
  <2>10. /\ DOMAIN m = 1..(k + 1) /\ m[k + 1] = h
         /\ \A i \in 1..k : m[i] = met[i] /\ met[i] \in Int /\ met[i] < h
         /\ \A i, j \in 1..k : i < j => met[i] < met[j]
    BY <2>5, <2>6, <2>7, <2>8, <2>9
  <2>11. \A i \in 1..(k + 1) : i \in 1..k \/ i = k + 1
    OBVIOUS
  <2>12. \A i \in 1..(k + 1) : m[i] \in Int /\ m[i] < nx
    BY <2>8, <2>10, <2>11
  <2>13. ASSUME NEW i \in 1..(k + 1), NEW j \in 1..(k + 1), i < j PROVE m[i] < m[j]
    <3>1. i \in 1..k
      BY <2>13
    <3>2. CASE j = k + 1
      BY <2>10, <3>1, <3>2
    <3>3. CASE j \in 1..k
      BY <2>10, <2>13, <3>1, <3>3
    <3> QED BY <2>11, <3>2, <3>3
  <2>14. \A i \in DOMAIN m : m[i] \in Int /\ m[i] < stack[u.fp].next
    BY <2>8, <2>10, <2>12
  <2>15. \A i, j \in DOMAIN m : i < j => m[i] < m[j]
    BY <2>10, <2>13
  <2>16. WalkRec(r) /\ GoesUp(r)
    BY <1>2, <1>8, <2>3, <2>4, <2>5, <2>14, <2>15 DEF WalkRec, GoesUp
  <2>17. Found(r, mapped) /\ r.pc \notin Locked
    BY <1>2, <2>4 DEF Found, Locked
  <2>18. WalkerOk(r, mapped, w \in holders')
    BY <1>2, <2>4, <2>16, <2>17 DEF WalkerOk
  <2> QED BY <1>1, <1>8, <2>1, <2>18, OneWalks
<1> HIDE DEF t, Ended, Higher
<1> QED BY <1>3, <1>5, <1>6, <1>7, <1>8

\* A step that keeps the trace and what the walk has met.
LEMMA KeepsClimb ==
    ASSUME NEW u, NEW r, WalkRec(u), GoesUp(u), DOMAIN r = DOMAIN u, r.page \in BOOLEAN,
           r.trace = u.trace, r.met = u.met, r.fp = u.fp, r.pc # "frame"
    PROVE  WalkRec(r) /\ GoesUp(r)
BY DEF WalkRec, GoesUp

LEMMA Outsides ==
    ASSUME WalkInv, NEW w \in Walkers, NextPlace(w), holders' = holders \ {w},
           UNCHANGED <<mapped, stack, writer>>, walk[w].pc # "path"
    PROVE  WalkInv'
<1> DEFINE u == walk[w]
<1>1. WalkRec(u) /\ GoesUp(u) /\ u.page = FALSE
  <2>1. WalkerOk(u, mapped, w \in holders)
    BY DEF WalkInv
  <2> QED BY <2>1 DEF WalkerOk, WalkRec
<1>2. PICK r : r = [u EXCEPT !.pc = "place", !.i = @ + 1, !.vma = NoVma, !.base = 0, !.line = 0]
  OBVIOUS
<1>3. /\ DOMAIN r = DOMAIN u /\ r.pc = "place" /\ r.vma = NoVma /\ r.trace = u.trace /\ r.met = u.met
      /\ r.fp = u.fp /\ r.page = FALSE
  BY <1>1, <1>2 DEF WalkRec, Fields
<1>4. WalkRec(r) /\ GoesUp(r)
  <2>1. r.page \in BOOLEAN /\ r.pc # "frame"
    BY <1>3
  <2> HIDE DEF u
  <2> QED BY <1>1, <1>3, <2>1, KeepsClimb
<1>5. Found(r, mapped) /\ r.pc \notin Locked
  BY <1>3 DEF Found, Locked
<1>6. WalkerOk(r, mapped, w \in holders')
  BY <1>3, <1>4, <1>5 DEF WalkerOk
<1> QED BY <1>2, <1>6, OneWalks DEF NextPlace

LEMMA Locks ==
    ASSUME WalkInv, NEW w \in Walkers, TryLock(w)
    PROVE  WalkInv'
<1> DEFINE u == walk[w]
<1>1. u.pc = "place" /\ UNCHANGED <<mapped, stack, writer>> /\ WalkerOk(u, mapped, w \in holders)
  BY DEF WalkInv, TryLock, KeepMap
<1>2. WalkRec(u) /\ GoesUp(u) /\ u.page = FALSE /\ u.vma = NoVma /\ w \notin holders
  BY <1>1 DEF WalkerOk, WalkRec, Found, Locked
<1>3. CASE ~writer /\ holders' = holders \cup {w} /\ Unwind(w, [u EXCEPT !.pc = "find"])
  <2>1. PICK r : r = [u EXCEPT !.pc = "find"]
    OBVIOUS
  <2>2. /\ DOMAIN r = DOMAIN u /\ r.pc = "find" /\ r.vma = NoVma /\ r.trace = u.trace /\ r.met = u.met
        /\ r.fp = u.fp /\ r.page = FALSE
    BY <1>2, <2>1 DEF WalkRec, Fields
  <2>3. r.page \in BOOLEAN /\ r.pc # "frame"
    BY <2>2
  <2>4. WalkRec(r) /\ GoesUp(r)
    <3> HIDE DEF u
    <3> QED BY <1>2, <2>2, <2>3, KeepsClimb
  <2>5. Found(r, mapped) /\ r.pc \in Locked
    BY <2>2 DEF Found, Locked
  <2>6. WalkerOk(r, mapped, w \in holders')
    BY <1>3, <2>2, <2>4, <2>5 DEF WalkerOk
  <2> QED BY <1>1, <1>3, <2>1, <2>6, OneWalks
<1>4. CASE holders' = holders /\ Unwind(w, [u EXCEPT !.i = @ + 1])
  <2>1. PICK r : r = [u EXCEPT !.i = @ + 1]
    OBVIOUS
  <2>2. /\ DOMAIN r = DOMAIN u /\ r.pc = "place" /\ r.vma = NoVma /\ r.trace = u.trace /\ r.met = u.met
        /\ r.fp = u.fp /\ r.page = FALSE
    BY <1>1, <1>2, <2>1 DEF WalkRec, Fields
  <2>3. r.page \in BOOLEAN /\ r.pc # "frame"
    BY <2>2
  <2>4. WalkRec(r) /\ GoesUp(r)
    <3> HIDE DEF u
    <3> QED BY <1>2, <2>2, <2>3, KeepsClimb
  <2>5. Found(r, mapped) /\ r.pc \notin Locked
    BY <2>2 DEF Found, Locked
  <2>6. WalkerOk(r, mapped, w \in holders')
    BY <1>2, <1>4, <2>2, <2>4, <2>5 DEF WalkerOk
  <2> QED BY <1>1, <1>4, <2>1, <2>6, OneWalks
<1> QED BY <1>3, <1>4 DEF TryLock

\* A step of a walker that has the lock and keeps it.
LEMMA OnLocked ==
    ASSUME WalkInv, NEW w \in Walkers, walk[w].pc \in Locked, NEW r, Unwind(w, r),
           UNCHANGED <<mapped, stack, writer, holders>>, DOMAIN r = DOMAIN walk[w],
           r.trace = walk[w].trace, r.met = walk[w].met, r.fp = walk[w].fp,
           r.pc \in Locked, r.page \in BOOLEAN, r.page => r.pc = "path", Found(r, mapped)
    PROVE  WalkInv'
<1>1. WalkerOk(walk[w], mapped, w \in holders)
  BY DEF WalkInv
<1>2. WalkRec(walk[w]) /\ GoesUp(walk[w]) /\ w \in holders'
  BY <1>1 DEF WalkerOk
<1>3. r.pc # "frame"
  BY DEF Locked
<1>4. WalkRec(r) /\ GoesUp(r)
  BY <1>2, <1>3, KeepsClimb
<1>5. WalkerOk(r, mapped, w \in holders')
  BY <1>2, <1>4 DEF WalkerOk
<1> QED BY <1>5, OneWalks

LEMMA Finds ==
    ASSUME WalkInv, NEW w \in Walkers, Find(w)
    PROVE  WalkInv'
<1> DEFINE u == walk[w]  v == VmaAt(mapped, u.trace[u.i])
<1>1. /\ u.pc = "find" /\ UNCHANGED <<mapped, stack, writer>> /\ WalkerOk(u, mapped, w \in holders)
      /\ mapped \in SUBSET DOMAIN Vmas
  BY DEF WalkInv, Find, KeepMap
<1>2. WalkRec(u) /\ u.page = FALSE /\ (u.vma # NoVma => u.vma \in mapped)
  BY <1>1 DEF WalkerOk, WalkRec, Found
<1>3. find_vma(Ip(w)) = v
  BY DEF find_vma, Ip, VmaAt
<1>4. \/ Outside(w)
      \/ /\ UNCHANGED holders
         /\ Unwind(w, IF v = NoVma THEN [u EXCEPT !.pc = "unlock"]
                      ELSE [u EXCEPT !.vma = v, !.base = Vmas[v].start, !.back = 0,
                                     !.pc = IF Vmas[v].file = "anon" THEN "print" ELSE "back"])
  <2> HIDE DEF v
  <2> QED BY <1>3 DEF Find
<1>5. CASE Outside(w)
  <2>1. NextPlace(w) /\ holders' = holders \ {w} /\ walk[w].pc # "path"
    BY <1>1, <1>5 DEF Outside
  <2> QED BY <1>1, <2>1, Outsides
<1>6. CASE UNCHANGED holders /\ v = NoVma /\ Unwind(w, [u EXCEPT !.pc = "unlock"])
  <2>1. PICK r : r = [u EXCEPT !.pc = "unlock"]
    OBVIOUS
  <2>2. u.vma = NoVma
    BY <1>1 DEF WalkerOk, Found, Locked
  <2>3. /\ DOMAIN r = DOMAIN u /\ r.pc = "unlock" /\ r.vma = NoVma /\ r.trace = u.trace /\ r.met = u.met
        /\ r.fp = u.fp /\ r.page = FALSE
    BY <1>2, <2>1, <2>2 DEF WalkRec, Fields
  <2> QED BY <1>1, <1>6, <2>1, <2>3, OnLocked DEF Found, Locked
<1>7. CASE /\ UNCHANGED holders /\ v # NoVma
           /\ Unwind(w, [u EXCEPT !.vma = v, !.base = Vmas[v].start, !.back = 0,
                                  !.pc = IF Vmas[v].file = "anon" THEN "print" ELSE "back"])
  <2> DEFINE pc == IF Vmas[v].file = "anon" THEN "print" ELSE "back"
  <2>1. PICK r : r = [u EXCEPT !.vma = v, !.base = Vmas[v].start, !.back = 0, !.pc = pc]
    OBVIOUS
  <2>2. v \in mapped /\ v \in DOMAIN Vmas
    <3>1. v = NoVma \/ v \in mapped
      <4> HIDE DEF u
      <4> QED BY <1>1, VmaAtIs
    <3> QED BY <1>1, <1>7, <3>1
  <2>3. PICK x : x = v
    OBVIOUS
  <2>4. /\ DOMAIN r = DOMAIN u /\ r.pc = pc /\ r.vma = x /\ r.trace = u.trace /\ r.met = u.met
        /\ r.fp = u.fp /\ r.page = FALSE /\ r.base = Vmas[x].start /\ r.back = 0 /\ r.i = u.i
    BY <1>2, <2>1, <2>3 DEF WalkRec, Fields
  <2>5. Chain(mapped, x, x)
    <3>1. \A y \in mapped : Vmas[x].start <= Vmas[y].start /\ Vmas[y].start <= Vmas[x].start => x = y
      BY <1>1, <2>2, <2>3, Vm
    <3> QED BY <1>1, <2>2, <2>3, <3>1, Vm DEF Chain, SameFile
  <2>6. VmaAt(mapped, r.trace[r.i]) = x
    BY <2>3, <2>4
  <2>7. Cardinality(Above(x, x)) \in Nat
    <3>1. IsFiniteSet(Above(x, x))
      BY Vm, FS_Subset DEF Above, SegmentsOf
    <3> QED BY <3>1, FS_CardinalityType
  <2>8. (pc = "print" /\ Vmas[x].file = "anon") \/ (pc = "back" /\ Vmas[x].file # "anon")
    BY <2>3
  <2> HIDE DEF pc, v
  <2>9. Found(r, mapped)
    <3>1. CASE pc = "print" /\ Vmas[x].file = "anon"
      <4>1. StartIn(mapped, x) = Vmas[x].start
        BY <3>1 DEF StartIn
      <4> QED BY <2>2, <2>3, <2>4, <2>6, <3>1, <4>1 DEF Found, Locked
    <3>2. CASE pc = "back" /\ Vmas[x].file # "anon"
      <4>1. r.back \in Nat /\ r.back <= Cardinality(Above(x, x))
        BY <2>4, <2>7
      <4> QED BY <2>2, <2>3, <2>4, <2>5, <2>6, <3>2, <4>1 DEF Found, Locked
    <3> QED BY <2>8, <3>1, <3>2
  <2>10. r.pc \in Locked /\ u.pc \in Locked /\ r.page \in BOOLEAN /\ ~r.page
    BY <1>1, <2>4, <2>8 DEF Locked
  <2>11. Unwind(w, r)
    BY <1>7, <2>1 DEF pc
  <2> HIDE DEF u
  <2> QED BY <1>1, <1>7, <2>4, <2>9, <2>10, <2>11, OnLocked DEF u
<1> QED BY <1>4, <1>5, <1>6, <1>7

LEMMA LooksBack ==
    ASSUME ShortFiles, WalkInv, NEW w \in Walkers, LookBack(w)
    PROVE  WalkInv'
<1> DEFINE u == walk[w]  x == u.vma  v == VmaAt(mapped, u.trace[u.i])  p == PrevIn(mapped, x)
<1>1. /\ u.pc = "back" /\ UNCHANGED <<mapped, stack, writer, holders>> /\ WalkerOk(u, mapped, w \in holders)
      /\ mapped \in SUBSET DOMAIN Vmas
  BY DEF WalkInv, LookBack, KeepMap
<1>2. WalkRec(u) /\ u.page = FALSE
  BY <1>1 DEF WalkerOk, WalkRec
<1>3. /\ Chain(mapped, x, v) /\ Vmas[v].file # "anon" /\ u.base = Vmas[x].start
      /\ u.back \in Nat /\ u.back <= Cardinality(Above(x, v))
  BY <1>1 DEF WalkerOk, Found
<1>4. x \in mapped
  BY <1>3 DEF Chain
<1>5. p = Prev(x)
  BY DEF Prev, PrevIn
<1>6. \/ Unwind(w, [u EXCEPT !.pc = "page"]) /\ (u.back = MaxBack \/ p = NoVma \/ ~SameFile(x, p))
      \/ /\ u.back # MaxBack /\ p # NoVma /\ SameFile(x, p)
         /\ Unwind(w, [u EXCEPT !.vma = p, !.base = Vmas[p].start, !.back = @ + 1])
  <2> HIDE DEF p
  <2> QED BY <1>5 DEF LookBack
<1>7. p # NoVma => /\ p \in mapped /\ Vmas[p].start < Vmas[x].start
                   /\ \A y \in mapped : Vmas[y].start < Vmas[x].start => Vmas[y].start <= Vmas[p].start
  <2> HIDE DEF x
  <2> QED BY <1>1, <1>4, PrevInIs
<1>8. p # NoVma /\ SameFile(x, p) =>
         /\ Chain(mapped, p, v) /\ u.back + 1 <= Cardinality(Above(p, v)) /\ u.back # MaxBack
  <2> HIDE DEF x, v, p, u
  <2> QED BY <1>1, <1>3, <1>7, Steps
<1>9. CASE Unwind(w, [u EXCEPT !.pc = "page"]) /\ (p = NoVma \/ ~SameFile(x, p))
  <2>1. StartIn(mapped, v) = Vmas[x].start
    <3> HIDE DEF x, v
    <3> QED BY <1>1, <1>3, <1>9, FileStarts DEF p
  <2>2. PICK r : r = [u EXCEPT !.pc = "page"]
    OBVIOUS
  <2>3. /\ DOMAIN r = DOMAIN u /\ r.pc = "page" /\ r.vma = x /\ r.trace = u.trace /\ r.met = u.met
        /\ r.fp = u.fp /\ r.page = FALSE /\ r.base = u.base /\ r.i = u.i
    BY <1>2, <2>2 DEF WalkRec, Fields
  <2>4. VmaAt(mapped, r.trace[r.i]) = v
    BY <2>3
  <2> HIDE DEF v, x, p
  <2>5. Found(r, mapped)
    BY <1>3, <1>4, <2>1, <2>3, <2>4 DEF Found, Locked
  <2>6. r.pc \in Locked /\ u.pc \in Locked /\ r.page \in BOOLEAN /\ ~r.page
    BY <1>1, <2>3 DEF Locked
  <2> HIDE DEF u
  <2> QED BY <1>1, <1>9, <2>2, <2>3, <2>5, <2>6, OnLocked DEF u
<1>10. CASE /\ p # NoVma /\ SameFile(x, p)
            /\ Unwind(w, [u EXCEPT !.vma = p, !.base = Vmas[p].start, !.back = @ + 1])
  <2>1. PICK r : r = [u EXCEPT !.vma = p, !.base = Vmas[p].start, !.back = @ + 1]
    OBVIOUS
  <2>2. PICK q : q = p
    OBVIOUS
  <2>3. /\ DOMAIN r = DOMAIN u /\ r.pc = "back" /\ r.vma = q /\ r.trace = u.trace /\ r.met = u.met
        /\ r.fp = u.fp /\ r.page = FALSE /\ r.base = Vmas[q].start /\ r.i = u.i /\ r.back = u.back + 1
    BY <1>1, <1>2, <2>1, <2>2 DEF WalkRec, Fields
  <2>4. VmaAt(mapped, r.trace[r.i]) = v
    BY <2>3
  <2> HIDE DEF v, x, p
  <2>5. r.back \in Nat /\ r.back <= Cardinality(Above(q, v))
    BY <1>3, <1>8, <1>10, <2>2, <2>3
  <2>6. Found(r, mapped)
    BY <1>3, <1>7, <1>8, <1>10, <2>2, <2>3, <2>4, <2>5 DEF Found, Locked
  <2>7. r.pc \in Locked /\ u.pc \in Locked /\ r.page \in BOOLEAN /\ ~r.page
    BY <1>1, <2>3 DEF Locked
  <2> HIDE DEF u
  <2> QED BY <1>1, <1>10, <2>1, <2>3, <2>6, <2>7, OnLocked DEF u
<1> HIDE DEF u, x, v, p
<1> QED BY <1>6, <1>8, <1>9, <1>10

\* Saying where the place is.
LEMMA SaysIt ==
    ASSUME WalkInv, NEW w \in Walkers, walk[w].pc \in {"page", "path", "print"},
           NEW r, Unwind(w, r), UNCHANGED <<mapped, stack, writer, holders>>,
           \/ r = Says(walk[w], Ip(w) - walk[w].base) /\ walk[w].pc # "path"
           \/ r = [Says(walk[w], Ip(w) - walk[w].base) EXCEPT !.page = FALSE]
           \/ r = [walk[w] EXCEPT !.pc = "path", !.page = TRUE]
    PROVE  WalkInv'
<1> DEFINE u == walk[w]  v == VmaAt(mapped, u.trace[u.i])
<1>1. WalkerOk(u, mapped, w \in holders) /\ u.pc \in Locked
  BY DEF WalkInv, Locked
<1>2. WalkRec(u) /\ (u.page => u.pc = "path") /\ u.base = StartIn(mapped, v)
  BY <1>1 DEF WalkerOk, Found
<1>3. u.vma # NoVma => u.vma \in mapped
  BY <1>1 DEF WalkerOk, Found
<1>4. u.page \in BOOLEAN /\ DOMAIN u = Fields
  BY <1>2 DEF WalkRec
<1>5. PICK s : s = Ip(w) - u.base
  OBVIOUS
<1>6. s = u.trace[u.i] - StartIn(mapped, v)
  BY <1>2, <1>5 DEF Ip
<1>7. /\ DOMAIN r = DOMAIN u /\ r.vma = u.vma /\ r.trace = u.trace /\ r.met = u.met
      /\ r.fp = u.fp /\ r.base = u.base /\ r.i = u.i
      /\ \/ r.pc = "unlock" /\ r.line = s /\ r.page = FALSE
         \/ r.pc = "path" /\ r.page = TRUE
  <2> HIDE DEF v
  <2>1. CASE r = Says(u, s) /\ u.pc # "path"
    BY <1>2, <1>4, <2>1 DEF Says, Fields
  <2>2. CASE r = [Says(u, s) EXCEPT !.page = FALSE]
    BY <1>4, <2>2 DEF Says, Fields
  <2>3. CASE r = [u EXCEPT !.pc = "path", !.page = TRUE]
    BY <1>4, <2>3 DEF Fields
  <2> QED BY <1>5, <2>1, <2>2, <2>3
<1>8. VmaAt(mapped, r.trace[r.i]) = v
  BY <1>7
<1> HIDE DEF v
<1>9. Found(r, mapped) /\ r.pc \in Locked /\ r.page \in BOOLEAN /\ (r.page => r.pc = "path")
  <2>1. CASE r.pc = "unlock" /\ r.line = s /\ r.page = FALSE
    BY <1>3, <1>6, <1>7, <1>8, <2>1 DEF Found, Locked
  <2>2. CASE r.pc = "path" /\ r.page = TRUE
    BY <1>2, <1>3, <1>7, <1>8, <2>2 DEF Found, Locked
  <2> QED BY <1>7, <2>1, <2>2
<1> HIDE DEF u
<1> QED BY <1>1, <1>7, <1>9, OnLocked DEF u

LEMMA WalkStarts ==
    ASSUME MemInit
    PROVE  WalkInv
<1>1. /\ mapped = DOMAIN Vmas /\ holders = {} /\ writer = FALSE /\ walk = [w \in Walkers |-> Walk0]
      /\ stack = [a \in Frames \ {Min(Frames), Max(Frames)} |-> [next |-> Max(Frames), ret |-> Max(Places)]]
  BY DEF MemInit
<1>2. Frames # {} => Max(Frames) \in Int
  <2> DEFINE f == [x \in Frames |-> x]
  <2>1. IsFiniteSet(Frames) /\ Frames \subseteq Int /\ \A x \in Frames : f[x] = x /\ f[x] \in Int
    BY MemAssumption
  <2> HIDE DEF f
  <2>2. Frames # {} => \E x \in Frames : \A y \in Frames : f[x] >= f[y]
    BY <2>1, Extremes
  <2>3. Frames # {} => \E x \in Frames : \A y \in Frames : x >= y
    BY <2>1, <2>2
  <2> QED BY <2>1, <2>3 DEF Max
<1>3. \A a \in DOMAIN stack : stack[a].next \in Int /\ stack[a].ret \in Traced
  <2>1. PICK top : top = Max(Frames)
    OBVIOUS
  <2>2. PICK r : r = Max(Places)
    OBVIOUS
  <2>3. r \in Traced
    BY <2>2 DEF Traced
  <2>4. stack = [a \in Frames \ {Min(Frames), top} |-> [next |-> top, ret |-> r]]
    BY <1>1, <2>1, <2>2
  <2>5. Frames # {} => top \in Int
    BY <1>2, <2>1
  <2> QED BY <2>3, <2>4, <2>5
<1>4. ASSUME NEW w \in Walkers PROVE WalkerOk(walk[w], mapped, w \in holders)
  <2>1. PICK u : u = walk[w]
    OBVIOUS
  <2>2. /\ DOMAIN u = Fields /\ u.pc = "idle" /\ u.fp = 0 /\ u.met = << >> /\ u.trace = << >>
        /\ u.vma = NoVma /\ u.page = FALSE
    BY <1>1, <2>1 DEF Walk0, Fields
  <2>3. /\ u.fp \in Int /\ u.met \in Seq(Int) /\ u.trace \in Seq(Traced) /\ DOMAIN u.met = {}
        /\ Len(u.trace) = 0 /\ Len(u.trace) <= MAX_STACK_DEPTH
    BY <2>2, MemAssumption
  <2>4. WalkRec(u) /\ GoesUp(u)
    BY <2>2, <2>3 DEF WalkRec, GoesUp
  <2>5. Found(u, mapped) /\ u.pc \notin Locked
    BY <2>2 DEF Found, Locked
  <2>6. WalkerOk(u, mapped, w \in holders)
    BY <1>1, <2>2, <2>4, <2>5 DEF WalkerOk
  <2> QED BY <2>1, <2>6
<1>5. DOMAIN walk = Walkers
  BY <1>1
<1>6. mapped \in SUBSET DOMAIN Vmas /\ holders \subseteq Walkers /\ (holders # {} => ~writer)
  BY <1>1
<1> QED BY <1>3, <1>4, <1>5, <1>6 DEF WalkInv

LEMMA WalksOn ==
    ASSUME ShortFiles, WalkInv, [WalkNext \/ ReadNext]_memVars
    PROVE  WalkInv'
<1>1. ASSUME NEW w \in Walkers, unwind_user_stack_standard(w) PROVE WalkInv'
  BY <1>1, Begins
<1>2. ASSUME NEW w \in Walkers, my_unwind_compat(w) PROVE WalkInv'
  BY <1>2, Climbs
<1>3. ASSUME NEW w \in Walkers, TryLock(w) PROVE WalkInv'
  BY <1>3, Locks
<1>4. ASSUME NEW w \in Walkers, Find(w) PROVE WalkInv'
  BY <1>4, Finds
<1>5. ASSUME NEW w \in Walkers, LookBack(w) PROVE WalkInv'
  BY <1>5, LooksBack
<1>6. ASSUME NEW w \in Walkers, GetPage(w) \/ FilePath(w) \/ PrintAnon(w) PROVE WalkInv'
  <2>1. UNCHANGED <<mapped, stack, writer, holders>>
    BY <1>6 DEF GetPage, FilePath, PrintAnon, KeepMap
  <2>2. CASE GetPage(w)
    <3>1. walk[w].pc \in {"page", "path", "print"} /\ walk[w].pc # "path"
      BY <2>2 DEF GetPage
    <3>2. PICK r : /\ Unwind(w, r)
                   /\ r = Says(walk[w], Ip(w) - walk[w].base) \/ r = [walk[w] EXCEPT !.pc = "path", !.page = TRUE]
      BY <2>2 DEF GetPage
    <3> QED BY <2>1, <3>1, <3>2, SaysIt
  <2>3. CASE FilePath(w)
    <3>1. /\ walk[w].pc \in {"page", "path", "print"}
          /\ Unwind(w, [Says(walk[w], Ip(w) - walk[w].base) EXCEPT !.page = FALSE])
      BY <2>3 DEF FilePath
    <3> QED BY <2>1, <3>1, SaysIt
  <2>4. CASE PrintAnon(w)
    <3>1. /\ walk[w].pc \in {"page", "path", "print"} /\ walk[w].pc # "path"
          /\ Unwind(w, Says(walk[w], Ip(w) - walk[w].base))
      BY <2>4 DEF PrintAnon
    <3> QED BY <2>1, <3>1, SaysIt
  <2> QED BY <1>6, <2>2, <2>3, <2>4
<1>7. ASSUME NEW w \in Walkers, Unlock(w) PROVE WalkInv'
  <2>1. /\ NextPlace(w) /\ holders' = holders \ {w} /\ walk[w].pc # "path"
        /\ UNCHANGED <<mapped, stack, writer>>
    BY <1>7 DEF Unlock, KeepMap
  <2> QED BY <2>1, Outsides
<1>8. ASSUME NEW w \in Walkers, WalkDone(w) PROVE WalkInv'
  <2> DEFINE u == walk[w]
  <2>1. u.pc = "place" /\ UNCHANGED <<mapped, stack, writer, holders>> /\ WalkerOk(u, mapped, w \in holders)
    BY <1>8 DEF WalkInv, WalkDone, KeepMap
  <2>2. WalkRec(u) /\ GoesUp(u) /\ u.page = FALSE /\ u.vma = NoVma /\ w \notin holders
    BY <2>1 DEF WalkerOk, WalkRec, Found, Locked
  <2>3. PICK r : r = [u EXCEPT !.pc = "done"]
    OBVIOUS
  <2>4. /\ DOMAIN r = DOMAIN u /\ r.pc = "done" /\ r.vma = NoVma /\ r.trace = u.trace /\ r.met = u.met
        /\ r.fp = u.fp /\ r.page = FALSE
    BY <2>2, <2>3 DEF WalkRec, Fields
  <2>5. r.page \in BOOLEAN /\ r.pc # "frame"
    BY <2>4
  <2>6. WalkRec(r) /\ GoesUp(r)
    <3> HIDE DEF u
    <3> QED BY <2>2, <2>4, <2>5, KeepsClimb
  <2>7. Found(r, mapped) /\ r.pc \notin Locked
    BY <2>4 DEF Found, Locked
  <2>8. WalkerOk(r, mapped, w \in holders')
    BY <2>1, <2>2, <2>4, <2>6, <2>7 DEF WalkerOk
  <2>9. Unwind(w, r)
    BY <1>8, <2>3 DEF WalkDone
  <2> QED BY <2>1, <2>8, <2>9, OneWalks
<1>9. ASSUME WriteLock PROVE WalkInv'
  BY <1>9 DEF WriteLock, WalkInv
<1>10. ASSUME Remap PROVE WalkInv'
  <2>1. writer /\ UNCHANGED <<holders, stack, walk>> /\ mapped' \in SUBSET DOMAIN Vmas
    BY <1>10 DEF Remap, WalkInv
  <2>2. holders = {}
    BY <2>1 DEF WalkInv
  <2>3. ASSUME NEW w \in Walkers PROVE WalkerOk(walk[w], mapped', w \in holders)
    <3>1. WalkerOk(walk[w], mapped, w \in holders) /\ walk[w].pc \notin Locked
      BY <2>2 DEF WalkInv, WalkerOk
    <3>2. Found(walk[w], mapped')
      BY <3>1 DEF WalkerOk, Found, Locked
    <3> QED BY <3>1, <3>2 DEF WalkerOk
  <2> QED BY <2>1, <2>2, <2>3 DEF WalkInv
<1>11. ASSUME Scribble PROVE WalkInv'
  <2>1. UNCHANGED <<mapped, holders, writer, walk>>
    BY <1>11 DEF Scribble
  <2>2. PICK a \in DOMAIN stack, n \in Frames, r \in Places :
            stack' = [stack EXCEPT ![a] = [next |-> n, ret |-> r]]
    BY <1>11 DEF Scribble
  <2>3. n \in Int /\ r \in Traced
    BY MemAssumption DEF Traced
  <2>4. \A b \in DOMAIN stack' : stack'[b].next \in Int /\ stack'[b].ret \in Traced
    BY <2>2, <2>3 DEF WalkInv
  <2> QED BY <2>1, <2>4 DEF WalkInv
<1>12. CASE ReadNext \/ UNCHANGED memVars
  <2>1. UNCHANGED walkVars
    BY <1>12 DEF ReadNext, ReadHex, FindTask, GetMm, Access, PutMm, Born, Dies, KeepLife, memVars
  <2>2. UNCHANGED <<mapped, holders, writer, stack, walk>>
    BY <2>1 DEF walkVars
  <2> QED BY <2>2 DEF WalkInv
<1> QED BY <1>1, <1>2, <1>3, <1>4, <1>5, <1>6, <1>7, <1>8, <1>9, <1>10, <1>11, <1>12 DEF WalkNext

LEMMA WalksSound ==
    ASSUME WalkInv
    PROVE  StackWalks
<1> SUFFICES ASSUME NEW w \in Walkers
             PROVE  /\ walk[w].vma # NoVma => w \in holders /\ walk[w].vma \in mapped
                    /\ w \in holders => ~writer
                    /\ walk[w].pc \in {"idle", "frame", "place", "done"} => w \notin holders /\ ~walk[w].page
                    /\ walk[w].pc = "unlock" /\ walk[w].vma # NoVma =>
                           walk[w].line = Ip(w) - FileStart(find_vma(Ip(w)))
                    /\ GoesUp(walk[w])
  BY DEF StackWalks, NothingIsKept, OffsetsAreTrue, WalkGoesUp, GoesUp
<1>1. WalkerOk(walk[w], mapped, w \in holders) /\ (w \in holders => ~writer)
  BY DEF WalkInv
<1>2. FileStart(find_vma(Ip(w))) = StartIn(mapped, VmaAt(mapped, walk[w].trace[walk[w].i]))
  <2>1. find_vma(Ip(w)) = VmaAt(mapped, walk[w].trace[walk[w].i])
    BY DEF find_vma, VmaAt, Ip
  <2>2. \A v : FileStart(v) = StartIn(mapped, v)
    BY DEF FileStart, StartIn
  <2> QED BY <2>1, <2>2
<1> QED BY <1>1, <1>2 DEF WalkerOk, Found, Locked, Ip

-----------------------------------------------------------------------------
(* Reading another process *)

ReadFields == {"pc", "task", "size", "mm", "got", "of", "ret", "shown"}
Reading == {"access", "put"}
Alive(p) == life[p] # "unborn"

ReaderOk(u) ==
    /\ DOMAIN u = ReadFields /\ u.mm \in BOOLEAN
    /\ u.mm <=> u.pc \in Reading
    /\ u.pc = "find" => \A p \in Procs : HasPid(p) => p \in u.of
    /\ u.pc \in Reading \cup {"mm"} => u.task \in Procs /\ u.task \in u.of /\ Alive(u.task)
    /\ u.size \in Sizes \cup {0} /\ u.got \in Sizes \cup {0}
    /\ u.got # 0 => u.pc \in {"put", "done"}
    /\ u.pc = "done" /\ u.got # 0 => u.ret = u.got /\ u.shown = 3 * u.got /\ u.task \in u.of
HoldersOf(p) == {r \in MemReaders : read[r].mm /\ read[r].task = p}
Own(p) == IF life[p] = "running" THEN 1 ELSE 0
ReadInv ==
    /\ DOMAIN life = Procs /\ DOMAIN users = Procs /\ DOMAIN read = MemReaders
    /\ \A r \in MemReaders : ReaderOk(read[r])
    /\ \A p \in Procs : users[p] = Own(p) + Cardinality(HoldersOf(p))

LEMMA HoldersFinite ==
    ASSUME NEW p
    PROVE  IsFiniteSet(HoldersOf(p)) /\ Cardinality(HoldersOf(p)) \in Nat /\ Own(p) \in {0, 1}
<1>1. IsFiniteSet(HoldersOf(p))
  BY MemAssumption, FS_Subset DEF HoldersOf
<1> QED BY <1>1, FS_CardinalityType DEF Own

\* One reader's step.
LEMMA OneReads ==
    ASSUME ReadInv, NEW r \in MemReaders, NEW x, Reads(r, x), ReaderOk(x), life' = life,
           \/ users' = users /\ ~x.mm /\ ~read[r].mm
           \/ users' = users /\ x.mm /\ read[r].mm /\ x.task = read[r].task
           \/ x.mm /\ ~read[r].mm /\ users' = [users EXCEPT ![x.task] = @ + 1]
           \/ ~x.mm /\ read[r].mm /\ users' = [users EXCEPT ![read[r].task] = @ - 1]
    PROVE  ReadInv'
<1>1. DOMAIN read' = MemReaders /\ read'[r] = x /\ \A y \in MemReaders : y # r => read'[y] = read[y]
  BY DEF ReadInv, Reads
<1>2. DOMAIN users' = Procs /\ DOMAIN life' = Procs
  BY DEF ReadInv
<1>3. ASSUME NEW y \in MemReaders PROVE ReaderOk(read[y])'
  <2>1. ReaderOk(x)' <=> ReaderOk(x)
    BY DEF ReaderOk, HasPid, Alive
  <2>2. ReaderOk(read[y])
    BY DEF ReadInv
  <2>3. PICK z : z = read'[y]
    OBVIOUS
  <2>4. ReaderOk(z)
    BY <1>1, <2>2, <2>3
  <2> QED BY <2>3, <2>4 DEF ReaderOk, HasPid, Alive
<1>4. ASSUME NEW p \in Procs PROVE users'[p] = Own(p)' + Cardinality(HoldersOf(p)')
  <2>1. Own(p)' = Own(p) /\ users[p] = Own(p) + Cardinality(HoldersOf(p)) /\ p \in DOMAIN users
    BY DEF ReadInv, Own
  <2>2. \A y \in MemReaders : y # r => (y \in HoldersOf(p)' <=> y \in HoldersOf(p))
    BY <1>1 DEF HoldersOf
  <2>3. /\ r \in HoldersOf(p) <=> read[r].mm /\ read[r].task = p
        /\ r \in HoldersOf(p)' <=> x.mm /\ x.task = p
        /\ HoldersOf(p)' \subseteq MemReaders /\ HoldersOf(p) \subseteq MemReaders
    BY <1>1 DEF HoldersOf
  <2>4. IsFiniteSet(HoldersOf(p)) /\ Cardinality(HoldersOf(p)) \in Nat /\ Own(p) \in {0, 1}
    BY HoldersFinite
  <2>5. CASE r \in HoldersOf(p) <=> r \in HoldersOf(p)'
    <3>1. HoldersOf(p)' = HoldersOf(p)
      BY <2>2, <2>3, <2>5
    <3>2. users'[p] = users[p]
      BY <2>1, <2>3, <2>5
    <3> QED BY <2>1, <3>1, <3>2
  <2>6. CASE r \notin HoldersOf(p) /\ r \in HoldersOf(p)'
    <3>1. HoldersOf(p)' = HoldersOf(p) \cup {r}
      BY <2>2, <2>3, <2>6
    <3>2. Cardinality(HoldersOf(p)') = Cardinality(HoldersOf(p)) + 1
      BY <2>4, <2>6, <3>1, FS_AddElement
    <3>3. x.mm /\ x.task = p /\ users' = [users EXCEPT ![x.task] = @ + 1]
      BY <2>3, <2>6
    <3>4. users'[p] = users[p] + 1
      BY <2>1, <3>3
    <3> QED BY <2>1, <2>4, <3>2, <3>4
  <2>7. CASE r \in HoldersOf(p) /\ r \notin HoldersOf(p)'
    <3>1. HoldersOf(p)' = HoldersOf(p) \ {r}
      BY <2>2, <2>3, <2>7
    <3>2. Cardinality(HoldersOf(p)') = Cardinality(HoldersOf(p)) - 1
      BY <2>4, <2>7, <3>1, FS_RemoveElement
    <3>3. read[r].task = p /\ users' = [users EXCEPT ![read[r].task] = @ - 1]
      BY <2>3, <2>7
    <3>4. users'[p] = users[p] - 1
      BY <2>1, <3>3
    <3> QED BY <2>1, <2>4, <3>2, <3>4
  <2> QED BY <2>5, <2>6, <2>7
<1> QED BY <1>1, <1>2, <1>3, <1>4 DEF ReadInv

\* What is asked for fits the text.
LEMMA HexedIs ==
    ASSUME NEW n \in Sizes
    PROVE  n \in Nat /\ Hexed(n) = 3 * n /\ 3 * n < HexRoom
<1>1. n \in Nat /\ 3 * n < HexRoom /\ HexRoom \in Nat
  BY MemAssumption
<1>2. {i \in 1..n : 3 * (i - 1) < HexRoom - 3} = 1..n
  BY <1>1
<1>3. Cardinality(1..n) = n
  <2>1. Cardinality(1..n) = IF 1 > n THEN 0 ELSE n - 1 + 1
    BY <1>1, FS_Interval
  <2> QED BY <1>1, <2>1
<1> QED BY <1>1, <1>2, <1>3 DEF Hexed

LEMMA ReadsOn ==
    ASSUME ReadInv, [WalkNext \/ ReadNext]_memVars
    PROVE  ReadInv'
<1>1. ASSUME NEW r \in MemReaders PROVE ReaderOk(read[r])
  BY DEF ReadInv
<1>2. ASSUME NEW r \in MemReaders, ReadHex(r) PROVE ReadInv'
  <2>1. PICK n \in Sizes : Reads(r, [Read0 EXCEPT !.pc = "find", !.size = n, !.of = {p \in Procs : HasPid(p)}])
    BY <1>2 DEF ReadHex
  <2>2. PICK of : of = {p \in Procs : HasPid(p)}
    OBVIOUS
  <2>3. PICK x : x = [Read0 EXCEPT !.pc = "find", !.size = n, !.of = of]
    OBVIOUS
  <2>4. DOMAIN x = ReadFields /\ x.pc = "find" /\ x.mm = FALSE /\ x.of = of /\ x.size = n /\ x.got = 0
    BY <2>3 DEF Read0, ReadFields
  <2>5. ReaderOk(x)
    BY <2>2, <2>4 DEF ReaderOk, Reading
  <2>6. read[r].pc = "idle" /\ users' = users /\ life' = life
    BY <1>2 DEF ReadHex, KeepLife
  <2>7. ~read[r].mm /\ ~x.mm
    BY <1>1, <2>4, <2>6 DEF ReaderOk, Reading
  <2>8. Reads(r, x)
    BY <2>1, <2>2, <2>3
  <2> QED BY <2>5, <2>6, <2>7, <2>8, OneReads
<1>3. ASSUME NEW u, NEW s, ReaderOk(u), u.got = 0
      PROVE  ReaderOk(Answer(u, s)) /\ ~Answer(u, s).mm
  <2>1. PICK x : x = Answer(u, s)
    OBVIOUS
  <2>2. DOMAIN x = ReadFields /\ x.pc = "done" /\ x.mm = FALSE /\ x.got = u.got /\ x.size = u.size
    BY <1>3, <2>1 DEF ReaderOk, Answer, ReadFields
  <2>3. ReaderOk(x) /\ ~x.mm
    BY <1>3, <2>2 DEF ReaderOk, Reading
  <2> QED BY <2>1, <2>3
<1>4. ASSUME NEW r \in MemReaders, FindTask(r) PROVE ReadInv'
  <2> DEFINE u == read[r]
  <2>1. u.pc = "find" /\ users' = users /\ life' = life /\ ReaderOk(u)
    BY <1>1, <1>4 DEF FindTask, KeepLife
  <2>2. ~u.mm /\ u.got = 0
    BY <2>1 DEF ReaderOk, Reading
  <2>3. CASE \E p \in Procs : HasPid(p)
    <3>1. PICK p \in Procs : HasPid(p) /\ p = CHOOSE q \in Procs : HasPid(q)
      BY <2>3
    <3>2. PICK x : x = [u EXCEPT !.pc = "mm", !.task = p]
      OBVIOUS
    <3>3. Reads(r, x)
      BY <1>4, <2>3, <3>1, <3>2 DEF FindTask
    <3>4. /\ DOMAIN x = ReadFields /\ x.pc = "mm" /\ x.mm = u.mm /\ x.of = u.of /\ x.size = u.size
          /\ x.got = u.got /\ x.task = p
      BY <2>1, <3>2 DEF ReaderOk, ReadFields
    <3>5. p \in u.of /\ Alive(p)
      BY <2>1, <3>1 DEF ReaderOk, HasPid, Alive
    <3>6. ReaderOk(x)
      BY <2>1, <2>2, <3>4, <3>5 DEF ReaderOk, Reading
    <3> QED BY <2>1, <2>2, <3>3, <3>4, <3>6, OneReads
  <2>4. CASE ~\E p \in Procs : HasPid(p)
    <3>1. Reads(r, Answer(u, "ESRCH"))
      BY <1>4, <2>4 DEF FindTask
    <3>2. ReaderOk(Answer(u, "ESRCH")) /\ ~Answer(u, "ESRCH").mm
      BY <1>3, <2>1, <2>2
    <3> HIDE DEF u
    <3> QED BY <2>1, <2>2, <3>1, <3>2, OneReads DEF u
  <2> QED BY <2>3, <2>4
<1>5. ASSUME NEW r \in MemReaders, GetMm(r) PROVE ReadInv'
  <2> DEFINE u == read[r]
  <2>1. u.pc = "mm" /\ life' = life /\ ReaderOk(u)
    BY <1>1, <1>5 DEF GetMm, KeepLife
  <2>2. ~u.mm /\ u.got = 0 /\ u.task \in Procs /\ u.task \in u.of /\ Alive(u.task)
    BY <2>1 DEF ReaderOk, Reading
  <2>3. CASE life[u.task] = "running"
    <3>1. PICK x : x = [u EXCEPT !.pc = "access", !.mm = TRUE]
      OBVIOUS
    <3>2. Reads(r, x) /\ users' = [users EXCEPT ![u.task] = @ + 1]
      BY <1>5, <2>3, <3>1 DEF GetMm
    <3>3. /\ DOMAIN x = ReadFields /\ x.pc = "access" /\ x.mm = TRUE /\ x.of = u.of /\ x.size = u.size
          /\ x.got = u.got /\ x.task = u.task
      BY <2>1, <3>1 DEF ReaderOk, ReadFields
    <3>4. ReaderOk(x)
      BY <2>1, <2>2, <3>3 DEF ReaderOk, Reading
    <3> QED BY <2>1, <2>2, <3>2, <3>3, <3>4, OneReads
  <2>4. CASE life[u.task] # "running"
    <3>1. Reads(r, Answer(u, "EINVAL")) /\ users' = users
      BY <1>5, <2>4 DEF GetMm
    <3>2. ReaderOk(Answer(u, "EINVAL")) /\ ~Answer(u, "EINVAL").mm
      BY <1>3, <2>1, <2>2
    <3> HIDE DEF u
    <3> QED BY <2>1, <2>2, <3>1, <3>2, OneReads DEF u
  <2> QED BY <2>3, <2>4
<1>6. ASSUME NEW r \in MemReaders, Access(r) PROVE ReadInv'
  <2> DEFINE u == read[r]
  <2>1. u.pc = "access" /\ users' = users /\ life' = life /\ ReaderOk(u)
    BY <1>1, <1>6 DEF Access, KeepLife
  <2>2. u.mm /\ u.task \in Procs /\ u.task \in u.of /\ Alive(u.task) /\ u.size \in Sizes \cup {0}
    BY <2>1 DEF ReaderOk, Reading
  <2>3. PICK n \in {0, u.size} : Reads(r, [u EXCEPT !.pc = "put", !.got = n])
    BY <1>6 DEF Access
  <2>4. PICK x : x = [u EXCEPT !.pc = "put", !.got = n]
    OBVIOUS
  <2>5. /\ DOMAIN x = ReadFields /\ x.pc = "put" /\ x.mm = u.mm /\ x.of = u.of /\ x.size = u.size
        /\ x.got = n /\ x.task = u.task
    BY <2>1, <2>4 DEF ReaderOk, ReadFields
  <2>6. ReaderOk(x)
    BY <2>2, <2>5 DEF ReaderOk, Reading
  <2> QED BY <2>1, <2>2, <2>3, <2>4, <2>5, <2>6, OneReads
<1>7. ASSUME NEW r \in MemReaders, PutMm(r) PROVE ReadInv'
  <2> DEFINE u == read[r]
  <2>1. u.pc = "put" /\ life' = life /\ ReaderOk(u)
    BY <1>1, <1>7 DEF PutMm, KeepLife
  <2>2. u.mm /\ u.task \in Procs /\ u.task \in u.of /\ u.got \in Sizes \cup {0} /\ DOMAIN u = ReadFields
    BY <2>1 DEF ReaderOk, Reading
  <2>3. users' = [users EXCEPT ![u.task] = @ - 1]
    BY <1>7, <2>2 DEF PutMm, Put
  <2>4. CASE u.got = 0
    <3>1. Reads(r, Answer(u, "EFAULT"))
      BY <1>7, <2>4 DEF PutMm
    <3>2. ReaderOk(Answer(u, "EFAULT")) /\ ~Answer(u, "EFAULT").mm
      BY <1>3, <2>1, <2>4
    <3> HIDE DEF u
    <3> QED BY <2>1, <2>2, <2>3, <3>1, <3>2, OneReads DEF u
  <2>5. CASE u.got # 0
    <3>1. PICK g : g = u.got
      OBVIOUS
    <3>2. PICK h : h = Hexed(g)
      OBVIOUS
    <3>3. PICK x : x = [Answer(u, g) EXCEPT !.shown = h]
      OBVIOUS
    <3>4. Reads(r, x)
      BY <1>7, <2>5, <3>1, <3>2, <3>3 DEF PutMm
    <3>5. g \in Sizes /\ h = 3 * g
      BY <2>2, <2>5, <3>1, <3>2, HexedIs
    <3>6. /\ DOMAIN x = ReadFields /\ x.pc = "done" /\ x.mm = FALSE /\ x.of = u.of /\ x.size = u.size
          /\ x.got = g /\ x.task = u.task /\ x.ret = g /\ x.shown = h
      BY <2>2, <3>1, <3>3 DEF Answer, ReadFields
    <3>7. ReaderOk(x)
      BY <2>1, <2>2, <3>5, <3>6 DEF ReaderOk, Reading
    <3> QED BY <2>1, <2>2, <2>3, <3>4, <3>6, <3>7, OneReads
  <2> QED BY <2>4, <2>5
<1>8. ASSUME NEW p \in Procs, Born(p) PROVE ReadInv'
  <2>1. life[p] = "unborn" /\ life' = [life EXCEPT ![p] = "running"] /\ users' = [users EXCEPT ![p] = 1]
    BY <1>8 DEF Born
  <2>2. ASSUME NEW q \in Procs, q # p PROVE life'[q] = life[q] /\ users'[q] = users[q]
    BY <2>1, <2>2 DEF ReadInv
  <2>3. life'[p] = "running" /\ users'[p] = 1 /\ DOMAIN life' = Procs /\ DOMAIN users' = Procs
    BY <2>1 DEF ReadInv
  <2>4. read' = [r \in MemReaders |-> IF read[r].pc \in {"idle", "done"} THEN read[r]
                                      ELSE [read[r] EXCEPT !.of = @ \cup {p}]]
    BY <1>8 DEF Born
  <2>5. ASSUME NEW r \in MemReaders
        PROVE  /\ DOMAIN read'[r] = ReadFields /\ read'[r].pc = read[r].pc /\ read'[r].mm = read[r].mm
               /\ read'[r].task = read[r].task /\ read'[r].size = read[r].size /\ read'[r].got = read[r].got
               /\ read'[r].ret = read[r].ret /\ read'[r].shown = read[r].shown
               /\ read'[r].of = (IF read[r].pc \in {"idle", "done"} THEN read[r].of ELSE read[r].of \cup {p})
    <3>1. PICK u : u = read[r]
      OBVIOUS
    <3>2. DOMAIN u = ReadFields
      BY <1>1, <3>1 DEF ReaderOk
    <3>3. read'[r] = IF u.pc \in {"idle", "done"} THEN u ELSE [u EXCEPT !.of = @ \cup {p}]
      BY <2>4, <3>1
    <3> QED BY <3>1, <3>2, <3>3 DEF ReadFields
  <2>6. ASSUME NEW r \in MemReaders PROVE ReaderOk(read[r])'
    <3>1. PICK u : u = read[r]
      OBVIOUS
    <3>2. PICK x : x = read'[r]
      OBVIOUS
    <3>3. /\ DOMAIN x = ReadFields /\ x.pc = u.pc /\ x.mm = u.mm /\ x.task = u.task /\ x.size = u.size
          /\ x.got = u.got /\ x.ret = u.ret /\ x.shown = u.shown
          /\ x.of = IF u.pc \in {"idle", "done"} THEN u.of ELSE u.of \cup {p}
      BY <2>5, <3>1, <3>2
    <3>4. ReaderOk(u)
      BY <1>1, <3>1
    <3>5. \A q \in Procs : HasPid(q)' => HasPid(q) \/ q = p
      BY <2>2 DEF HasPid
    <3>6. \A q \in Procs : Alive(q) => Alive(q)'
      BY <2>2, <2>3 DEF Alive
    <3>7. x.pc = "find" => \A q \in Procs : HasPid(q)' => q \in x.of
      BY <3>3, <3>4, <3>5 DEF ReaderOk
    <3>8. x.pc \in Reading \cup {"mm"} => x.task \in Procs /\ x.task \in x.of /\ Alive(x.task)'
      BY <3>3, <3>4, <3>6 DEF ReaderOk, Reading
    <3>9. /\ DOMAIN x = ReadFields /\ x.mm \in BOOLEAN /\ (x.mm <=> x.pc \in Reading)
          /\ x.size \in Sizes \cup {0} /\ x.got \in Sizes \cup {0} /\ (x.got # 0 => x.pc \in {"put", "done"})
          /\ x.pc = "done" /\ x.got # 0 => x.ret = x.got /\ x.shown = 3 * x.got /\ x.task \in x.of
      BY <3>3, <3>4 DEF ReaderOk
    <3> QED BY <3>2, <3>7, <3>8, <3>9 DEF ReaderOk, HasPid, Alive
  <2>7. ASSUME NEW q \in Procs PROVE HoldersOf(q)' = HoldersOf(q)
    BY <2>5 DEF HoldersOf
  <2>8. HoldersOf(p) = {}
    <3>1. ASSUME NEW r \in MemReaders, read[r].mm, read[r].task = p PROVE FALSE
      BY <1>1, <2>1, <3>1 DEF ReaderOk, Alive
    <3> QED BY <3>1 DEF HoldersOf
  <2>9. ASSUME NEW q \in Procs PROVE users'[q] = Own(q)' + Cardinality(HoldersOf(q)')
    <3>1. CASE q = p
      <4>1. Cardinality(HoldersOf(q)') = 0 /\ Own(q)' = 1
        BY <2>3, <2>7, <2>8, <3>1, FS_EmptySet DEF Own
      <4> QED BY <2>3, <3>1, <4>1
    <3>2. CASE q # p
      <4>1. Own(q)' = Own(q) /\ users'[q] = users[q] /\ HoldersOf(q)' = HoldersOf(q)
        BY <2>2, <2>7, <3>2 DEF Own
      <4> QED BY <4>1 DEF ReadInv
    <3> QED BY <3>1, <3>2
  <2>10. DOMAIN read' = MemReaders
    BY <2>4
  <2> QED BY <2>3, <2>6, <2>9, <2>10 DEF ReadInv
<1>9. ASSUME NEW p \in Procs, Dies(p) PROVE ReadInv'
  <2>1. read' = read /\ DOMAIN life' = Procs /\ DOMAIN users' = Procs /\ life[p] # "unborn"
    BY <1>9 DEF Dies, ReadInv
  <2>2. \A q \in Procs : q # p => life'[q] = life[q] /\ users'[q] = users[q]
    BY <1>9 DEF Dies, ReadInv
  <2>3. \A q \in Procs : HasPid(q)' => HasPid(q)
    BY <1>9, <2>2 DEF Dies, HasPid, ReadInv
  <2>4. life'[p] # "unborn" /\ life'[p] # "running"
    BY <1>9 DEF Dies, ReadInv
  <2>5. \A q \in Procs : Alive(q) => Alive(q)'
    BY <2>2, <2>4 DEF Alive
  <2>6. ASSUME NEW r \in MemReaders PROVE ReaderOk(read[r])'
    <3>1. PICK u : u = read[r] /\ u = read'[r] /\ ReaderOk(u)
      BY <1>1, <2>1
    <3> QED BY <2>3, <2>5, <3>1 DEF ReaderOk, Reading
  <2>7. ASSUME NEW q \in Procs PROVE users'[q] = Own(q)' + Cardinality(HoldersOf(q)')
    <3>1. HoldersOf(q)' = HoldersOf(q) /\ users[q] = Own(q) + Cardinality(HoldersOf(q))
      BY <2>1 DEF HoldersOf, ReadInv
    <3>2. Cardinality(HoldersOf(q)) \in Nat
      BY HoldersFinite
    <3>3. CASE q # p
      BY <2>2, <3>1, <3>3 DEF Own
    <3>4. CASE q = p
      <4>1. CASE life[p] = "running" /\ users' = [users EXCEPT ![p] = @ - 1]
        <5>1. users'[p] = users[p] - 1
          BY <4>1 DEF ReadInv
        <5> QED BY <2>4, <3>1, <3>2, <3>4, <4>1, <5>1 DEF Own
      <4>2. CASE life[p] # "running" /\ users' = users
        BY <2>4, <3>1, <3>4, <4>2 DEF Own
      <4> QED BY <1>9, <4>1, <4>2 DEF Dies
    <3> QED BY <3>3, <3>4
  <2> QED BY <2>1, <2>6, <2>7 DEF ReadInv
<1>10. CASE WalkNext \/ UNCHANGED memVars
  <2>1. UNCHANGED readVars0
    BY <1>10 DEF WalkNext, unwind_user_stack_standard, my_unwind_compat, TryLock, Find, Outside, LookBack,
                 GetPage, FilePath, PrintAnon, Unlock, WalkDone, WriteLock, Remap, Scribble, KeepMap, memVars
  <2>2. life' = life /\ users' = users /\ read' = read
    BY <2>1 DEF readVars0
  <2> QED BY <2>2 DEF ReadInv, ReaderOk, HasPid, Alive, Own, HoldersOf
<1> QED BY <1>2, <1>4, <1>5, <1>6, <1>7, <1>8, <1>9, <1>10 DEF ReadNext

LEMMA ReadsStart ==
    ASSUME MemInit
    PROVE  ReadInv
<1>1. /\ life = [p \in Procs |-> "unborn"] /\ users = [p \in Procs |-> 0]
      /\ read = [r \in MemReaders |-> Read0]
  BY DEF MemInit
<1>2. ASSUME NEW r \in MemReaders PROVE ReaderOk(read[r])
  <2>1. PICK u : u = read[r]
    OBVIOUS
  <2>2. DOMAIN u = ReadFields /\ u.pc = "idle" /\ u.mm = FALSE /\ u.size = 0 /\ u.got = 0
    BY <1>1, <2>1 DEF Read0, ReadFields
  <2>3. ReaderOk(u)
    BY <2>2 DEF ReaderOk, Reading
  <2> QED BY <2>1, <2>3
<1>3. ASSUME NEW p \in Procs PROVE users[p] = Own(p) + Cardinality(HoldersOf(p))
  <2>1. HoldersOf(p) = {}
    BY <1>1 DEF HoldersOf, Read0
  <2>2. users[p] = 0 /\ Own(p) = 0
    BY <1>1 DEF Own
  <2>3. Cardinality(HoldersOf(p)) = 0
    BY <2>1, FS_EmptySet
  <2> QED BY <2>2, <2>3
<1> QED BY <1>1, <1>2, <1>3 DEF ReadInv

LEMMA ReadsSound ==
    ASSUME ReadInv
    PROVE  ReadsAreTrue
<1>1. ASSUME NEW r \in MemReaders, read[r].pc = "done", read[r].got > 0
      PROVE  /\ read[r].ret = read[r].got /\ read[r].shown = 3 * read[r].got
             /\ read[r].task \in read[r].of /\ read[r].shown < HexRoom
  <2>1. ReaderOk(read[r])
    BY DEF ReadInv
  <2>2. read[r].got # 0 /\ read[r].got \in Sizes
    BY <1>1, <2>1 DEF ReaderOk
  <2> QED BY <1>1, <2>1, <2>2, HexedIs DEF ReaderOk
<1> QED BY <1>1 DEF ReadInv, ReadsAreTrue, Own, HoldersOf

\* Who walks a stack names each place by the file that is mapped there, keeps
\* no lock and no page between two places, and goes up; who reads a process
\* gets what it says, and leaves the references to its map as they were:
\* whatever is mapped, scribbled on and killed meanwhile, when no file has
\* more segments than are looked back over.
THEOREM WalksAndReads == ShortFiles => (MemSpec => []WalksAndReadsAreTrue)
<1> SUFFICES ASSUME ShortFiles PROVE MemSpec => []WalksAndReadsAreTrue
  OBVIOUS
<1>1. MemInit => WalkInv /\ ReadInv
  BY WalkStarts, ReadsStart
<1>2. WalkInv /\ ReadInv /\ [WalkNext \/ ReadNext]_memVars => (WalkInv /\ ReadInv)'
  BY WalksOn, ReadsOn
<1>3. WalkInv /\ ReadInv => WalksAndReadsAreTrue
  BY WalksSound, ReadsSound DEF WalksAndReadsAreTrue
<1> QED BY <1>1, <1>2, <1>3, PTL DEF MemSpec

-----------------------------------------------------------------------------
(* The tracing module comes and goes *)

Calls == {"do_faccessat", "do_sys_openat2", "do_sys_open"} \cup ToSet(Kills)
Opens == {"do_sys_openat2", "do_sys_open"}
CanOpen == Opens \cap tkernel.has \cap tkernel.wraps
\* Step by step of kpm_init: what is wrapped is what the places say.
Entered ==
    /\ wrapped = {place[s] : s \in DOMAIN place} \ {NoFunction}
    /\ place["access"] = "do_faccessat"
HookInv ==
    /\ DOMAIN place = {"access", "openat", "kill"}
    /\ place["openat"] \in Opens \cup {NoFunction} /\ place["kill"] \in ToSet(Kills) \cup {NoFunction}
    /\ tlife \in {"access", "openat", "open", "kill", "up", "failed", "gone"}
    /\ tlife = "access" => wrapped = {}
    /\ tlife \in {"openat", "open", "kill", "up"} => Entered
    /\ tlife \in {"access", "openat", "open"} => place["openat"] = NoFunction
    /\ tlife = "open" => "do_sys_openat2" \notin CanOpen
    /\ tlife \in {"kill", "up"} => (CanOpen # {} => place["openat"] # NoFunction)
    /\ tlife \in {"access", "openat", "open", "kill", "failed"} => place["kill"] = NoFunction
    /\ tlife = "failed" => wrapped = {}
    /\ tlife = "gone" => wrapped = {} /\ slots = NoBps

\* The three names of the call that kpm_init tries.
LEMMA KillsAre == ToSet(Kills) = {"__arm64_sys_kill", "__sys_kill", "sys_kill"} /\ DOMAIN Kills = {1, 2, 3}
BY DEF ToSet, Kills

\* The one it takes is one of those it found.
LEMMA KillFound ==
    ASSUME NEW S \in SUBSET (DOMAIN Kills), S # {}
    PROVE  Min(S) \in S
<1>1. S \subseteq {1, 2, 3}
  BY KillsAre
<1>2. \E n \in S : \A m \in S : n <= m
  <2>1. CASE 1 \in S
    BY <1>1, <2>1
  <2>2. CASE 1 \notin S /\ 2 \in S
    BY <1>1, <2>2
  <2>3. CASE 1 \notin S /\ 2 \notin S
    BY <1>1, <2>3
  <2> QED BY <2>1, <2>2, <2>3
<1> QED BY <1>2 DEF Min

\* Every step of kpm_init and kpm_exit, and every command, keeps HookInv.
LEMMA HookHolds == TraceSpec => []HookInv
<1>1. TraceInit => HookInv
  <2> SUFFICES ASSUME TraceInit PROVE HookInv
    OBVIOUS
  <2>1. place = [s \in {"access", "openat", "kill"} |-> NoFunction] /\ wrapped = {} /\ tlife = "access"
    BY DEF TraceInit
  <2> QED BY <2>1 DEF HookInv
<1>2. HookInv /\ [TraceNext]_traceVars => HookInv'
  <2> SUFFICES ASSUME HookInv, [TraceNext]_traceVars PROVE HookInv'
    OBVIOUS
  <2>1. CASE init_access /\ UNCHANGED <<tkernel, slots, reply>>
    <3>1. wrapped = {} /\ tlife = "access" /\ DOMAIN place = {"access", "openat", "kill"}
      BY <2>1 DEF HookInv, init_access
    <3>2. CASE HookWrap("do_faccessat", "access", "openat", "failed")
      <4>1. place' = [place EXCEPT !["access"] = "do_faccessat"]
        BY <3>2 DEF HookWrap
      <4>2. CASE "do_faccessat" \in tkernel.wraps
        <5>1. wrapped' = {"do_faccessat"} /\ tlife' = "openat"
          BY <3>1, <3>2, <4>2 DEF HookWrap
        <5>2. place["openat"] = NoFunction /\ place["kill"] = NoFunction
          BY <3>1 DEF HookInv
        <5> QED BY <3>1, <4>1, <5>1, <5>2 DEF HookInv, Entered, NoFunction
      <4>3. CASE "do_faccessat" \notin tkernel.wraps
        <5>1. wrapped' = {} /\ tlife' = "failed"
          BY <3>1, <3>2, <4>3 DEF HookWrap
        <5> QED BY <3>1, <4>1, <5>1 DEF HookInv
      <4> QED BY <4>2, <4>3
    <3>3. CASE Pass("failed")
      BY <3>1, <3>3 DEF HookInv, Pass
    <3> QED BY <2>1, <3>2, <3>3 DEF init_access
  <2>2. CASE init_openat /\ UNCHANGED <<tkernel, slots, reply>>
    BY <2>2 DEF HookInv, init_openat, HookWrap, Pass, Entered, NoFunction, CanOpen, Opens
  <2>3. CASE init_open /\ UNCHANGED <<tkernel, slots, reply>>
    BY <2>3 DEF HookInv, init_open, HookWrap, Pass, Entered, NoFunction, CanOpen, Opens
  <2>4. CASE init_kill /\ UNCHANGED <<tkernel, slots, reply>>
    <3> DEFINE found == {i \in DOMAIN Kills : Kills[i] \in tkernel.has}
    <3>1. PICK f : f = Kills[Min(found)]
      OBVIOUS
    <3>2. IF found # {} THEN HookWrap(f, "kill", "up", "up") ELSE Pass("up")
      BY <2>4, <3>1 DEF init_kill
    <3>3. found # {} => f \in ToSet(Kills)
      BY <3>1, KillFound DEF ToSet
    <3> HIDE DEF found
    <3>4. tlife = "kill"
      BY <2>4 DEF init_kill
    <3>5. NoFunction \notin ToSet(Kills)
      BY KillsAre DEF NoFunction
    <3>6. CASE found # {} /\ f \in tkernel.wraps
      BY <2>4, <3>2, <3>3, <3>4, <3>5, <3>6 DEF HookInv, HookWrap, Entered, CanOpen
    <3>7. CASE ~(found # {} /\ f \in tkernel.wraps)
      BY <2>4, <3>2, <3>3, <3>4, <3>5, <3>7 DEF HookInv, HookWrap, Pass, Entered, CanOpen
    <3> QED BY <3>6, <3>7
  <2>5. CASE kpm_exit
    <3>1. wrapped \subseteq {place[s] : s \in DOMAIN place}
      BY <2>5 DEF HookInv, kpm_exit, Entered
    <3> QED BY <2>5, <3>1 DEF HookInv, kpm_exit, Entered
  <2>6. CASE \E line \in Lines : kpm_command(line)
    BY <2>6 DEF HookInv, kpm_command, Entered, CanOpen
  <2>7. CASE UNCHANGED traceVars
    BY <2>7 DEF HookInv, traceVars, Entered, CanOpen
  <2> QED BY <2>1, <2>2, <2>3, <2>4, <2>5, <2>6, <2>7 DEF TraceNext, kpm_init
<1> QED BY <1>1, <1>2, PTL DEF TraceSpec

\* Whatever the kernel exports and hook_wrap takes, wherever kpm_init stops: each
\* kind of call is hooked once, and kpm_exit takes every hook off again.
THEOREM TracerLeaves == TraceSpec => []HooksComeAndGo
<1>1. HookInv => HooksComeAndGo
  <2> SUFFICES ASSUME HookInv PROVE HooksComeAndGo
    OBVIOUS
  <2>1. \/ wrapped = {}
        \/ wrapped = {place["access"], place["openat"], place["kill"]} \ {NoFunction} /\ place["access"] = "do_faccessat"
    BY DEF HookInv, Entered
  <2>2. wrapped \cap ToSet(Kills) \subseteq {place["kill"]}
    BY <2>1, KillsAre DEF HookInv, Opens
  <2>3. Cardinality(wrapped \cap ToSet(Kills)) <= 1
    <3>1. IsFiniteSet({place["kill"]}) /\ Cardinality({place["kill"]}) = 1
      BY FS_Singleton
    <3>2. /\ IsFiniteSet(wrapped \cap ToSet(Kills))
          /\ Cardinality(wrapped \cap ToSet(Kills)) <= Cardinality({place["kill"]})
      BY <2>2, <3>1, FS_Subset
    <3> QED BY <3>1, <3>2
  <2>4. ~(Opens \subseteq wrapped)
    BY <2>1, KillsAre DEF HookInv, Opens
  <2>5. tlife = "up" => Entered /\ (CanOpen # {} => Opens \cap wrapped # {})
    BY DEF HookInv, Entered
  <2>6. tlife = "up" => "do_faccessat" \in wrapped
    BY <2>5 DEF HookInv, Entered, NoFunction
  <2> QED BY <2>3, <2>4, <2>5, <2>6 DEF HookInv, HooksComeAndGo, Entered, Opens, CanOpen
<1> QED BY <1>1, HookHolds, PTL
=============================================================================
