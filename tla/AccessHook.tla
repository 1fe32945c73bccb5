----------------------------- MODULE AccessHook -----------------------------
(***************************************************************************)
(* accessOffstinlineHook.c: which calls of the hooked kernel functions are *)
(* reported, and what is counted, while control commands change switches,  *)
(* filters and counters.                                                   *)
(*                                                                         *)
(* The before-callbacks run in every process that calls a hooked function; *)
(* kpm_control runs in the process that sends the command.  Both work on   *)
(* module_state with no lock.  A load, a store or a pass of the filter     *)
(* loop is one step; the compiler keeps them in program order, because     *)
(* every pass calls functions of the kernel.                               *)
(***************************************************************************)
EXTENDS Integers, FiniteSets

CONSTANTS
    MAX_FILTERS,   \* 16 in accessOffstinlineHook.c
    Process,       \* tasks that call hooked functions, one call at a time
    Filter,        \* filters a command may add
    Matches,       \* Matches[f]: processes with f's pid, or its name in theirs
    Caller,        \* threads that send control commands
    Command,       \* the commands they send
    NULL,
    MaxCommands,   \* bound: control commands
    MaxCalls       \* bound: calls of hooked functions

Kind == {"access", "openat", "kill"}
Index == 0 .. MAX_FILTERS - 1
Commands == {"enable", "disable", "enable_kind", "disable_kind", "reset_counters",
             "set_whitelist", "set_blacklist", "clear_filters", "add_filter"}

ASSUME AccessAssumption ==
    /\ MAX_FILTERS \in Nat \ {0} /\ MaxCommands \in Nat /\ MaxCalls \in Nat
    /\ Matches \in [Filter -> SUBSET Process]
    /\ Command \subseteq Commands
    /\ NULL \notin Filter

VARIABLES
    hook_enabled, kind_enabled,     \* the switches; one per hooked function
    filter_mode, filters, filter_count,
    count,                          \* access_, openat_, kill_hook_count
    call,                           \* callbacks in progress
    ctl,                            \* control commands in progress
    hooked,                         \* history: calls reported
    recent,                         \* history: of these, counted or still to be
                                    \* since the last reset
    torn,                           \* history: a reset came between the load and the
                                    \* store of an increment
    commands, calls

hist == <<hooked, recent, torn>>
config == <<filter_mode, filters, filter_count>>
vars == <<hook_enabled, kind_enabled, config, count, call, ctl, hist, commands, calls>>

Idle == [pc |-> "idle", kind |-> "access", i |-> 0, hit |-> FALSE, hook |-> FALSE,
         n |-> 0, yes |-> FALSE, no |-> FALSE, cleared |-> FALSE]
IdleCtl == [pc |-> "idle", i |-> 0, f |-> NULL]

Init ==
    /\ hook_enabled = FALSE /\ kind_enabled = [k \in Kind |-> FALSE]
    /\ filter_mode = "whitelist"
    /\ filters = [i \in Index |-> NULL] /\ filter_count = 0
    /\ count = [k \in Kind |-> 0]
    /\ call = [p \in Process |-> Idle]
    /\ ctl = [c \in Caller |-> IdleCtl]
    /\ hooked = [k \in Kind |-> 0] /\ recent = [k \in Kind |-> 0]
    /\ torn = FALSE
    /\ commands = MaxCommands /\ calls = MaxCalls

-----------------------------------------------------------------------------
(* What a configuration says of a process, and the history of the answers  *)
(* each call in progress could have had                                    *)

\* should_hook_process for p, run on a configuration that does not change: the
\* mode, the table and its length.
Should(p, mode, fs, n) ==
    \/ n = 0
    \/ (\E i \in Index : i < n /\ fs[i] # NULL /\ p \in Matches[fs[i]]) <=> mode = "whitelist"

Deciding(p) == call[p].pc \in {"scan", "mode"}

\* Every call still deciding has now also seen the new configuration.
Witness(clear) ==
    call' = [p \in Process |->
        IF Deciding(p)
        THEN [call[p] EXCEPT !.yes = @ \/ Should(p, filter_mode', filters', filter_count'),
                             !.no = @ \/ ~Should(p, filter_mode', filters', filter_count'),
                             !.cleared = @ \/ clear]
        ELSE call[p]]

-----------------------------------------------------------------------------
(* The callbacks *)

\* before_*: with the switches off the function just runs; without filters
\* should_hook_process says yes at once.
Enter(p, k) ==
    /\ call[p].pc = "idle" /\ calls > 0
    /\ calls' = calls - 1
    /\ hook_enabled /\ kind_enabled[k]
    /\ call' = [call EXCEPT ![p] =
           [Idle EXCEPT !.pc = IF filter_count = 0 THEN "decided" ELSE "scan",
                        !.kind = k, !.hook = filter_count = 0,
                        !.yes = Should(p, filter_mode, filters, filter_count),
                        !.no = ~Should(p, filter_mode, filters, filter_count)]]
    /\ UNCHANGED <<hook_enabled, kind_enabled, config, count, ctl, hist, commands>>

\* Mutant: the loop leaves out the last filter.
ScanShort(p) ==
    LET i == call[p].i IN
    /\ call[p].pc = "scan"
    /\ \/ /\ i + 1 < filter_count
          /\ call' = IF i \in Index /\ filters[i] # NULL /\ p \in Matches[filters[i]]
                     THEN [call EXCEPT ![p].pc = "mode", ![p].hit = TRUE]
                     ELSE [call EXCEPT ![p].i = i + 1]
       \/ /\ i + 1 >= filter_count
          /\ call' = [call EXCEPT ![p].pc = "mode"]
    /\ UNCHANGED <<hook_enabled, kind_enabled, config, count, ctl, hist,
                   commands, calls>>

\* One pass: the loop's test, then the filter, skipped when it is not active.
Scan(p) ==
    LET i == call[p].i IN
    /\ call[p].pc = "scan"
    /\ \/ /\ i < filter_count
          /\ call' = IF i \in Index /\ filters[i] # NULL /\ p \in Matches[filters[i]]
                     THEN [call EXCEPT ![p].pc = "mode", ![p].hit = TRUE]
                     ELSE [call EXCEPT ![p].i = i + 1]
       \/ /\ i >= filter_count
          /\ call' = [call EXCEPT ![p].pc = "mode"]
    /\ UNCHANGED <<hook_enabled, kind_enabled, config, count, ctl, hist,
                   commands, calls>>

\* The mode is read last, whether or not a filter matched.
Decide(p) ==
    /\ call[p].pc = "mode"
    /\ call' = [call EXCEPT ![p].pc = "decided",
                            ![p].hook = call[p].hit <=> filter_mode = "whitelist"]
    /\ UNCHANGED <<hook_enabled, kind_enabled, config, count, ctl, hist,
                   commands, calls>>

\* A call that is filtered out, or a kill whose arguments look invalid.
Skip(p) ==
    /\ call[p].pc = "decided"
    /\ ~call[p].hook \/ call[p].kind = "kill"
    /\ call' = [call EXCEPT ![p] = Idle]
    /\ UNCHANGED <<hook_enabled, kind_enabled, config, count, ctl, hist,
                   commands, calls>>

\* count++ is a load and a store; no other instruction of the CPU protects it.
CountLoad(p) ==
    /\ call[p].pc = "decided" /\ call[p].hook
    /\ call' = [call EXCEPT ![p].pc = "store", ![p].n = count[call[p].kind]]
    /\ hooked' = [hooked EXCEPT ![call[p].kind] = @ + 1]
    /\ recent' = [recent EXCEPT ![call[p].kind] = @ + 1]
    /\ UNCHANGED <<hook_enabled, kind_enabled, config, count, ctl, torn, commands, calls>>

CountStore(p) ==
    /\ call[p].pc = "store"
    /\ count' = [count EXCEPT ![call[p].kind] = call[p].n + 1]
    /\ call' = [call EXCEPT ![p] = Idle]
    /\ UNCHANGED <<hook_enabled, kind_enabled, config, ctl, hist, commands, calls>>

-----------------------------------------------------------------------------
(* kpm_control *)

Receive(c, command) ==
    /\ command \in Command
    /\ ctl[c].pc = "idle" /\ commands > 0
    /\ commands' = commands - 1

\* enable, disable, enable_access, ...
Switch(c) ==
    /\ \/ /\ Receive(c, "enable") /\ hook_enabled' = TRUE /\ UNCHANGED kind_enabled
       \/ /\ Receive(c, "disable") /\ hook_enabled' = FALSE /\ UNCHANGED kind_enabled
       \/ \E k \in Kind :
             /\ \/ /\ Receive(c, "enable_kind")
                   /\ kind_enabled' = [kind_enabled EXCEPT ![k] = TRUE]
                \/ /\ Receive(c, "disable_kind")
                   /\ kind_enabled' = [kind_enabled EXCEPT ![k] = FALSE]
             /\ UNCHANGED hook_enabled
    /\ UNCHANGED <<config, count, call, ctl, hist, calls>>

Reset ==
    /\ recent' = [k \in Kind |-> 0]
    /\ torn' = (torn \/ \E p \in Process : call[p].pc = "store")
    /\ UNCHANGED <<hook_enabled, kind_enabled, config, call, ctl, hooked, calls>>

\* Mutant: the kill counter is forgotten.
ResetCountersTwo(c) ==
    /\ Receive(c, "reset_counters")
    /\ count' = [count EXCEPT !["access"] = 0, !["openat"] = 0]
    /\ Reset

\* The three stores are one step: no callback reads more than one counter.
ResetCounters(c) ==
    /\ Receive(c, "reset_counters")
    /\ count' = [k \in Kind |-> 0]
    /\ Reset

SetMode(c) ==
    /\ \/ Receive(c, "set_whitelist") /\ filter_mode' = "whitelist"
       \/ Receive(c, "set_blacklist") /\ filter_mode' = "blacklist"
    /\ UNCHANGED <<filters, filter_count>>
    /\ Witness(FALSE)
    /\ UNCHANGED <<hook_enabled, kind_enabled, count, ctl, hist, calls>>

ClearFilters(c) ==
    /\ Receive(c, "clear_filters")
    /\ filter_count' = 0
    /\ UNCHANGED <<filter_mode, filters>>
    /\ ctl' = [ctl EXCEPT ![c] = [IdleCtl EXCEPT !.pc = "wipe"]]
    /\ Witness(TRUE)
    /\ UNCHANGED <<hook_enabled, kind_enabled, count, hist, calls>>

\* The loop that deactivates every entry, used or not.
ClearEntry(c) ==
    LET i == ctl[c].i IN
    /\ ctl[c].pc = "wipe"
    /\ filters' = [filters EXCEPT ![i] = NULL]
    /\ UNCHANGED <<filter_mode, filter_count>>
    /\ ctl' = [ctl EXCEPT ![c] = IF i + 1 \in Index THEN [@ EXCEPT !.i = i + 1] ELSE IdleCtl]
    /\ Witness(FALSE)
    /\ UNCHANGED <<hook_enabled, kind_enabled, count, hist, commands, calls>>

\* A full table (ENOMEM) and a malformed filter (EINVAL) change nothing.
AddFilter(c) ==
    /\ Receive(c, "add_filter")
    /\ filter_count < MAX_FILTERS
    /\ \E f \in Filter : ctl' = [ctl EXCEPT ![c] = [IdleCtl EXCEPT !.pc = "entry", !.f = f]]
    /\ UNCHANGED <<hook_enabled, kind_enabled, config, count, call, hist, calls>>

\* filters[filter_count] = f, with filter_count read again; past the table's
\* end the store hits whatever lies there.
AddEntry(c) ==
    /\ ctl[c].pc = "entry"
    /\ filters' = IF filter_count \in Index
                  THEN [filters EXCEPT ![filter_count] = ctl[c].f] ELSE filters
    /\ UNCHANGED <<filter_mode, filter_count>>
    /\ ctl' = [ctl EXCEPT ![c].pc = "load"]
    /\ Witness(FALSE)
    /\ UNCHANGED <<hook_enabled, kind_enabled, count, hist, commands, calls>>

\* filter_count++ is a load and a store.
AddLoad(c) ==
    /\ ctl[c].pc = "load"
    /\ ctl' = [ctl EXCEPT ![c].pc = "bump", ![c].i = filter_count]
    /\ UNCHANGED <<hook_enabled, kind_enabled, config, count, call, hist,
                   commands, calls>>

AddBump(c) ==
    /\ ctl[c].pc = "bump"
    /\ filter_count' = ctl[c].i + 1
    /\ UNCHANGED <<filter_mode, filters>>
    /\ ctl' = [ctl EXCEPT ![c] = IdleCtl]
    /\ Witness(FALSE)
    /\ UNCHANGED <<hook_enabled, kind_enabled, count, hist, commands, calls>>

-----------------------------------------------------------------------------
CallStep(p) == Scan(p) \/ Decide(p) \/ Skip(p) \/ CountLoad(p) \/ CountStore(p)

kpm_control(c) ==
    \/ Switch(c) \/ ResetCounters(c) \/ SetMode(c)
    \/ ClearFilters(c) \/ ClearEntry(c)
    \/ AddFilter(c) \/ AddEntry(c) \/ AddLoad(c) \/ AddBump(c)

Next ==
    \/ \E p \in Process : (\E k \in Kind : Enter(p, k)) \/ CallStep(p)
    \/ \E c \in Caller : kpm_control(c)

Spec == Init /\ [][Next]_vars

-----------------------------------------------------------------------------
(* Properties *)

\* A call is reported or skipped as some configuration says that was in force
\* while should_hook_process looked: the order in which it reads the table, its
\* length and last the mode, and in which add_filter fills the entry before it
\* raises filter_count, never mixes two configurations into a third answer.
\* Only clear_filters may make it skip a process that it should not.
DecisionsJustified ==
    \A p \in Process : call[p].pc = "decided" =>
        IF call[p].hook THEN call[p].yes ELSE call[p].no \/ call[p].cleared

\* The table never holds more than MAX_FILTERS filters, and those it holds were
\* all added completely: no callback reads an entry that is not there.
FilterTableBounded ==
    /\ filter_count <= MAX_FILTERS
    /\ \A i \in Index : i < filter_count => filters[i] # NULL

\* FILTER_GUIDE.md: the counters are reset to count the calls of a period.  An
\* increment under way when it comes undoes it; otherwise no counter exceeds what
\* was reported since the reset, whatever filters and switches do meanwhile.  In
\* no case does a counter run ahead of all the calls reported.
ResetTakesEffect ==
    \A k \in Kind : count[k] <= hooked[k] /\ (~torn => count[k] <= recent[k])

\* The module's filters (accessOffstinlineHook.c: should_hook_process,
\* add_filter, clear_filters): every decision has a configuration for it and the
\* table it is taken from is whole.
FiltersDecide == DecisionsJustified /\ FilterTableBounded
=============================================================================
