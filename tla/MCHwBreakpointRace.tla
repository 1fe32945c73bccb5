------------------------- MODULE MCHwBreakpointRace -------------------------
(* Instances of HwBreakpointRace: two slots, two kernel events.             *)
EXTENDS HwBreakpointRace

CONSTANTS c1, c2

MCMaxCalls == [c \in Caller |-> IF c = c1 THEN 3 ELSE 1]

\* Two that export modify_user_hw_breakpoint, one of which refuses some moves,
\* and one that does not.
MCKernels == {[modify |-> TRUE, refuses |-> FALSE], [modify |-> TRUE, refuses |-> TRUE],
              [modify |-> FALSE, refuses |-> FALSE]}
=============================================================================
