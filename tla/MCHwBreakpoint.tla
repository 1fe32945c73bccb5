--------------------------- MODULE MCHwBreakpoint ---------------------------
(***************************************************************************)
(* Instances of HwBreakpoint for TLC.  The program is a loop of three      *)
(* instructions whose second one writes and then reads a variable.         *)
(***************************************************************************)
EXTENDS HwBreakpoint

MCCode == 1 .. 3
MCData == {9}

\* 1 and 2 fall through, 3 jumps back to 1.
LoopSucc == <<{2}, {3}, {1}>>
LoopAccess == <<{}, {<<"R", 9>>, <<"W", 9>>}, {}>>

CONSTANTS t1, t2

TaskRequests == {<<0, "exec", NULL>>, <<1, "invalid", NULL>>, <<1, "exec", Gone>>,
                 <<1, "exec", t1>>, <<2, "exec", t1>>, <<2, "exec", NULL>>, <<9, "rw", t1>>}
DataRequests == {<<9, "write", t1>>, <<9, "read", t1>>}

\* A kernel that exports everything, one without modify_user_hw_breakpoint and
\* one where the breakpoint of a task cannot be set.
AllKernels == {Symbols, Symbols \ {"modify_user"}, Symbols \ {"register_user"}}
OneKernel == {Symbols}
=============================================================================
