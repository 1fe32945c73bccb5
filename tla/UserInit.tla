------------------------------ MODULE UserInit ------------------------------
(* What the hooks on execve, execveat and openat do while Android starts    *)
(* (userd.c, execv.c) and how they take themselves off when they are done.  *)
(* Callbacks of a call run in its process; other processes run in between.  *)
EXTENDS Integers, Sequences, FiniteSets

CONSTANTS Procs,
          Program,          \* the calls each process makes: <<nr, what>>
          Wrappers          \* the values has_syscall_wrapper may have

Nrs == {"execve", "execveat", "openat"}
Execs == {"execve", "execveat"}
\* a program is executed and an rc file is opened
KindOfCall == {c \in Nrs \X STRING : /\ c[2] = "app_process" => c[1] \in Execs
                                     /\ c[2] = "atrace.rc" => c[1] = "openat"}
ASSUME UserInitAssumption ==
    /\ Program \in [Procs -> Seq(KindOfCall)] /\ Wrappers \subseteq BOOLEAN

VARIABLES wrapper,
          items,            \* what is in the chain of each call: "user", "regs"
          todo,             \* the calls a process has still to make
          call,             \* the call a process is in
          replaced, first_user_init, second_stage, first_app, first_init,  \* static flags
          script,           \* the init script: "none" or "written"
          rc,               \* the file /dev/user_init.rc: what was written to it
          path,             \* the caller's file name in its own memory
          read              \* what a process got when it opened atrace.rc

flags == <<replaced, first_user_init, second_stage, first_app, first_init>>
uvars == <<wrapper, items, todo, call, flags, script, rc, path, read>>

NoCall == [pc |-> "out", nr |-> "openat", what |-> "none", old |-> FALSE, unhook |-> FALSE, copied |-> FALSE]

UserInitInit ==
    /\ wrapper \in Wrappers
    /\ items = [n \in Nrs |-> IF n \in Execs THEN {"user", "regs"} ELSE {"user"}]
    /\ todo = Program /\ call = [p \in Procs |-> NoCall]
    /\ replaced = FALSE /\ first_user_init = FALSE /\ second_stage = FALSE
    /\ first_app = FALSE /\ first_init = FALSE
    /\ script = "none" /\ rc = <<>>
    /\ path = [p \in Procs |-> "none"] /\ read = [p \in Procs |-> <<>>]

\* a process enters a call and looks at the flag its callback tests first
Enter(p) ==
    /\ call[p].pc = "out" /\ todo[p] # <<>>
    /\ LET nr == Head(todo[p])[1]
           what == Head(todo[p])[2] IN
       /\ call' = [call EXCEPT ![p] = [pc |-> IF "user" \in items[nr] THEN "before" ELSE "run", nr |-> nr,
              what |-> what, old |-> CASE what = "app_process" -> first_app [] what = "atrace.rc" -> replaced
                                       [] OTHER -> FALSE, unhook |-> FALSE, copied |-> FALSE]]
       /\ path' = [path EXCEPT ![p] = what]
       \* execv.c: before_execve
       /\ first_init' = (first_init \/ "regs" \in items[nr])
    /\ todo' = [todo EXCEPT ![p] = Tail(@)]
    /\ UNCHANGED <<wrapper, items, replaced, first_user_init, second_stage, first_app, script, rc, read>>

Go(p, unhook, copied) == call' = [call EXCEPT ![p].pc = "run", ![p].unhook = unhook, ![p].copied = copied]

handle_before_execve(p) ==
    /\ call[p].pc = "before" /\ call[p].nr \in Execs
    /\ LET what == call[p].what
           user == what \in {"init", "init second_stage"}
           app == what = "app_process" /\ ~call[p].old IN
       /\ script' = IF user /\ ~first_user_init THEN "written" ELSE script
       /\ first_user_init' = (first_user_init \/ user)
       /\ second_stage' = (second_stage \/ what = "init second_stage")
       /\ first_app' = (first_app \/ app)
       /\ Go(p, app, FALSE)
    /\ UNCHANGED <<wrapper, items, todo, replaced, first_init, rc, path, read>>

\* before_openat copies atrace.rc and what is added to it; at is where that
\* stops: "create", "read", "write", "add", or "done"; name is whether the
\* caller's file name can be overwritten where it is
Written(at) == CASE at \in {"create", "read"} -> <<>> [] at = "write" -> <<"part">>
                 [] at = "add" -> <<"old", "part">> [] OTHER -> <<"old", "added">>
Redirects(at) == at = "done"
before_openat(p) ==
    /\ call[p].pc = "before" /\ call[p].nr = "openat"
    /\ IF call[p].what # "atrace.rc" \/ call[p].old
       THEN Go(p, FALSE, FALSE) /\ UNCHANGED <<replaced, rc, path>>
       ELSE /\ replaced' = TRUE
            /\ \E at \in {"create", "read", "write", "add", "done"}, name \in BOOLEAN :
                  /\ rc' = IF at = "create" THEN rc ELSE Written(at)
                  /\ path' = IF Redirects(at) /\ name THEN [path EXCEPT ![p] = "user_init.rc"] ELSE path
                  \* without it a copy on the stack is named, which the
                  \* function sees only where it takes its arguments itself
                  /\ call' = [call EXCEPT ![p].pc = IF Redirects(at) /\ ~name /\ ~wrapper THEN "run copy" ELSE "run",
                                          ![p].unhook = TRUE, ![p].copied = Redirects(at) /\ name]
    /\ UNCHANGED <<wrapper, items, todo, first_user_init, second_stage, first_app, first_init, script, read>>

\* the system call itself
Run(p) ==
    /\ call[p].pc \in {"run", "run copy"}
    /\ read' = IF call[p].what # "atrace.rc" THEN read
               ELSE [read EXCEPT ![p] = IF call[p].pc = "run copy" \/ path[p] = "user_init.rc" THEN rc ELSE <<"old">>]
    /\ call' = [call EXCEPT ![p].pc = "after"]
    /\ UNCHANGED <<wrapper, items, todo, flags, script, rc, path>>

\* after_execve and execv.c's after_execv: what is not in the chain any more
\* does not run
Off(ns, item) == [n \in Nrs |-> IF n \in ns THEN items[n] \ {item} ELSE items[n]]
MutantAfter(p) ==
    /\ call[p].pc = "after" /\ call[p].nr \in Execs
    /\ items' = [n \in Nrs |-> IF n \in Execs /\ "regs" \in items[call[p].nr] THEN items[n] \ {"regs"} ELSE items[n]]
    /\ call' = [call EXCEPT ![p] = NoCall]
    /\ UNCHANGED <<wrapper, todo, flags, script, rc, path, read>>
handle_after_execve(p) ==
    /\ call[p].pc = "after" /\ call[p].nr \in Execs
    /\ LET mine == items[call[p].nr]
           gone == (IF "user" \in mine /\ call[p].unhook THEN {"user"} ELSE {})
                   \cup (IF "regs" \in mine THEN {"regs"} ELSE {}) IN
       items' = [n \in Nrs |-> IF n \in Execs THEN items[n] \ gone ELSE items[n]]
    /\ call' = [call EXCEPT ![p] = NoCall]
    /\ UNCHANGED <<wrapper, todo, flags, script, rc, path, read>>

\* data1 is args->arg1, which is the file name only without the wrapper
after_openat(p) ==
    /\ call[p].pc = "after" /\ call[p].nr = "openat"
    /\ LET mine == "user" \in items["openat"] IN
       /\ path' = IF mine /\ call[p].copied /\ ~wrapper THEN [path EXCEPT ![p] = "atrace.rc"] ELSE path
       /\ items' = IF mine /\ call[p].unhook THEN Off({"openat"}, "user") ELSE items
    /\ call' = [call EXCEPT ![p] = NoCall]
    /\ UNCHANGED <<wrapper, todo, flags, script, rc, read>>

Step(p) == \/ Enter(p) \/ handle_before_execve(p) \/ before_openat(p)
           \/ Run(p) \/ handle_after_execve(p) \/ after_openat(p)
UserInitNext == \E p \in Procs : Step(p)
UserInitSpec == UserInitInit /\ [][UserInitNext]_uvars
---------------------------------------------------------------------------
\* Init reads its rc file as it is or with everything added to it, and never a
\* copy that stopped half-way, whichever file operation fails (userd.c:262-300).
RcIsWhole == \A p \in Procs : read[p] \in {<<>>, <<"old">>, <<"old", "added">>}

\* The callbacks take themselves off: when every process has made its calls, an
\* app_process and the rc file among them, no call runs through them any more
\* (userd.c:207-215, 315; execv.c:55-59).
Made(what) == \E p \in Procs : \E i \in DOMAIN Program[p] : Program[p][i][2] = what
HooksGoAway ==
    (\A p \in Procs : todo[p] = <<>> /\ call[p].pc = "out") =>
        /\ Made("app_process") => \A n \in Execs : items[n] = {}
        /\ Made("atrace.rc") => items["openat"] = {}

\* The hooks of the boot (userd.c, execv.c): what init reads is whole, and they
\* are gone when their work is done.
BootHooksDoTheirWork == RcIsWhole /\ HooksGoAway
=============================================================================
