------------------------------ MODULE Supercmd ------------------------------
(* supercmd.c: an execve of the command name with the key as its first      *)
(* argument becomes su, a program to run, or an answer that echo prints.    *)
(* Arguments are words; the strings copied from the user are the indices of *)
(* parr they are kept at.  Effects outside Su are named in the answer.      *)
EXTENDS Su, Sequences

CONSTANTS ArgsNo,           \* SUPERCMD_ARGS_NO
          Key,              \* the word that is the superkey
          Commands          \* argument vectors tried

\* "" stands for the end of a vector
ASSUME CommandAssumption ==
    /\ ArgsNo \in Nat /\ ArgsNo > 2
    /\ \A c \in Commands : c \in Seq(STRING) /\ \A i \in 1 .. Len(c) : c[i] # ""

VARIABLES answer,           \* what execve goes on with: file, argv, effect
          strings           \* the last command's words, the copies made, freed and taken
                            \* over of them, and the highest index looked at

cvars == <<answer, strings>>

Nums == [w \in {"0", "1000"} |-> IF w = "0" THEN 0 ELSE 1000]
kstrtoull(w, old) == IF w \in DOMAIN Nums THEN Nums[w] ELSE old
IsOption(w) == w \in {"-u", "-Z", "-x"}        \* begins with -, and is not -c
Array == 0 .. ArgsNo + 3
Word(parr, i) == IF i \in Array THEN parr[i] ELSE "wild"     \* past the end

\* get_user_arg_ptr answers the nr-th word of argv, which counts from 0; "" is NULL
user_arg(argv, nr) == IF nr < Len(argv) THEN argv[nr + 1] ELSE ""

\* the words copied: up to ArgsNo, none after -c
CopyArgs(argv) ==
    LET ends == {i \in 2 .. ArgsNo - 1 : user_arg(argv, i) \in {"", "-c"}} IN
    [i \in Array |-> IF i \in 2 .. ArgsNo - 1 /\ (\A j \in ends : i <= j)
                     THEN user_arg(argv, i) ELSE ""]

\* the options: where the command starts, whom to become, and an error
Option(parr, s) ==              \* the next one, if there is one
    LET w == Word(parr, s.pi)
        v == Word(parr, s.pi + 1) IN
    IF s.err \/ s.pi >= ArgsNo \/ ~IsOption(w) THEN s
    ELSE CASE w \in {"-u", "-Z"} /\ v = "" -> [s EXCEPT !.pi = @ + 1, !.err = TRUE]
           [] w = "-u" /\ v # "" -> [s EXCEPT !.pi = @ + 2, !.p.to_uid = kstrtoull(v, @)]
           [] w = "-Z" /\ v # "" -> [s EXCEPT !.pi = @ + 2, !.p.ctx = v]
           [] w \notin {"-u", "-Z"} -> [s EXCEPT !.pi = @ + 1]
Options(parr, profile) ==       \* an option is a word at least
    LET after[i \in 0 .. ArgsNo] == IF i = 0 THEN [pi |-> 2, p |-> profile, err |-> FALSE]
                                    ELSE Option(parr, after[i - 1]) IN
    after[ArgsNo]

supercmd_exec(file, argv, shift) ==
    [file |-> file, argv |-> SubSeq(argv, shift + 1, Len(argv)), effect |-> <<>>]
supercmd_echo(effect) == [file |-> "echo", argv |-> <<"echo", "message">>, effect |-> effect]

handle_cmd_sumgr(carr) ==
    LET sub == carr[1]
        uid == Nums[carr[2]] IN
    CASE sub = "grant" /\ carr[2] \in DOMAIN Nums ->
           su_add_allow_uid(uid, kstrtoull(carr[3], 0), carr[4]) /\ UNCHANGED <<exclude, all_allow, su_path>>
      [] sub = "revoke" /\ carr[2] \in DOMAIN Nums ->
           su_remove_allow_uid(uid) /\ UNCHANGED <<exclude, all_allow, su_path>>
      [] sub = "path" /\ carr[2] # "" -> su_path' = carr[2] /\ UNCHANGED <<su_list, exclude, all_allow>>
      [] sub = "sctx" /\ carr[2] # "" -> set_all_allow_sctx(carr[2]) /\ UNCHANGED <<su_list, exclude, su_path>>
      [] sub = "exclude" /\ carr[2] \in DOMAIN Nums /\ carr[3] # "" ->
           set_ap_mod_exclude(uid, IF carr[3] = "0" THEN 0 ELSE 1) /\ UNCHANGED <<su_list, all_allow, su_path>>
      [] OTHER -> Unset
SetsPath(carr) == carr[0] = "sumgr" /\ carr[1] = "path" /\ carr[2] # ""
\* the copy su_path points to from now on, and what is taken out of the array
\* so that it is not freed
Taken(carr, pi) == IF SetsPath(carr) THEN {pi + 2} ELSE {}
Kept(carr, pi) == IF SetsPath(carr) THEN {pi + 2} ELSE {}

\* what the superkey commands do is done elsewhere
handle_cmd_key_auth(carr) ==
    CASE carr[0] = "key" /\ carr[1] = "set" /\ carr[2] # "" -> <<"reset_superkey", carr[2]>>
      [] carr[0] = "key" /\ carr[1] = "hash" /\ carr[2] \in {"enable", "disable"} ->
           <<"enable_auth_root_key", carr[2]>>
      [] carr[0] = "module" /\ carr[1] = "load" /\ carr[2] # "" -> <<"load_module_path", carr[2], carr[3]>>
      [] carr[0] = "module" /\ carr[1] = "ctl0" /\ carr[2] # "" /\ carr[3] # "" ->
           <<"module_control0", carr[2], carr[3]>>
      [] carr[0] = "module" /\ carr[1] = "unload" /\ carr[2] # "" -> <<"unload_module", carr[2]>>
      [] OTHER -> <<>>

MutantExecShift(pi) == pi
ExecShift(pi) == pi + 1
\* the command that starts at pi, of the words carr
Answer(argv, carr, pi, key) ==
    CASE carr[0] = "" -> supercmd_exec("sh", argv, pi)
      [] carr[0] = "-c" -> supercmd_exec("sh", argv, pi - 1)
      [] carr[0] = "exec" /\ carr[1] # "" -> supercmd_exec(carr[1], argv, ExecShift(pi))
      [] carr[0] = "event" /\ carr[1] # "" -> supercmd_echo(<<"report_user_event", carr[1], carr[2]>>)
      [] carr[0] \in {"key", "module"} /\ key -> supercmd_echo(handle_cmd_key_auth(carr))
      [] OTHER -> supercmd_echo(<<>>)

\* how many words from the command's on its handler looks at
Reads(cmd) == CASE cmd = "sumgr" -> 5 [] cmd = "module" -> 4 [] cmd \in {"key", "event"} -> 3
                [] cmd = "exec" -> 2 [] OTHER -> 1
Room(pi) == pi < ArgsNo - 1

handle_supercmd(t, argv) ==
    LET auth == user_arg(argv, 1)
        key == auth = Key
        uid == Cred(t).uid
        start == IF key THEN [to_uid |-> 0, ctx |-> ""]
                 ELSE CHOOSE p \in {[to_uid |-> q.to_uid, ctx |-> q.ctx] : q \in get_kstorage(uid)} : TRUE
        parr == CopyArgs(argv)
        made == {i \in Array : parr[i] # ""}
        o == Options(parr, start)
        carr == [i \in 0 .. 4 |-> Word(parr, o.pi + i)]
        kept == IF Room(o.pi) THEN Kept(carr, o.pi) ELSE {} IN
    /\ t \in Idle /\ tasks[t].cred = tasks[t].real_cred
    /\ key \/ (auth = "su" /\ is_su_allow_uid(uid))
    /\ IF parr[2] = "" THEN
          /\ commit_su(t, start.to_uid, start.ctx) /\ Unset
          /\ answer' = [file |-> "sh", argv |-> <<"sh">>, effect |-> <<>>]
          /\ strings' = [given |-> argv, made |-> {}, freed |-> {}, taken |-> {}, top |-> 2]
       ELSE IF o.err THEN
          /\ NoBlessing /\ UNCHANGED <<tasks, ext, creds>> /\ Unset
          /\ answer' = supercmd_echo(<<>>)
          /\ strings' = [given |-> argv, made |-> made, freed |-> made, taken |-> {}, top |-> o.pi]
       ELSE
          /\ commit_su(t, o.p.to_uid, o.p.ctx)
          /\ strings' = [given |-> argv, made |-> made, freed |-> made \ kept,
                         taken |-> IF Room(o.pi) THEN Taken(carr, o.pi) ELSE {},
                         top |-> IF Room(o.pi) THEN o.pi + Reads(carr[0]) - 1 ELSE o.pi]
          /\ IF ~Room(o.pi) THEN answer' = supercmd_echo(<<>>) /\ Unset
             ELSE /\ answer' = Answer(argv, carr, o.pi, key)
                  /\ IF carr[0] = "sumgr" THEN handle_cmd_sumgr(carr) ELSE Unset

CmdInit ==
    /\ SuInit /\ strings = [given |-> <<>>, made |-> {}, freed |-> {}, taken |-> {}, top |-> 2]
    /\ answer = [file |-> "", argv |-> <<>>, effect |-> <<>>]
CmdNext == /\ Call
           /\ \E t \in Tasks, argv \in Commands : handle_supercmd(t, argv)
\* commands between all that goes on with tasks and settings
CmdSpec == CmdInit /\ [][CmdNext \/ (SuNext /\ UNCHANGED cvars)]_<<svars, cvars>>
---------------------------------------------------------------------------
\* The string that is the su path now is never freed and every other copy of
\* an argument is freed exactly once, on every way out ("no free",
\* supercmd.c:218, 478-488; sucompat.c:174).
StringsFreedOnce ==
    /\ strings.freed \cap strings.taken = {}
    /\ strings.freed \cup strings.taken = strings.made

\* -c is never given as the value of an option: it would be taken as the value,
\* and yet end the copying
Sensible(c) == \A i \in 4 .. Len(c) : c[i] = "-c" => c[i - 1] \notin {"-u", "-Z"}

\* A program that is run gets the words that follow it on the command line,
\* its name first and none of the options for su, and -c runs the shell with -c
\* and what follows (supercmd.c:393-403).
ProgramGetsItsArguments ==
    LET given == strings.given IN
    \/ answer.file \in {"", "echo"} \/ (answer.file = "sh" /\ Len(answer.argv) < 2)
    \/ \E i \in 3 .. Len(given) :
          \/ /\ given[i] = "exec" /\ answer.file = given[i + 1]
             /\ answer.argv = SubSeq(given, i + 1, Len(given))
          \/ /\ given[i] = "-c" /\ answer.file = "sh"
             /\ answer.argv = SubSeq(given, i - 1, Len(given))

\* No command looks at a word past the array, however many options stand
\* before it (SUPERCMD_ARGS_NO + 4, supercmd.c:303, 373).
ArgsInBounds == strings.top \in Array

\* The command line (supercmd.c:303-488): no word past the array is read, and the
\* program that is run gets its arguments, all of them and no others; what a
\* caller is shown (sucompat.c:174) it can run, and the strings this takes are
\* each freed once.
CommandsRunAsTyped == ProgramGetsItsArguments /\ ArgsInBounds /\ ShownIsRun /\ StringsFreedOnce
=============================================================================
