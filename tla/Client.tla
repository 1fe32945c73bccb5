------------------------------- MODULE Client -------------------------------
(***************************************************************************)
(* A supercall from end to end: the command line of the user-space program *)
(* (main.c, kpm.c, kpatch.c, su.c up to its supercall), the functions      *)
(* sc_... of the program's library (user_deprecated/supercall.h) and those *)
(* the new library (user/supercall.h) adds, the words they put into the    *)
(* registers, and the kernel's decoding, authentication (predata.c),       *)
(* dispatch and handlers (supercall.c) down to the function that does the  *)
(* work.  The work itself is in Su, KStorage and KpmModule; here only what *)
(* authentication depends on changes.                                      *)
(***************************************************************************)
EXTENDS SequencesExt, Integers

CONSTANTS
    Jobs,    \* What a caller does: a command line or a call of a library.
    Superkeys, \* What superkeys are set to, sequences of characters.
    RootKey, \* The key whose hash the image holds; <<>> if it holds none.
    Random,  \* A superkey that predata_init makes up.
    KEY_LEN, \* SUPER_KEY_LEN and SUPERCALL_KEY_MAX_LEN: room for a key and its end.
    Hash,    \* Bits 16 to 31 of hash_key(key).
    Junk,    \* What a register that a call does not set may hold.
    Size     \* Size[x]: length of the string x the kernel may be asked for.

VARIABLES
    job,    \* What is done.
    server, \* The kernel: superkey, enable_root_key, first_time, whether the caller's
            \* uid may use "su", whether the copy of an empty string counts its end.
    turn,   \* "start", "probe", "trap", "done"
    call,   \* The system call: the key and the words after it.
    form,   \* How the library writes the command.
    reply,  \* What was done.
    authed  \* The kernel as somebody else last left it, or as the call found it.

clientVars == <<job, server, turn, call, form, reply, authed>>

\* Values of arguments: numbers, strings (told apart by their length, keys by
\* their characters), addresses of buffers and of profiles.
Key(key) == [k |-> "key", v |-> key]
Num(n) == [k |-> "num", v |-> <<n>>]
Str(n) == [k |-> "str", v |-> <<n>>]
Buffer == [k |-> "buffer", v |-> <<>>]
Profile(uid, to, len) == [k |-> "profile", v |-> <<uid, to, len>>]
Null == [k |-> "null", v |-> <<>>]
Do(f, args) == [does |-> f, with |-> args]
Error(e) == Do(e, <<>>)

CallerUid == 1
SuKey == <<"s", "u">>
SUPERCALL_SCONTEXT_LEN == 96
Code == [HELLO |-> 4096, KLOG |-> 4100, BUILD_TIME |-> 4103, KERNELPATCH_VER |-> 4104, KERNEL_VER |-> 4105,
         SKEY_GET |-> 4106, SKEY_SET |-> 4107, SKEY_ROOT_ENABLE |-> 4108, SU |-> 4112, SU_TASK |-> 4113,
         KPM_LOAD |-> 4128, KPM_UNLOAD |-> 4129, KPM_CONTROL |-> 4130,
         KPM_NUMS |-> 4144, KPM_LIST |-> 4145, KPM_INFO |-> 4146,
         KSTORAGE_WRITE |-> 4161, KSTORAGE_READ |-> 4162, KSTORAGE_LIST_IDS |-> 4163, KSTORAGE_REMOVE |-> 4164,
         BOOTLOG |-> 4349, PANIC |-> 4350, TEST |-> 4351, SU_GRANT_UID |-> 4352, SU_REVOKE_UID |-> 4353,
         SU_NUMS |-> 4354, SU_LIST |-> 4355, SU_PROFILE |-> 4356, SU_GET_ALLOW_SCTX |-> 4357,
         SU_SET_ALLOW_SCTX |-> 4358, SU_GET_PATH |-> 4368, SU_RESET_PATH |-> 4369, SU_GET_SAFEMODE |-> 4370,
         MAX |-> 4608]

-----------------------------------------------------------------------------
(* The library: what a function refuses, its command and the words it sends *)

Send(ok, name, words) == [ok |-> ok, cmd |-> Code[name], words |-> words]
Text(s) == (s.k = "str" /\ s.v[1] > 0) \/ (s.k = "key" /\ s.v # <<>>)
Room(b, n) == b # Null /\ n.v[1] > 0
\* ((long)offset << 32) | dlen: the sign of dlen fills the upper half.
Packed(offset, dlen) ==
    [k |-> "packed", v |-> <<IF dlen.v[1] < 0 THEN -1 ELSE offset.v[1], dlen.v[1]>>]

sc_hello(a) == Send(TRUE, "HELLO", a)
sc_klog(a) == Send(Text(a[1]), "KLOG", a)
sc_kp_ver(a) == Send(TRUE, "KERNELPATCH_VER", a)
sc_k_ver(a) == Send(TRUE, "KERNEL_VER", a)
sc_su(a) == Send(a[1].v[3] < SUPERCALL_SCONTEXT_LEN, "SU", a)
sc_su_task(a) == Send(TRUE, "SU_TASK", a)
sc_kstorage_write(a) == Send(TRUE, "KSTORAGE_WRITE", <<a[1], a[2], a[3], Packed(a[4], a[5])>>)
sc_kstorage_read(a) == Send(TRUE, "KSTORAGE_READ", <<a[1], a[2], a[3], Packed(a[4], a[5])>>)
sc_kstorage_list_ids(a) == Send(TRUE, "KSTORAGE_LIST_IDS", a)
sc_kstorage_remove(a) == Send(TRUE, "KSTORAGE_REMOVE", <<a[1]>>)
sc_get_ap_mod_exclude(a) == sc_kstorage_read(<<Num(1), a[1], Buffer, Num(0), Num(4)>>)
sc_su_grant_uid(a) == Send(TRUE, "SU_GRANT_UID", a)
sc_su_revoke_uid(a) == Send(TRUE, "SU_REVOKE_UID", a)
sc_su_uid_nums(a) == Send(TRUE, "SU_NUMS", a)
sc_su_allow_uids(a) == Send(Room(a[1], a[2]), "SU_LIST", a)
sc_su_uid_profile(a) == Send(TRUE, "SU_PROFILE", a)
sc_su_get_path(a) == Send(Room(a[1], a[2]), "SU_GET_PATH", a)
sc_su_reset_path(a) == Send(Text(a[1]), "SU_RESET_PATH", a)
sc_su_get_all_allow_sctx(a) == Send(a[1] # Null, "SU_GET_ALLOW_SCTX", <<a[1]>>)
sc_su_reset_all_allow_sctx(a) == Send(a[1] # Null, "SU_SET_ALLOW_SCTX", a)
sc_kpm_load(a) == Send(Text(a[1]), "KPM_LOAD", a)
sc_kpm_control(a) == Send(Text(a[1]) /\ Text(a[2]), "KPM_CONTROL", a)
sc_kpm_unload(a) == Send(Text(a[1]), "KPM_UNLOAD", a)
sc_kpm_nums(a) == Send(TRUE, "KPM_NUMS", a)
sc_kpm_list(a) == Send(Room(a[1], a[2]), "KPM_LIST", a)
sc_kpm_info(a) == Send(Room(a[2], a[3]), "KPM_INFO", a)
sc_skey_get(a) == Send(a[2].v[1] >= KEY_LEN, "SKEY_GET", a)
sc_skey_set(a) == Send(Text(a[1]), "SKEY_SET", a)
sc_skey_root_enable(a) == Send(TRUE, "SKEY_ROOT_ENABLE", a)
sc_su_get_safemode(a) == Send(TRUE, "SU_GET_SAFEMODE", a)
sc_bootlog(a) == Send(TRUE, "BOOTLOG", a)
sc_panic(a) == Send(TRUE, "PANIC", a)
sc_test(a) == Send(TRUE, "TEST", a)

Unguarded == {"sc_bootlog", "sc_panic", "sc_test"} \* take an empty key
Library(f, a) ==
    CASE f = "sc_hello" -> sc_hello(a) [] f = "sc_klog" -> sc_klog(a) [] f = "sc_kp_ver" -> sc_kp_ver(a)
      [] f = "sc_k_ver" -> sc_k_ver(a) [] f = "sc_su" -> sc_su(a) [] f = "sc_su_task" -> sc_su_task(a)
      [] f = "sc_kstorage_write" -> sc_kstorage_write(a) [] f = "sc_kstorage_read" -> sc_kstorage_read(a)
      [] f = "sc_kstorage_list_ids" -> sc_kstorage_list_ids(a) [] f = "sc_kstorage_remove" -> sc_kstorage_remove(a)
      [] f = "sc_get_ap_mod_exclude" -> sc_get_ap_mod_exclude(a) [] f = "sc_su_grant_uid" -> sc_su_grant_uid(a)
      [] f = "sc_su_revoke_uid" -> sc_su_revoke_uid(a) [] f = "sc_su_uid_nums" -> sc_su_uid_nums(a)
      [] f = "sc_su_allow_uids" -> sc_su_allow_uids(a) [] f = "sc_su_uid_profile" -> sc_su_uid_profile(a)
      [] f = "sc_su_get_path" -> sc_su_get_path(a) [] f = "sc_su_reset_path" -> sc_su_reset_path(a)
      [] f = "sc_su_get_all_allow_sctx" -> sc_su_get_all_allow_sctx(a)
      [] f = "sc_su_reset_all_allow_sctx" -> sc_su_reset_all_allow_sctx(a)
      [] f = "sc_kpm_load" -> sc_kpm_load(a) [] f = "sc_kpm_control" -> sc_kpm_control(a)
      [] f = "sc_kpm_unload" -> sc_kpm_unload(a) [] f = "sc_kpm_nums" -> sc_kpm_nums(a)
      [] f = "sc_kpm_list" -> sc_kpm_list(a) [] f = "sc_kpm_info" -> sc_kpm_info(a)
      [] f = "sc_skey_get" -> sc_skey_get(a) [] f = "sc_skey_set" -> sc_skey_set(a)
      [] f = "sc_skey_root_enable" -> sc_skey_root_enable(a) [] f = "sc_su_get_safemode" -> sc_su_get_safemode(a)
      [] f = "sc_bootlog" -> sc_bootlog(a) [] f = "sc_panic" -> sc_panic(a) [] f = "sc_test" -> sc_test(a)
\* The functions that only the new library has.
NewOnly == {"sc_kstorage_write", "sc_kstorage_read", "sc_kstorage_list_ids", "sc_kstorage_remove", "sc_get_ap_mod_exclude",
            "sc_su_get_all_allow_sctx", "sc_su_reset_all_allow_sctx", "sc_su_get_safemode"}

\* The word with the command: its upper half and its lower half.
ver_and_cmd(cmd) == <<"version", 4440 * 65536 + (cmd % 65536)>>
hash_key_cmd(key, cmd) == <<"zero", Hash[key] * 65536 + cmd>>
-----------------------------------------------------------------------------
(* The program: what its command line, after the superkey, makes it call *)

Shortened(n, size) == IF n < size THEN n ELSE size - 1
Of(word) == Str(Size[word])
Ask(f, a) == [f |-> f, a |-> a]
Nothing == Ask("usage", <<>>)
kpm_main(w) ==
    CASE Len(w) >= 2 /\ w[1] = "load" ->
            Ask("sc_kpm_load", <<Of(w[2]), IF Len(w) < 3 THEN Null ELSE Of(w[3]), Null>>)
      [] Len(w) >= 3 /\ w[1] = "ctl0" -> Ask("sc_kpm_control", <<Of(w[2]), Of(w[3]), Buffer, Num(4096)>>)
      [] Len(w) >= 2 /\ w[1] = "unload" -> Ask("sc_kpm_unload", <<Of(w[2]), Null>>)
      [] Len(w) >= 1 /\ w[1] = "num" -> Ask("sc_kpm_nums", <<>>)
      [] Len(w) >= 1 /\ w[1] = "list" -> Ask("sc_kpm_list", <<Buffer, Num(4096)>>)
      [] Len(w) >= 2 /\ w[1] = "info" -> Ask("sc_kpm_info", <<Of(w[2]), Buffer, Num(4096)>>)
      [] OTHER -> Nothing
skey_main(w) ==
    CASE Len(w) >= 1 /\ w[1] = "get" -> Ask("sc_skey_get", <<Buffer, Num(KEY_LEN)>>)
      [] Len(w) >= 2 /\ w[1] = "set" -> Ask("sc_skey_set", <<Key(w[2])>>)
      [] Len(w) >= 2 /\ w[1] = "rootkey" /\ w[2] \in {"enable", "disable"} ->
            Ask("sc_skey_root_enable", <<Num(IF w[2] = "enable" THEN 1 ELSE 0)>>)
      [] OTHER -> Nothing
\* Up to its supercall: -M and -t may be given once, -Z names a context.
su_main(w) ==
    LET contexts == {i \in DOMAIN w : w[i] = "-Z"}
        targets  == {i \in DOMAIN w : w[i] \in {"-M", "-t"}}
        last     == CHOOSE i \in contexts : \A j \in contexts : j <= i
    IN  IF \E i, j \in targets : i # j THEN Nothing
        ELSE IF contexts = {} THEN Ask("sc_su", <<Profile(CallerUid, 0, 0)>>)
        ELSE IF last = Len(w) THEN Nothing
        ELSE Ask("sc_su", <<Profile(CallerUid, 0, Shortened(Size[w[last + 1]], SUPERCALL_SCONTEXT_LEN))>>)
main(key, w) ==
    CASE w = <<>> \/ key = <<>> \/ Len(key) >= KEY_LEN -> Nothing
      [] w[1] = "hello" -> Ask("sc_hello", <<>>) [] w[1] = "kpver" -> Ask("sc_kp_ver", <<>>)
      [] w[1] = "kver" -> Ask("sc_k_ver", <<>>) [] w[1] = "bootlog" -> Ask("sc_bootlog", <<>>)
      [] w[1] = "panic" -> Ask("sc_panic", <<>>) [] w[1] = "su" -> su_main(Tail(w))
      [] w[1] = "key" -> skey_main(Tail(w)) [] w[1] = "kpm" -> kpm_main(Tail(w))
      [] OTHER -> Nothing

-----------------------------------------------------------------------------
(* The kernel's handlers *)

\* A copy of a string of the caller in a buffer of count bytes, cut if it is
\* longer; rc counts the terminator, for an empty string not everywhere.
compat_strncpy_from_user(s, count) ==
    CASE s.k # "str" -> [rc |-> 0, buf |-> Null]
      [] s.k = "str" /\ s.v[1] >= count -> [rc |-> count, buf |-> Str(count - 1)]
      [] OTHER -> [rc |-> IF s.v[1] = 0 /\ ~server.counts THEN 0 ELSE s.v[1] + 1, buf |-> s]
Copied(s, count, work(_)) ==
    LET c == compat_strncpy_from_user(s, count) IN IF c.rc <= 0 THEN Error("EINVAL") ELSE work(c.buf)
\* The optional second string.
OrNull(s, count) == LET c == compat_strncpy_from_user(s, count) IN IF c.rc <= 0 THEN Null ELSE c.buf
\* An answer of the kernel with its terminator, if there is room for it.
CopyTo(out, r) == IF out = Null THEN Error("EFAULT") ELSE r
Answer(what, len, out, n, e) == IF len < n.v[1] THEN CopyTo(out, Do(what, <<out>>)) ELSE Error(e)
Terminated(p) == Str(Shortened(p.v[3], SUPERCALL_SCONTEXT_LEN))

call_klog(s) == Copied(s, 1024, LAMBDA b : Do("user log", <<b>>))
call_buildtime(out, n) == Answer("build time", Size["build time"], out, n, "ENOMEM")
call_kpm_load(path, args, reserved) ==
    Copied(path, 1024, LAMBDA b : Do("load_module_path", <<b, OrNull(args, 1024), reserved>>))
call_kpm_control(name, args, out, n) ==
    Copied(name, 32, LAMBDA b : Do("module_control0", <<b, OrNull(args, 1024), out, n>>))
call_kpm_unload(name, reserved) == Copied(name, 32, LAMBDA b : Do("unload_module", <<b, reserved>>))
call_kpm_list(out, n) ==
    IF n.v[1] <= 0 THEN Error("EINVAL")
    ELSE IF Size["modules"] > n.v[1] THEN Error("ENOBUFS") ELSE CopyTo(out, Do("list_modules", <<out, n>>))
call_kpm_info(name, out, n) ==
    IF n.v[1] <= 0 THEN Error("EINVAL")
    ELSE Copied(name, 64, LAMBDA b : IF Size["info"] > n.v[1] THEN Error("ENOBUFS")
                                     ELSE CopyTo(out, Do("get_module_info", <<b, out>>)))
call_su(p) == IF p = Null THEN Error("EFAULT") ELSE Do("commit_su", <<Num(p.v[2]), Terminated(p)>>)
call_su_task(pid, p) ==
    IF p = Null THEN Error("EFAULT") ELSE Do("task_su", <<pid, Num(p.v[2]), Terminated(p)>>)
call_skey_get(key, out, n) == Answer("superkey", Len(key), out, n, "ENOMEM")
\* The caller's own string is used; the test of the copy's length never refuses
\* it, because a copy that was cut ends in zero.  Nor does the one below.
call_skey_set(s) == Do("reset_superkey", <<s>>)
call_grant_uid(p) ==
    IF p = Null THEN Error("EFAULT") ELSE Do("su_add_allow_uid", <<Num(p.v[1]), Num(p.v[2]), Str(p.v[3])>>)
call_reset_su_path(s) ==
    IF s.k # "str" THEN Error("EFAULT")
    ELSE IF s.v[1] >= 128 THEN Error("EINVAL") ELSE Do("su_reset_path", <<s>>)
call_su_get_path(out, n) == Answer("su path", Size["su path"], out, n, "ENOBUFS")
call_su_get_allow_sctx(out, n) == Answer("all_allow_sctx", Size["all_allow_sctx"], out, n, "ENOBUFS")
call_su_set_allow_sctx(s) ==
    Do("set_all_allow_sctx", <<IF s.k # "str" THEN Str(0)
                               ELSE compat_strncpy_from_user(s, SUPERCALL_SCONTEXT_LEN).buf>>)
data_is_user == Num(1)
data_is_kernel == Num(0)
\* (int)(arg4 >> 32) and arg4 << 32 >> 32
Offset(x) == Num(x.v[1])
Dlen(x) == Num(x.v[2])

call_kstorage_read(gid, did, out, offset, dlen) == Do("read_kstorage", <<gid, did, out, offset, dlen, data_is_user>>)
call_kstorage_write(gid, did, data, offset, dlen) == Do("write_kstorage", <<gid, did, data, offset, dlen, data_is_user>>)
call_list_kstorage_ids(gid, ids, len) == Do("list_kstorage_ids", <<gid, ids, len, data_is_kernel>>)
call_kstorage_remove(gid, did) == Do("remove_kstorage", <<gid, did>>)
call_revoke_uid(uid) == Do("su_remove_allow_uid", <<uid>>)
call_su_allow_uid_nums == Do("su_allow_uid_nums", <<>>)
call_su_list_allow_uid(uids, num) == Do("su_allow_uids", <<uids, num>>)
call_su_allow_uid_profile(uid, p) == Do("su_allow_uid_profile", <<uid, p>>)
call_su_get_safemode == Do("android_is_safe_mode", <<>>)
call_bootlog == Do("print_bootlog", <<>>)
call_panic == Do("panic", <<>>)
call_test == Do("test", <<>>)
call_skey_root_enable(enable) == Do("enable_auth_root_key", <<enable>>)
call_kpm_nums == Do("get_module_nums", <<>>)

\* What whoever is authenticated may do; NotSent for none of these commands.
NotSent == Error("none")
Open(cmd, a) ==
    CASE cmd = Code.HELLO -> Do("hello", <<>>) [] cmd = Code.KLOG -> call_klog(a[1])
      [] cmd = Code.KERNELPATCH_VER -> Do("kpver", <<>>) [] cmd = Code.KERNEL_VER -> Do("kver", <<>>)
      [] cmd = Code.BUILD_TIME -> call_buildtime(a[1], a[2])
      [] cmd = Code.SU -> call_su(a[1]) [] cmd = Code.SU_TASK -> call_su_task(a[1], a[2])
      [] cmd = Code.SU_GRANT_UID -> call_grant_uid(a[1])
      [] cmd = Code.SU_REVOKE_UID -> call_revoke_uid(a[1])
      [] cmd = Code.SU_NUMS -> call_su_allow_uid_nums
      [] cmd = Code.SU_LIST -> call_su_list_allow_uid(a[1], a[2])
      [] cmd = Code.SU_PROFILE -> call_su_allow_uid_profile(a[1], a[2])
      [] cmd = Code.SU_RESET_PATH -> call_reset_su_path(a[1])
      [] cmd = Code.SU_GET_PATH -> call_su_get_path(a[1], a[2])
      [] cmd = Code.SU_GET_ALLOW_SCTX -> call_su_get_allow_sctx(a[1], a[2])
      [] cmd = Code.SU_SET_ALLOW_SCTX -> call_su_set_allow_sctx(a[1])
      [] cmd = Code.KSTORAGE_READ -> call_kstorage_read(a[1], a[2], a[3], Offset(a[4]), Dlen(a[4]))
      [] cmd = Code.KSTORAGE_WRITE -> call_kstorage_write(a[1], a[2], a[3], Offset(a[4]), Dlen(a[4]))
      [] cmd = Code.KSTORAGE_LIST_IDS -> call_list_kstorage_ids(a[1], a[2], a[3])
      [] cmd = Code.KSTORAGE_REMOVE -> call_kstorage_remove(a[1], a[2])
      [] cmd = Code.SU_GET_SAFEMODE -> call_su_get_safemode
      [] cmd = Code.BOOTLOG -> call_bootlog [] cmd = Code.PANIC -> call_panic
      [] cmd = Code.TEST -> call_test
      [] OTHER -> NotSent
\* What only the superkey opens, which is now key.
Locked(key, cmd, a) ==
    CASE cmd = Code.SKEY_GET -> call_skey_get(key, a[1], a[2]) [] cmd = Code.SKEY_SET -> call_skey_set(a[1])
      [] cmd = Code.SKEY_ROOT_ENABLE -> call_skey_root_enable(a[1])
      [] cmd = Code.KPM_LOAD -> call_kpm_load(a[1], a[2], a[3]) [] cmd = Code.KPM_UNLOAD -> call_kpm_unload(a[1], a[2])
      [] cmd = Code.KPM_CONTROL -> call_kpm_control(a[1], a[2], a[3], a[4])
      [] cmd = Code.KPM_NUMS -> call_kpm_nums [] cmd = Code.KPM_LIST -> call_kpm_list(a[1], a[2])
      [] cmd = Code.KPM_INFO -> call_kpm_info(a[1], a[2], a[3])
      [] OTHER -> Error("ENOSYS")
supercall(is_key_auth, key, cmd, a) ==
    IF Open(cmd, a) # NotSent THEN Open(cmd, a)
    ELSE IF ~is_key_auth THEN Error("EPERM") ELSE Locked(key, cmd, a)

-----------------------------------------------------------------------------
(* Authentication (predata.c) *)

reset_superkey(s, key) == [s EXCEPT !.superkey = SubSeq(key, 1, IF Len(key) < KEY_LEN THEN Len(key) ELSE KEY_LEN - 1)]
enable_auth_root_key(s, enable) == [s EXCEPT !.enable_root_key = enable]
\* The key is looked at as far as the superkey goes.  Then, if that is
\* enabled, its hash; the first root key becomes the superkey.
MutantAuth(key, s) == [ok |-> IsPrefix(s.superkey, key) \/ (s.enable_root_key /\ key = RootKey),
                       server |-> IF key = RootKey THEN [s EXCEPT !.first_time = FALSE, !.enable_root_key = FALSE] ELSE s]
auth_superkey(key, s) ==
    LET root == s.enable_root_key /\ key = RootKey /\ key # <<>>
    IN  IF IsPrefix(s.superkey, key) \/ ~root THEN [ok |-> IsPrefix(s.superkey, key), server |-> s]
        ELSE [ok |-> TRUE,
              server |-> IF s.first_time
                         THEN enable_auth_root_key(reset_superkey([s EXCEPT !.first_time = FALSE], key), FALSE) ELSE s]
\* What the image's key, or none, makes of a kernel that starts.
predata_init(preset) ==
    [superkey |-> IF preset = <<>> THEN Random ELSE preset, enable_root_key |-> preset = <<>>, first_time |-> TRUE]
\* The calls that change what authentication depends on.
Changed(s, r) ==
    CASE r.does = "reset_superkey" -> reset_superkey(s, r.with[1].v)
      [] r.does = "enable_auth_root_key" -> enable_auth_root_key(s, r.with[1] # Num(0))
      [] r.does = "su_add_allow_uid" /\ r.with[1] = Num(CallerUid) -> [s EXCEPT !.allowed = TRUE]
      [] r.does = "su_remove_allow_uid" /\ r.with[1] = Num(CallerUid) -> [s EXCEPT !.allowed = FALSE]
      [] OTHER -> s
Origin == Error("the system call itself")
\* What becomes of a system call: what was done, and the kernel after it.
Outcome(r, s) == [reply |-> r, server |-> s]
before(key, word, words, s) ==
    LET cmd  == word[2] % 65536
        auth == auth_superkey(key, s)
        does(is_key_auth) == supercall(is_key_auth, auth.server.superkey, cmd, words)
    IN  IF cmd \notin Code.HELLO..Code.MAX \/ (key = <<>> /\ ~s.counts) THEN Outcome(Origin, s)
        ELSE IF auth.ok THEN Outcome(does(TRUE), Changed(auth.server, does(TRUE)))
        ELSE IF key = SuKey /\ s.allowed THEN Outcome(does(FALSE), Changed(s, does(FALSE)))
        ELSE Outcome(Origin, s)

-----------------------------------------------------------------------------
(* The behaviour *)

AskedFor == IF job.by = "program" THEN main(job.key, job.words) ELSE Ask(job.f, job.a)
Done(r) == turn' = "done" /\ reply' = r
\* The library refuses the call or makes ready for it.
BeginAsk ==
    /\ turn = "start"
    /\ IF job.by = "raw" THEN
            /\ turn' = "trap" /\ call' = [key |-> job.key, cmd |-> job.cmd, words |-> job.a] /\ UNCHANGED reply
       ELSE IF AskedFor = Nothing THEN Done(Error("usage")) /\ UNCHANGED call
       ELSE LET q == Library(AskedFor.f, AskedFor.a)
            IN  IF (job.key = <<>> /\ AskedFor.f \notin Unguarded) \/ ~q.ok
                THEN Done(Error("EINVAL")) /\ UNCHANGED call
                ELSE /\ turn' = IF job.by = "new" THEN "trap" ELSE "probe"
                     /\ call' = [key |-> job.key, cmd |-> q.cmd, words |-> q.words] /\ UNCHANGED reply
    /\ UNCHANGED <<job, server, form, authed>>
\* The registers of a call that sets only the first of them.
Registers(words, junk) == [i \in 1..4 |-> IF i <= Len(words) THEN words[i] ELSE junk]
\* A kernel that tells its version gets the new form.
compact_cmd ==
    /\ turn = "probe"
    /\ \E junk \in Junk :
        LET outcome == before(call.key, ver_and_cmd(Code.KERNELPATCH_VER), Registers(<<>>, junk), server)
        IN  /\ form' = IF outcome.reply = Do("kpver", <<>>) THEN "version" ELSE "hash"
            /\ server' = outcome.server
    /\ turn' = "trap" /\ UNCHANGED <<job, call, reply, authed>>
Trap ==
    /\ turn = "trap"
    /\ \E junk \in Junk :
        LET word    == IF form = "version" THEN ver_and_cmd(call.cmd) ELSE hash_key_cmd(call.key, call.cmd)
            outcome == before(call.key, word, Registers(call.words, junk), server)
        IN  Done(outcome.reply) /\ server' = outcome.server
    /\ UNCHANGED <<job, call, form, authed>>
\* Supercalls of somebody else: they change the superkey or whether a root key
\* is accepted, or grant or revoke the caller's uid.
Elsewhere ==
    /\ turn \in {"probe", "trap"}
    /\ \/ \E k \in Superkeys : server' = reset_superkey(server, k)
       \/ \E enable \in BOOLEAN : server' = enable_auth_root_key(server, enable)
       \/ \E allowed \in BOOLEAN : server' = [server EXCEPT !.allowed = allowed]
    /\ authed' = server' /\ UNCHANGED <<job, turn, call, form, reply>>

NoCall == [key |-> <<>>, cmd |-> 0, words |-> <<>>]
\* The image may or may not hold a superkey, the caller's uid be allowed.
ClientInit ==
    /\ job \in Jobs /\ turn = "start" /\ call = NoCall /\ form = "version" /\ reply = NotSent
    /\ \E preset \in Superkeys \cup {<<>>}, a, c \in BOOLEAN :
          server = ("allowed" :> a) @@ ("counts" :> c) @@ predata_init(preset)
    /\ authed = server
ClientNext == BeginAsk \/ compact_cmd \/ Trap \/ Elsewhere
-----------------------------------------------------------------------------
(* Properties *)

\* What the comments of the headers and the program's help say of a call:
\* the work that is asked for.
Promise(f, a) ==
    CASE f = "sc_hello" -> Do("hello", <<>>) [] f = "sc_klog" -> Do("user log", a)
      [] f = "sc_kp_ver" -> Do("kpver", <<>>) [] f = "sc_k_ver" -> Do("kver", <<>>)
      [] f = "sc_su" -> Do("commit_su", <<Num(a[1].v[2]), Str(a[1].v[3])>>)
      [] f = "sc_su_task" -> Do("task_su", <<a[1], Num(a[2].v[2]), Str(a[2].v[3])>>)
      [] f = "sc_kstorage_write" -> Do("write_kstorage", a) [] f = "sc_kstorage_read" -> Do("read_kstorage", a)
      [] f = "sc_kstorage_list_ids" -> Do("list_kstorage_ids", a) [] f = "sc_kstorage_remove" -> Do("remove_kstorage", <<a[1]>>)
      [] f = "sc_get_ap_mod_exclude" -> Do("read_kstorage", <<Num(1), a[1], Buffer, Num(0), Num(4)>>)
      [] f = "sc_su_grant_uid" -> Do("su_add_allow_uid", <<Num(a[1].v[1]), Num(a[1].v[2]), Str(a[1].v[3])>>)
      [] f = "sc_su_revoke_uid" -> Do("su_remove_allow_uid", a) [] f = "sc_su_uid_nums" -> Do("su_allow_uid_nums", <<>>)
      [] f = "sc_su_allow_uids" -> Do("su_allow_uids", a) [] f = "sc_su_uid_profile" -> Do("su_allow_uid_profile", a)
      [] f = "sc_su_get_path" -> Do("su path", <<a[1]>>) [] f = "sc_su_reset_path" -> Do("su_reset_path", a)
      [] f = "sc_su_get_all_allow_sctx" -> Do("all_allow_sctx", <<a[1]>>)
      [] f = "sc_su_reset_all_allow_sctx" -> Do("set_all_allow_sctx", a)
      [] f = "sc_kpm_load" -> Do("load_module_path", a) [] f = "sc_kpm_control" -> Do("module_control0", a)
      [] f = "sc_kpm_unload" -> Do("unload_module", a) [] f = "sc_kpm_nums" -> Do("get_module_nums", <<>>)
      [] f = "sc_kpm_list" -> Do("list_modules", a) [] f = "sc_kpm_info" -> Do("get_module_info", <<a[1], a[2]>>)
      [] f = "sc_skey_get" -> Do("superkey", <<a[1]>>) [] f = "sc_skey_set" -> Do("reset_superkey", a)
      [] f = "sc_skey_root_enable" -> Do("enable_auth_root_key", a)
      [] f = "sc_su_get_safemode" -> Do("android_is_safe_mode", <<>>)
      [] f = "sc_bootlog" -> Do("print_bootlog", <<>>) [] f = "sc_panic" -> Do("panic", <<>>)
      [] f = "sc_test" -> Do("test", <<>>)
\* "@param key : superkey" without "or 'su' string".
KeyOnly == {"sc_kpm_load", "sc_kpm_control", "sc_kpm_unload", "sc_kpm_nums", "sc_kpm_list", "sc_kpm_info",
            "sc_skey_get", "sc_skey_set", "sc_skey_root_enable"}
\* Arguments the functions are meant for: strings that are there and fit,
\* room for the answer, a part of an item that is one.
Limit(f, i) ==
    CASE f \in {"sc_klog", "sc_kpm_load"} \/ (f = "sc_kpm_control" /\ i = 2) -> 1023
      [] f = "sc_kpm_info" -> 63 [] f \in {"sc_kpm_unload", "sc_kpm_control"} -> 31
      [] f = "sc_su_reset_path" -> 127 [] f = "sc_su_reset_all_allow_sctx" -> 95 [] OTHER -> 63
Optional(f, i) == (f = "sc_kpm_load" /\ i \in {2, 3}) \/ (f = "sc_kpm_unload" /\ i = 2)
Answers == [sc_su_get_path |-> "su path",
            sc_kpm_list |-> "modules", sc_kpm_info |-> "info"]
Legal(f, a) ==
    /\ \A i \in DOMAIN a :
        /\ a[i].k = "key" => a[i].v # <<>>
        /\ a[i].k = "str" => a[i].v[1] \in (IF Optional(f, i) THEN 0 ELSE 1)..Limit(f, i)
        /\ a[i].k = "null" => Optional(f, i)
        /\ a[i].k = "profile" => a[i].v[3] < SUPERCALL_SCONTEXT_LEN
        /\ f = "sc_su_allow_uids" /\ i = 2 => a[i].v[1] > 0
    /\ f \in DOMAIN Answers => a[Len(a)].v[1] > Size[Answers[f]]
    /\ f = "sc_skey_get" => a[2].v[1] >= KEY_LEN
    /\ f \in {"sc_kstorage_read", "sc_kstorage_write"} => a[4].v[1] >= 0 /\ a[5].v[1] >= 0
\* An absent string and an empty one are the same.
Same(r, p) ==
    /\ r.does = p.does /\ Len(r.with) >= Len(p.with)
    /\ \A i \in DOMAIN p.with : r.with[i] = p.with[i] \/ {r.with[i], p.with[i]} \subseteq {Null, Str(0)}
\* The library sends no length with this one and no id with that one: the
\* kernel takes what is in the register.
Lost(f, r) == f = "sc_su_get_all_allow_sctx" /\ r = Error("ENOBUFS")
\* A call with arguments it is meant for, through either library or the
\* program, does the work its comment names with all of these arguments, if
\* the key is the superkey (or begins with it), or the root key while that is
\* accepted, or says "su" and the caller's uid is allowed, and the call is not
\* for the superkey alone; whoever has no such key gets the system call as if
\* there were no KernelPatch, and whoever has only "su" gets EPERM.  What
\* counts is the kernel as the call found it or as somebody else left it
\* since: the call that asks for the version may use the root key up and must
\* not lock the second call out.
CallsArrive ==
    turn = "done" /\ job.by # "raw" =>
        LET f == AskedFor.f
            a == AskedFor.a
            superuser == IsPrefix(authed.superkey, job.key) \/ (authed.enable_root_key /\ job.key = RootKey)
            su == job.key = SuKey /\ authed.allowed
        IN  AskedFor # Nothing /\ Legal(f, a) /\ job.key # <<>> =>
                IF superuser \/ (su /\ f \notin KeyOnly) THEN Same(reply, Promise(f, a)) \/ Lost(f, reply)
                ELSE IF su THEN reply = Error("EPERM") ELSE reply = Origin
=============================================================================
