------------------------------ MODULE ProcMem ------------------------------
(***************************************************************************)
(* How the breakpoint module looks into processes: stack_unwind.c walks    *)
(* the stack of the current thread and names the places it finds, taking   *)
(* the lock of the memory map for each (a walker is such a thread; others  *)
(* of its process map, unmap and write to the stack meanwhile), and        *)
(* process_memory.c reads the memory of a process found by its pid, which  *)
(* may exit, and its pid be used again, at any step.                       *)
(***************************************************************************)
EXTENDS SequencesExt, FiniteSetsExt, Integers

CONSTANTS
    Walkers,         \* Threads that have hit a hook or a breakpoint.
    Vmas,            \* What may be mapped: name -> [start, end, file].
    Frames,          \* The addresses of stack frames.
    Places,          \* The values a frame may hold as return address.
    Ips,             \* The places of a 64-bit thread.
    FrameLow,        \* 0x1000: no frame, and no code, is below it.
    FrameHigh,       \* 0xfffffff0: no frame is above it.
    MAX_STACK_DEPTH, \* Entries of a trace.
    MaxFrames,       \* 32, the frames the walk follows.
    MaxBack,         \* 10, the segments it looks back.
    MemReaders,      \* Threads in process_memory_read.
    Procs,           \* Processes that have the pid, one after the other.
    Sizes,           \* What is asked for, in bytes.
    HexRoom,         \* The size of the text buffer, 1024.
    MemSteps         \* Bound: mappings, frames changed and reads begun.

ASSUME MemAssumption ==
    /\ MAX_STACK_DEPTH \in Nat /\ MAX_STACK_DEPTH > 1 /\ MaxFrames \in Nat /\ MaxBack \in Nat
    /\ MemSteps \in Nat
    /\ IsFiniteSet(Frames) /\ Frames \subseteq Int /\ IsFiniteSet(Places) /\ Places \subseteq Int
    /\ Ips \subseteq Int
    /\ IsFiniteSet(MemReaders) /\ \A n \in Sizes : n \in Nat /\ 3 * n < HexRoom
    /\ HexRoom \in Nat

\* Mappings of a process do not overlap.
ASSUME VmaAssumption ==
    /\ IsFiniteSet(DOMAIN Vmas) /\ "none" \notin DOMAIN Vmas
    /\ \A v \in DOMAIN Vmas : /\ Vmas[v].start \in Int /\ Vmas[v].end \in Int
                              /\ Vmas[v].start < Vmas[v].end
    /\ \A v, x \in DOMAIN Vmas : v # x => Vmas[v].end <= Vmas[x].start \/ Vmas[x].end <= Vmas[v].start

VARIABLES
    symbols,  \* The kernel symbols stack_unwind_init has found.
    mapped,   \* The names mapped.
    holders,  \* Who holds the map's lock for reading.
    writer,   \* A thread holds it for writing.
    stack,    \* What the frames hold.
    walk,     \* Each walker.
    life,     \* Each process: unborn, running, exiting, dead or freed.
    users,    \* References to its memory map.
    read,     \* Each reader.
    memSteps

walkVars == <<symbols, mapped, holders, writer, stack, walk>>
readVars0 == <<life, users, read>>
memVars == <<walkVars, readVars0, memSteps>>

Needed == {"find_vma", "down_read_trylock", "up_read", "snprintf"}
Naming == {"file_path", "get_free_page", "free_page"}
NoVma == "none"
\* (unsigned long)-1, above every mapping.
Terminator == 1000

-----------------------------------------------------------------------------
(* The trace of a 32-bit thread *)

Full(t) == Len(t) >= MAX_STACK_DEPTH
Recorded(t, ip) == IF Full(t) THEN t ELSE Append(t, ip)
Unwind(w, rec) == walk' = [walk EXCEPT ![w] = rec]
Walk0 == [pc |-> "idle", trace |-> << >>, fp |-> 0, sp |-> 0, depth |-> 0, met |-> << >>, i |-> 1,
          vma |-> NoVma, base |-> 0, back |-> 0, page |-> FALSE, line |-> 0]

\* unwind_user_stack_standard: the pc, the lr and the frames of a 32-bit
\* thread; another one's trace is the kernel's.
unwind_user_stack_standard(w) ==
    /\ walk[w].pc = "idle"
    /\ \/ \E pc \in Places, lr \in Places, fp, sp \in Frames :
            LET t == Recorded(<<pc>>, lr)
            IN  Unwind(w, [Walk0 EXCEPT !.pc = "frame", !.fp = fp, !.sp = sp,
                                        !.trace = IF lr > FrameLow THEN t ELSE <<pc>>])
       \/ \E pc \in Ips : Unwind(w, [Walk0 EXCEPT !.pc = "place", !.trace = <<pc>>])
    /\ UNCHANGED <<symbols, mapped, holders, writer, stack, readVars0, memSteps>>

FrameIsSound(u) ==
    u.fp >= FrameLow /\ u.fp <= FrameHigh /\ u.fp % 4 = 0 /\ u.fp >= u.sp
WalkEnds(u, next) == next <= u.fp
\* One turn of my_unwind_compat's loop.
my_unwind_compat(w) ==
    LET u == walk[w]
        readable == u.fp \in DOMAIN stack
        frame == stack[u.fp]
        t == IF frame.ret > FrameLow /\ Last(u.trace) # frame.ret
             THEN Append(u.trace, frame.ret) ELSE u.trace
        Ended(tr) == [u EXCEPT !.pc = "place", !.met = << >>, !.trace = Recorded(tr, Terminator)]
    IN  /\ u.pc = "frame"
        /\ IF Full(u.trace) \/ u.depth >= MaxFrames \/ ~FrameIsSound(u) \/ ~readable
           THEN Unwind(w, Ended(u.trace))
           ELSE Unwind(w, IF WalkEnds(u, frame.next) THEN Ended(t)
                          ELSE [u EXCEPT !.trace = t, !.fp = frame.next, !.depth = @ + 1,
                                         !.met = Append(@, u.fp)])
        /\ UNCHANGED <<symbols, mapped, holders, writer, stack, readVars0, memSteps>>

-----------------------------------------------------------------------------
(* get_vma_info_str, once for each entry of the trace *)

Ip(w) == walk[w].trace[walk[w].i]
Says(u, offset) == [u EXCEPT !.pc = "unlock", !.line = offset]
KeepMap == UNCHANGED <<symbols, mapped, stack, readVars0, memSteps>>

\* down_read_trylock; without the symbols, or while the map is being
\* changed, nothing is said of the place.
TryLock(w) ==
    LET u == walk[w]
    IN  /\ u.pc = "place" /\ u.i <= Len(u.trace)
        /\ IF Needed \subseteq symbols /\ ~writer
           THEN holders' = holders \cup {w} /\ Unwind(w, [u EXCEPT !.pc = "find"])
           ELSE holders' = holders /\ Unwind(w, [u EXCEPT !.i = @ + 1])
        /\ UNCHANGED writer /\ KeepMap

Lowest(S) == CHOOSE v \in S : \A x \in S : Vmas[v].start <= Vmas[x].start
Highest(S) == CHOOSE v \in S : \A x \in S : Vmas[v].start >= Vmas[x].start
\* find_vma gives the first that ends behind the address.
find_vma(ip) ==
    LET behind == {v \in mapped : Vmas[v].end > ip}
    IN  IF behind = {} THEN NoVma ELSE Lowest(behind)
NextPlace(w) == Unwind(w, [walk[w] EXCEPT !.pc = "place", !.i = @ + 1, !.vma = NoVma, !.base = 0, !.line = 0])
MutantOutside(w) == NextPlace(w) /\ UNCHANGED holders
\* find_vma has given the next one: up_read, and nothing is said.
Outside(w) == NextPlace(w) /\ holders' = holders \ {w}
Find(w) ==
    LET u == walk[w]
        v == find_vma(Ip(w))
    IN  /\ u.pc = "find"
        /\ IF v # NoVma /\ Ip(w) < Vmas[v].start THEN Outside(w)
           ELSE /\ Unwind(w, IF v = NoVma THEN [u EXCEPT !.pc = "unlock"]
                             ELSE [u EXCEPT !.vma = v, !.base = Vmas[v].start, !.back = 0,
                                            !.pc = IF Vmas[v].file = "anon" THEN "print" ELSE "back"])
                /\ UNCHANGED holders
        /\ UNCHANGED writer /\ KeepMap

Prev(v) ==
    LET before == {x \in mapped : Vmas[x].start < Vmas[v].start}
    IN  IF before = {} THEN NoVma ELSE Highest(before)
SameFile(v, p) == Vmas[p].file = Vmas[v].file
\* The segment before, if it is of the same file.  The walker's vma is the
\* one it has got to.
LookBack(w) ==
    LET u == walk[w]
        p == Prev(u.vma)
    IN  /\ u.pc = "back"
        /\ Unwind(w, IF u.back = MaxBack \/ p = NoVma THEN [u EXCEPT !.pc = "page"]
                     ELSE IF ~SameFile(u.vma, p) THEN [u EXCEPT !.pc = "page"]
                     ELSE [u EXCEPT !.vma = p, !.base = Vmas[p].start, !.back = @ + 1])
        /\ UNCHANGED <<holders, writer>> /\ KeepMap

\* A page for the file's name, if it can be had.
GetPage(w) ==
    LET u == walk[w]
    IN  /\ u.pc = "page"
        /\ \/ Naming \subseteq symbols /\ Unwind(w, [u EXCEPT !.pc = "path", !.page = TRUE])
           \/ Unwind(w, Says(u, Ip(w) - u.base))
        /\ UNCHANGED <<holders, writer>> /\ KeepMap
FilePath(w) ==
    LET u == walk[w]
    IN  /\ u.pc = "path"
        /\ Unwind(w, [Says(u, Ip(w) - u.base) EXCEPT !.page = FALSE])
        /\ UNCHANGED <<holders, writer>> /\ KeepMap
PrintAnon(w) ==
    /\ walk[w].pc = "print"
    /\ Unwind(w, Says(walk[w], Ip(w) - walk[w].base))
    /\ UNCHANGED <<holders, writer>> /\ KeepMap
\* up_read and the next entry, or the end of the trace.
Unlock(w) ==
    /\ walk[w].pc = "unlock"
    /\ NextPlace(w)
    /\ holders' = holders \ {w}
    /\ UNCHANGED writer /\ KeepMap
WalkDone(w) ==
    /\ walk[w].pc = "place" /\ walk[w].i > Len(walk[w].trace)
    /\ Unwind(w, [walk[w] EXCEPT !.pc = "done"])
    /\ UNCHANGED <<holders, writer>> /\ KeepMap

\* Another thread of the process: it changes the map under its lock, and
\* the frames of the stack without any.
WriteLock ==
    /\ holders = {} /\ ~writer /\ memSteps < MemSteps
    /\ writer' = TRUE /\ memSteps' = memSteps + 1
    /\ UNCHANGED <<symbols, mapped, holders, stack, walk, readVars0>>
Remap ==
    /\ writer /\ writer' = FALSE
    /\ \E v \in DOMAIN Vmas : mapped' = IF v \in mapped THEN mapped \ {v} ELSE mapped \cup {v}
    /\ UNCHANGED <<symbols, holders, stack, walk, readVars0, memSteps>>
Scribble ==
    /\ memSteps < MemSteps /\ memSteps' = memSteps + 1
    /\ \E w \in Walkers : walk[w].pc = "frame"
    /\ \E a \in DOMAIN stack, n \in Frames, r \in Places :
        stack' = [stack EXCEPT ![a] = [next |-> n, ret |-> r]]
    /\ UNCHANGED <<symbols, mapped, holders, writer, walk, readVars0>>

-----------------------------------------------------------------------------
(* process_memory_read and process_memory_read_hex *)

Reads(r, rec) == read' = [read EXCEPT ![r] = rec]
Read0 == [pc |-> "idle", task |-> "none", size |-> 0, mm |-> FALSE, got |-> 0, of |-> {},
          ret |-> 0, shown |-> 0]
KeepLife == UNCHANGED <<walkVars, life>>
HasPid(p) == life[p] \in {"running", "exiting"}
Answer(u, ret) == [u EXCEPT !.pc = "done", !.ret = ret, !.mm = FALSE]

ReadHex(r) ==
    /\ read[r].pc = "idle" /\ memSteps < MemSteps
    /\ \E n \in Sizes : Reads(r, [Read0 EXCEPT !.pc = "find", !.size = n, !.of = {p \in Procs : HasPid(p)}])
    /\ memSteps' = memSteps + 1
    /\ UNCHANGED users /\ KeepLife
\* find_vpid and pid_task: without a reference, and outside of any
\* section that would keep the task, which may be freed before it is used; what
\* it says then of its map is taken to be that it has none.
FindTask(r) ==
    /\ read[r].pc = "find"
    /\ IF \E p \in Procs : HasPid(p)
       THEN Reads(r, [read[r] EXCEPT !.pc = "mm", !.task = CHOOSE p \in Procs : HasPid(p)])
       ELSE Reads(r, Answer(read[r], "ESRCH"))
    /\ UNCHANGED <<users, memSteps>> /\ KeepLife
\* get_task_mm: a reference, unless the task has given its map up.
GetMm(r) ==
    LET u == read[r]
    IN  /\ u.pc = "mm"
        /\ IF life[u.task] = "running"
           THEN /\ users' = [users EXCEPT ![u.task] = @ + 1]
                /\ Reads(r, [u EXCEPT !.pc = "access", !.mm = TRUE])
           ELSE /\ users' = users
                /\ Reads(r, Answer(u, "EINVAL"))
        /\ UNCHANGED memSteps /\ KeepLife
\* access_process_vm: it takes its own reference, and gives the bytes up
\* to the first that is not there.
Access(r) ==
    LET u == read[r]
    IN  /\ u.pc = "access"
        /\ \E n \in {0, u.size} :
            /\ n > 0 => life[u.task] = "running"
            /\ Reads(r, [u EXCEPT !.pc = "put", !.got = n])
        /\ UNCHANGED <<users, memSteps>> /\ KeepLife
Put(u) == IF u.mm THEN 1 ELSE 0
\* The loop that prints three characters a byte while there is room for
\* four.
Hexed(n) == 3 * Cardinality({i \in 1..n : 3 * (i - 1) < HexRoom - 3})
PutMm(r) ==
    LET u == read[r]
    IN  /\ u.pc = "put"
        /\ users' = [users EXCEPT ![u.task] = @ - Put(u)]
        /\ Reads(r, IF u.got = 0 THEN Answer(u, "EFAULT")
                    ELSE [Answer(u, u.got) EXCEPT !.shown = Hexed(u.got)])
        /\ UNCHANGED memSteps /\ KeepLife

\* The kernel: a process starts with the pid when none has it, gives up its
\* map, then its pid, and is freed.
Born(p) ==
    /\ life[p] = "unborn" /\ \A q \in Procs : ~HasPid(q)
    /\ life' = [life EXCEPT ![p] = "running"]
    /\ users' = [users EXCEPT ![p] = 1]
    \* Readers under way may meet it.
    /\ read' = [r \in MemReaders |-> IF read[r].pc \in {"idle", "done"} THEN read[r]
                                     ELSE [read[r] EXCEPT !.of = @ \cup {p}]]
    /\ UNCHANGED <<walkVars, memSteps>>
Dies(p) ==
    /\ \/ life[p] = "running" /\ life' = [life EXCEPT ![p] = "exiting"]
                              /\ users' = [users EXCEPT ![p] = @ - 1]
       \/ life[p] = "exiting" /\ life' = [life EXCEPT ![p] = "dead"] /\ UNCHANGED users
       \/ life[p] = "dead" /\ life' = [life EXCEPT ![p] = "freed"] /\ UNCHANGED users
    /\ UNCHANGED <<walkVars, read, memSteps>>

-----------------------------------------------------------------------------

MemInit ==
    /\ symbols \in {Needed \cup Naming, Needed, Naming}
    /\ mapped = DOMAIN Vmas
    /\ holders = {} /\ writer = FALSE
    /\ stack = [a \in Frames \ {Min(Frames), Max(Frames)} |-> [next |-> Max(Frames), ret |-> Max(Places)]]
    /\ walk = [w \in Walkers |-> Walk0]
    /\ life = [p \in Procs |-> "unborn"] /\ users = [p \in Procs |-> 0]
    /\ read = [r \in MemReaders |-> Read0]
    /\ memSteps = 0

WalkNext ==
    \/ \E w \in Walkers :
        \/ unwind_user_stack_standard(w) \/ my_unwind_compat(w) \/ TryLock(w) \/ Find(w)
        \/ LookBack(w) \/ GetPage(w) \/ FilePath(w) \/ PrintAnon(w) \/ Unlock(w) \/ WalkDone(w)
    \/ WriteLock \/ Remap \/ Scribble
ReadNext ==
    \/ \E r \in MemReaders : ReadHex(r) \/ FindTask(r) \/ GetMm(r) \/ Access(r) \/ PutMm(r)
    \/ \E p \in Procs : Born(p) \/ Dies(p)
MemSpec == MemInit /\ [][WalkNext \/ ReadNext]_memVars

-----------------------------------------------------------------------------
(* Properties *)

FileStart(v) ==
    LET Between(x) == {y \in mapped : Vmas[x].start <= Vmas[y].start /\ Vmas[y].start <= Vmas[v].start}
        run == {x \in mapped : v \in Between(x) /\ \A y \in Between(x) : SameFile(v, y)}
    IN  IF Vmas[v].file = "anon" THEN Vmas[v].start ELSE Vmas[Lowest(run)].start
\* While the walker uses a mapping, its lock keeps the mapping; between two
\* places it holds neither the lock nor the page, so that it leaves the
\* process as it was.
NothingIsKept ==
    \A w \in Walkers :
        /\ walk[w].vma # NoVma => w \in holders /\ walk[w].vma \in mapped
        /\ w \in holders => ~writer
        /\ walk[w].pc \in {"idle", "frame", "place", "done"} => w \notin holders /\ ~walk[w].page
\* What is said of a place is its distance from the first segment of the
\* file that is mapped there.
OffsetsAreTrue ==
    \A w \in Walkers :
        walk[w].pc = "unlock" /\ walk[w].vma # NoVma =>
            walk[w].line = Ip(w) - FileStart(find_vma(Ip(w)))
\* The walk goes up the stack, from one frame to a higher one, whatever the
\* frames hold and whoever writes to them, and its trace fits.
WalkGoesUp ==
    \A w \in Walkers :
        /\ Len(walk[w].trace) <= MAX_STACK_DEPTH
        /\ \A i, j \in DOMAIN walk[w].met : i < j => walk[w].met[i] < walk[w].met[j]
        /\ walk[w].pc = "frame" => \A i \in DOMAIN walk[w].met : walk[w].met[i] < walk[w].fp
StackWalks == NothingIsKept /\ OffsetsAreTrue /\ WalkGoesUp

\* A memory map has the references of its process and of the readers at
\* work, and none when both are through; bytes that are shown are all those
\* that were read, of a process that has had the pid during the call.
ReadsAreTrue ==
    /\ \A p \in Procs :
        users[p] = (IF life[p] = "running" THEN 1 ELSE 0)
                   + Cardinality({r \in MemReaders : read[r].mm /\ read[r].task = p})
    /\ \A r \in MemReaders :
        read[r].pc = "done" /\ read[r].got > 0 =>
            /\ read[r].ret = read[r].got /\ read[r].shown = 3 * read[r].got
            /\ read[r].task \in read[r].of
            /\ read[r].shown < HexRoom

\* Looking at another process (stack_unwind.c, process_memory.c) finds what is
\* there, ends, and leaves no lock, page or reference behind.
WalksAndReadsAreTrue == StackWalks /\ ReadsAreTrue
=============================================================================
