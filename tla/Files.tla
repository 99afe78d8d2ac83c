------------------------------- MODULE Files -------------------------------
(***************************************************************************)
(* Open files: handles, the descriptor tables of processes, and the file   *)
(* system calls (kernel/src/fs/fs.c, procfs.c, stat.c, initrd.c,           *)
(* kernel/src/proc/proc.c); before them, the kernel threads that open      *)
(* module files (preload.c), register devices (modules/fs) and list        *)
(* directories (kterm.c).                                                  *)
(*                                                                         *)
(* With an init program, kernel_task preloads the modules and then starts  *)
(* init; from then on files are used by system calls, each of which is one *)
(* step (it runs with interrupts disabled).  Without one, the kernel       *)
(* terminal runs beside kernel_task, both preempted anywhere, also between *)
(* tlock_acquire and tlock_release of a file's lock.                       *)
(*                                                                         *)
(* A handle's memory is reused by the next allocation: a handle is the     *)
(* number of its block, and the lowest free block is taken.  (The kernel's *)
(* own handles on the standard streams are not counted.)  What happens     *)
(* after a freed handle has stayed in a table (misused), and after a null  *)
(* pointer or one that is no pointer to what the code takes it for         *)
(* (halted), is not followed further.                                      *)
(***************************************************************************)
EXTENDS Paths

CONSTANTS
    Procs,          \* processes; the first of them is init
    InitProc,
    Stdin,          \* the stream that init's descriptor 0 is opened on
    MaxOpen,        \* MAX_OPEN_FILES
    MaxHandles,     \* bound: blocks of memory for handles
    Archive,        \* the boot archive
    Requests,       \* what open is called with: [path, write, directory]
    ReadSizes,      \* how much a read asks for
    SizeRange,      \* 2^32, the numbers of a size_t
    MaxPos,         \* bound: the position of a file that has no end
    Readers,        \* the processes whose program lists directories
    Preload,        \* the files that modules_preload reads: the list, then the modules
    Loads,          \* what a file, by its name, is: "list", "devfs" or "driver"
    KtermPaths,     \* what kterm's `mod load` is called with
    MaxLoads,       \* bound: how often
    ListPaths       \* what kterm's ls is called with

\* The descriptors that are in the table.  The range checks also let those through that are
\* negative, and MAX_OPEN_FILES: see StrayCall.
Descs == 0 .. MaxOpen - 1
Handles == 1 .. MaxHandles
Operations == {"none", "initrd", "zero", "stream"}

ASSUME FilesAssumption ==
    /\ InitProc \in Procs
    /\ MaxOpen \in Nat \ {0} /\ MaxHandles \in Nat \ {0}
    /\ MaxPos \in Nat /\ ReadSizes \subseteq Nat /\ MaxLoads \in Nat
    /\ SizeRange \in Nat /\ \A sz \in ReadSizes : sz + MaxPos < SizeRange
    /\ Null \notin Nat /\ Stdin \notin Nat /\ Null # Stdin
    /\ Null \notin [file : Nat \union {Stdin, Null}, open : BOOLEAN, ops : Operations]

\* A path is a sequence; the files of the archive have kinds and lengths.
ASSUME PathsAssumption ==
    /\ Archive \in Seq(ToSet(Archive))
    /\ \A n \in DOMAIN Archive :
          /\ Archive[n].kind \in {"dir", "file", "symlink"} /\ Archive[n].length \in Nat
          /\ \A s \in {Archive[n].path, Archive[n].target} : s \in Seq(ToSet(s))
    /\ \A r \in Requests : r.path \in Seq(ToSet(r.path))
    /\ \A s \in KtermPaths \union ToSet(Preload) \union ListPaths \union {Preload} : s \in Seq(ToSet(s))

VARIABLES
    tree,       \* the tree of files
    modids,     \* the ids that devfs has given to the modules
    hand,       \* the handles: [file, open, ops], or Null when the block is free
    alive,      \* the processes that exist
    fd,         \* kproc_t.open_files
    pos,        \* kproc_t.file_position
    dirp,       \* each program's DIR (user/lib/src/dirent): fd, c_idx; seen and
                \* fresh record what readdir returned since an opendir at index 0
    held,       \* the files whose file_lock is taken
    stage,      \* "preload" and "run" with an init program, "kterm" without
    kthread,    \* the two kernel threads
    linking,    \* per kernel thread, the file that it has linked to its neighbour in the
                \* list of its directory, and whose own link it has not stored yet
    halted,     \* "no", or what stopped the kernel
    misused,    \* has a freed handle stayed in a table?
    opened,     \* history: the file each descriptor was opened on
    delivered   \* history: the bytes each descriptor has delivered

tables == <<fd, pos, opened, delivered>>
kernel == <<kthread, modids, stage, linking>>
procs == <<alive, tables, dirp>>
vars == <<tree, hand, procs, held, kernel, halted, misused>>

NoDir == [fd |-> Null, idx |-> 0, seen |-> <<>>, fresh |-> FALSE, ended |-> FALSE]
Threads == {"kern", "kterm"}
Idle(n) == [at |-> "idle", n |-> n, file |-> Null, hand |-> Null, dir |-> Null, seen |-> <<>>,
            read |-> 0]

\* stream_create: a stream is a file of the root, without a name.
StreamFile == [RootFile EXCEPT !.kind = "stream", !.ops = "stream"]

\* No path leads to a stream; a handle on init's input is on Stdin.
File(f) == IF f = Stdin THEN StreamFile ELSE tree[f]

Init ==
    /\ tree = initrd_mount(fs_init, Archive)
    /\ hand = [h \in Handles |-> Null]
    /\ alive = {}
    /\ fd = [p \in Procs |-> [d \in Descs |-> Null]]
    /\ pos = [p \in Procs |-> [d \in Descs |-> 0]]
    /\ opened = fd
    /\ delivered = pos
    /\ dirp = [p \in Procs |-> NoDir]
    /\ held = {} /\ modids = <<>>
    /\ stage \in {"preload", "kterm"}
    /\ kthread = [t \in Threads |-> IF t = "kterm" THEN [Idle(0) EXCEPT !.at = "start"] ELSE Idle(0)]
    /\ linking = [t \in Threads |-> Null]
    /\ halted = "no" /\ misused = FALSE

-----------------------------------------------------------------------------
\* p makes a system call.
Calls(p) == p \in alive /\ halted = "no" /\ ~misused

\* A kernel thread runs.
Runs(t) ==
    /\ halted = "no" /\ kthread[t].at \notin {"stuck", "stop"} /\ linking[t] = Null
    /\ stage = "kterm" \/ (stage = "preload" /\ t = "kern")

FreeHandles == {h \in Handles : hand[h] = Null}

\* fs_open(f, hand): a symbolic link of the archive is followed each time it is
\* opened, by another call of fs_open; the other files open themselves, and a file
\* without operations is opened by fs_open.
LinkTarget(f) == fs_find_file(tree, tree[f].parent, tree[f].target)
IsLink(f) == f # Null /\ f # Stdin /\ tree[f].ops = "initrd" /\ tree[f].kind = "symlink"

\* The files that are opened one after the other, starting with f: the last one is
\* no link, or Null, unless the links go round in a circle.
Chain(f) ==
    LET chain[n \in 0 .. Len(tree)] ==
            IF n = 0 THEN <<f>>
            ELSE LET c == chain[n - 1] IN
                 IF IsLink(Last(c)) THEN Append(c, LinkTarget(Last(c))) ELSE c
    IN  chain[Len(tree)]

\* The initrd refuses to open for writing; devices drop the flags they were given.
CanOpen(f, write) == f # Null /\ (tree[f].ops = "initrd" => ~write)

\* kfile_t.link: what a symbolic link led to when it was opened.
Linked(chain) ==
    [f \in DOMAIN tree |->
        IF \E i \in 1 .. Len(chain) - 1 : chain[i] = f
        THEN [tree[f] EXCEPT !.link = LinkTarget(f)] ELSE tree[f]]

Opened(f) == [file |-> f, open |-> TRUE, ops |-> tree[f].ops]

-----------------------------------------------------------------------------
(* proc_fs_open                                                            *)

\* proc_add_file: the first free descriptor.
FreeDescs(p) == {d \in Descs : fd[p][d] = Null}

\* Mutant: the position of the file that had the descriptor before stays.
proc_add_file_keep(p, d, h, f) ==
    /\ fd' = [fd EXCEPT ![p][d] = h]
    /\ opened' = [opened EXCEPT ![p][d] = f]
    /\ delivered' = [delivered EXCEPT ![p][d] = 0]
    /\ UNCHANGED pos

\* The descriptor's entry, and its position.
proc_add_file(p, d, h, f) ==
    /\ fd' = [fd EXCEPT ![p][d] = h]
    /\ pos' = [pos EXCEPT ![p][d] = 0]
    /\ opened' = [opened EXCEPT ![p][d] = f]
    /\ delivered' = [delivered EXCEPT ![p][d] = 0]

\* The requests that get as far as fs_open: the path exists and is a directory if
\* one is asked for (not a link to one: the link itself is looked at).
Lookup(r) == fs_find_file(tree, Root, r.path)
Checked(r, f) == f # Null /\ (r.directory => tree[f].kind = "dir")

\* The locks on the way are free: nobody is preempted inside a system call.
Openable(p, r, chain) ==
    /\ Calls(p) /\ FreeHandles # {} /\ CanOpen(chain[1], r.write) /\ Last(chain) # Null

\* The links form a circle: fs_open and _open call each other until the stack is
\* used up.
OpenLoop(p, r, chain) ==
    /\ Openable(p, r, chain) /\ IsLink(Last(chain))
    /\ halted' = "overflow"
    /\ UNCHANGED <<tree, hand, alive, tables, dirp, held, kernel, misused>>

OpenNew(p, r, chain) ==
    /\ Openable(p, r, chain) /\ ~IsLink(Last(chain))
    /\ FreeDescs(p) # {} /\ Min(FreeDescs(p)) > 0
    /\ LET h == Min(FreeHandles) IN
       /\ hand' = [hand EXCEPT ![h] = Opened(Last(chain))]
       /\ proc_add_file(p, Min(FreeDescs(p)), h, Last(chain))
    /\ tree' = Linked(chain)
    /\ UNCHANGED <<alive, dirp, held, kernel, halted, misused>>

\* proc_add_file has returned 0: the handle is freed, but it is in the table.
OpenZero(p, r, chain) ==
    /\ Openable(p, r, chain) /\ ~IsLink(Last(chain))
    /\ 0 \in FreeDescs(p)
    /\ proc_add_file(p, 0, Min(FreeHandles), Last(chain))
    /\ misused' = TRUE /\ tree' = Linked(chain)
    /\ UNCHANGED <<hand, alive, dirp, held, kernel, halted>>

\* A link on the way leads nowhere.  Those before it remember what they have led to.
OpenDangling(p, r, chain) ==
    /\ Calls(p) /\ CanOpen(chain[1], r.write) /\ Last(chain) = Null
    /\ tree' = Linked(chain)
    /\ UNCHANGED <<hand, alive, tables, dirp, held, kernel, halted, misused>>

\* proc_fs_open.  The other requests that fail change nothing.
Open(p, r) ==
    \E f \in {Lookup(r)} :
        /\ Checked(r, f)
        /\ \E chain \in {Chain(f)} :
              \/ OpenNew(p, r, chain) \/ OpenZero(p, r, chain)
              \/ OpenLoop(p, r, chain) \/ OpenDangling(p, r, chain)

-----------------------------------------------------------------------------
(* proc_fs_close, fork, exit and execve                                    *)

References(h) == {r \in alive \X Descs : fd[r[1]][r[2]] = h}

\* Mutant: the entry stays in the table.
CloseKeep(p, d) ==
    /\ Calls(p) /\ fd[p][d] # Null
    /\ hand' = [hand EXCEPT ![fd[p][d]] = Null]
    /\ UNCHANGED fd

\* fs_close and kfree of the handle, whoever else has it.
CloseHandle(p, d) ==
    /\ Calls(p) /\ fd[p][d] # Null
    /\ hand' = [hand EXCEPT ![fd[p][d]] = Null]
    /\ fd' = [fd EXCEPT ![p][d] = Null]

Close(p, d) ==
    /\ CloseHandle(p, d)
    /\ misused' = (References(fd[p][d]) # {<<p, d>>})
    /\ dirp' = IF dirp[p].fd = d THEN [dirp EXCEPT ![p] = [NoDir EXCEPT !.idx = dirp[p].idx]] ELSE dirp
    /\ opened' = [opened EXCEPT ![p][d] = Null]
    /\ delivered' = [delivered EXCEPT ![p][d] = 0]
    /\ UNCHANGED <<tree, alive, pos, held, kernel, halted>>

\* fork copies the table, not the handles; the memory of the program, its DIR
\* included, is copied too.
Fork(p, c) ==
    /\ Calls(p) /\ c \notin alive
    /\ alive' = alive \union {c}
    /\ fd' = [fd EXCEPT ![c] = fd[p]]
    /\ pos' = [pos EXCEPT ![c] = pos[p]]
    /\ opened' = [opened EXCEPT ![c] = opened[p]]
    /\ delivered' = [delivered EXCEPT ![c] = delivered[p]]
    /\ dirp' = [dirp EXCEPT ![c] = IF c \in Readers THEN dirp[p] ELSE NoDir]
    /\ UNCHANGED <<tree, hand, held, kernel, halted, misused>>

\* exit closes nothing: the handles stay allocated.
Exit(p) ==
    /\ Calls(p) /\ p # InitProc
    /\ alive' = alive \ {p}
    /\ fd' = [fd EXCEPT ![p] = [d \in Descs |-> Null]]
    /\ pos' = [pos EXCEPT ![p] = [d \in Descs |-> 0]]
    /\ opened' = [opened EXCEPT ![p] = [d \in Descs |-> Null]]
    /\ delivered' = [delivered EXCEPT ![p] = [d \in Descs |-> 0]]
    /\ dirp' = [dirp EXCEPT ![p] = NoDir]
    /\ UNCHANGED <<tree, hand, held, kernel, halted, misused>>

\* execve keeps the table and starts a new program, with a DIR of its own.
Exec(p) ==
    /\ Calls(p) /\ dirp[p] # NoDir
    /\ dirp' = [dirp EXCEPT ![p] = NoDir]
    /\ UNCHANGED <<tree, hand, alive, tables, held, kernel, halted, misused>>

-----------------------------------------------------------------------------
(* Reading                                                                 *)

\* kfstat: the length is that of the file at the end of the links that have been
\* followed so far.
kfstat(f) ==
    LET end[n \in 0 .. Len(tree)] ==
            IF n = 0 THEN f
            ELSE LET g == end[n - 1] IN IF tree[g].link = Null THEN g ELSE tree[g].link
    IN  [inode |-> f, size |-> tree[end[Len(tree)]].length]

\* proc_fs_stat, of a path; proc_fs_access, of a path in an open directory.
proc_fs_stat(path) ==
    LET f == fs_find_file(tree, Root, path) IN IF f = Null THEN Null ELSE kfstat(f)
proc_fs_access(p, d, path) ==
    fd[p][d] # Null /\ fs_find_file(tree, hand[fd[p][d]].file, path) # Null

\* proc_fs_read_blk keeps a position for everything but streams.
Advances(f) == File(f).kind # "stream"

\* _read of the initrd.  The sum may wrap around, and then too much is read.  No program has
\* a buffer of that size (FilesAssumption).
InitrdLength(len, off, sz) ==
    LET sum == IF sz + off >= SizeRange THEN sz + off - SizeRange ELSE sz + off
    IN  IF off >= len THEN 0 ELSE IF sum > len THEN len - off ELSE sz

\* fs_read: the operation of the handle; a handle without operations reads nothing.
ReadLength(h, off, sz) ==
    CASE hand[h].ops = "initrd" -> InitrdLength(File(hand[h].file).length, off, sz)
      [] hand[h].ops \in {"zero", "stream"} -> sz
      [] OTHER -> 0

\* __read_file: from the beginning, as much as kfstat says.
__read_file(h) == ReadLength(h, 0, kfstat(hand[h].file).size)

\* proc_fs_read_blk.  (proc_fs_read is given an offset and changes nothing.)
ReadBlk(p, d, sz) ==
    /\ Calls(p) /\ fd[p][d] # Null
    /\ LET n == ReadLength(fd[p][d], pos[p][d], sz)
           f == hand[fd[p][d]].file
       IN  /\ pos[p][d] + n <= MaxPos
           /\ pos' = [pos EXCEPT ![p][d] = IF Advances(f) THEN @ + n ELSE @]
           /\ delivered' = [delivered EXCEPT ![p][d] = IF f = Stdin THEN 0 ELSE @ + n]
    /\ UNCHANGED <<tree, hand, alive, fd, opened, dirp, held, kernel, halted, misused>>

\* The calls that end at a null pointer instead of an error: readdir and getdirinfo
\* do not test whether the descriptor is open; mkdir, create and ioctl test the
\* operations the wrong way round, and use them when there are none.
NullPointer(p, d) ==
    /\ Calls(p)
    /\ fd[p][d] # Null => hand[fd[p][d]].ops = "none"
    /\ halted' = "null"
    /\ UNCHANGED <<tree, hand, alive, tables, dirp, held, kernel, misused>>

\* The words of kproc_t beside the table that a descriptor outside of it names: cwd for -1
\* (and other fields for less), the first file position for MAX_OPEN_FILES.  A word that is
\* not 0 is used as the address of a handle: read from, written through, or freed.
Beside == {"cwd", "position"}
StrayCall(p, word) ==
    /\ Calls(p) /\ (word = "position" => pos[p][0] # 0)
    /\ halted' = "stray"
    /\ UNCHANGED <<tree, hand, alive, tables, dirp, held, kernel, misused>>

-----------------------------------------------------------------------------
(* Listing a directory                                                     *)

\* opendir: the DIR is static and its index is not reset.
Opendir(p, d) ==
    /\ Calls(p) /\ p \in Readers
    /\ fd[p][d] # Null /\ File(hand[fd[p][d]].file).kind = "dir"
    /\ dirp[p].fd # d \/ ~dirp[p].fresh
    /\ dirp' = [dirp EXCEPT ![p] = [NoDir EXCEPT !.fd = d, !.idx = dirp[p].idx,
                                                 !.fresh = (dirp[p].idx = 0)]]
    /\ UNCHANGED <<tree, hand, alive, tables, held, kernel, halted, misused>>

\* Mutant: the two entries every directory has are forgotten in the index.
DirEntriesLong(f) == <<f, IF tree[f].parent = Null THEN f ELSE tree[f].parent>> \o SelectSeq(Children(tree, f), LAMBDA g : g # Children(tree, f)[1])

\* proc_fs_readdir(idx): ".", "..", and the children from index 2 on.
DirEntries(f) == <<f, IF tree[f].parent = Null THEN f ELSE tree[f].parent>> \o Children(tree, f)

Listing(p) == dirp[p].fd # Null /\ fd[p][dirp[p].fd] # Null /\ dirp[p].fresh
ListedDir(p) == hand[fd[p][dirp[p].fd]].file

proc_fs_readdir(p) ==
    /\ Calls(p) /\ Listing(p) /\ ~dirp[p].ended
    /\ LET es == DirEntries(ListedDir(p))
           k == dirp[p]
           i == k.idx + 1
       IN  dirp' = [dirp EXCEPT ![p] = IF i > Len(es) THEN [k EXCEPT !.ended = TRUE]
                                       ELSE [k EXCEPT !.idx = i, !.seen = Append(@, es[i])]]
    /\ UNCHANGED <<tree, hand, alive, tables, held, kernel, halted, misused>>

-----------------------------------------------------------------------------
(* The kernel threads: modules_preload, kterm's `mod load` and ls          *)

Goes(t, rec) == kthread' = [kthread EXCEPT ![t] = rec]

\* fs_find_file and fs_handle_create_open, up to tlock_acquire.  kernel_task goes
\* through its list and stops at the first file that is not there.
KOpen(t, path) ==
    /\ Runs(t) /\ kthread[t].at = "idle" /\ FreeHandles # {}
    /\ IF t = "kern" THEN kthread[t].n < Len(Preload) /\ path = Preload[kthread[t].n + 1]
                     ELSE kthread[t].n < MaxLoads /\ path \in KtermPaths
    /\ \E f \in {fs_find_file(tree, Null, path)}, h \in {Min(FreeHandles)} :
          \/ /\ f = Null /\ Goes(t, [Idle(kthread[t].n + 1) EXCEPT !.at = IF t = "kern" THEN "stop" ELSE "idle"])
             /\ UNCHANGED <<hand, held>>
          \/ /\ f # Null
             /\ Goes(t, [kthread[t] EXCEPT !.at = IF f \in held THEN "stuck" ELSE "locked",
                                           !.file = f, !.hand = h])
             /\ hand' = [hand EXCEPT ![h] = [file |-> Null, open |-> FALSE, ops |-> "none"]]
             /\ held' = held \union {f}
    /\ UNCHANGED <<tree, procs, modids, stage, linking, halted, misused>>

\* Is somebody in the queue of a file's lock?  (A waiter enters itself again and
\* again.)
Contended(f) == \E t \in Threads : kthread[t].at = "stuck" /\ kthread[t].file = f

\* tlock_release: with somebody in the queue the lock is handed over, to a thread
\* that never takes it: the loop of tlock_acquire does not end.
tlock_release(f) == IF Contended(f) THEN held ELSE held \ {f}

\* The file cannot be opened or the module not be installed: kernel_task stops.
Failed(t) == Goes(t, [Idle(kthread[t].n + 1) EXCEPT !.at = IF t = "kern" THEN "stop" ELSE "idle"])

\* Mutant: without the release.
KFailKeep(t) ==
    /\ Failed(t) /\ hand' = [hand EXCEPT ![kthread[t].hand] = Null]
    /\ UNCHANGED held

\* _open returns an error: the link leads nowhere.  (It remembers a null pointer, as before:
\* LinksFresh.)
KFail(t) ==
    /\ Failed(t) /\ hand' = [hand EXCEPT ![kthread[t].hand] = Null]
    /\ held' = tlock_release(kthread[t].file)

\* The lock is released; then the next link is opened, or the file is open.
KRelease(t) ==
    /\ Runs(t) /\ kthread[t].at = "locked"
    /\ LET f == kthread[t].file
           next == LinkTarget(f)
           freed == tlock_release(f)
       IN  \/ /\ ~IsLink(f)
              /\ Goes(t, [kthread[t] EXCEPT !.at = "open"])
              /\ hand' = [hand EXCEPT ![kthread[t].hand] = Opened(f)]
              /\ held' = freed /\ UNCHANGED tree
           \/ IsLink(f) /\ next = Null /\ KFail(t) /\ UNCHANGED tree
           \/ /\ IsLink(f) /\ next # Null
              /\ Goes(t, [kthread[t] EXCEPT !.at = IF next \in freed THEN "stuck" ELSE "locked",
                                            !.file = next])
              /\ held' = freed \union {next}
              /\ tree' = [tree EXCEPT ![f].link = next]
              /\ UNCHANGED hand
    /\ UNCHANGED <<procs, modids, stage, linking, halted, misused>>

DevDir == <<Sep, "dev">>
_dev_file == fs_find_file(tree, Null, DevDir)
NewFile(name) == [RootFile EXCEPT !.kind = "dir", !.name = name]

\* A new id is looked for in a list that already has the module in it, by a loop
\* that stops at the first item: it is always 1.
_next_modid == 1

\* fs_read_file_by_path, of the list of modules.
KReadFile(t) ==
    /\ Runs(t) /\ kthread[t].at = "open"
    /\ Loads[tree[kthread[t].file].name] = "list"
    /\ Goes(t, [kthread[t] EXCEPT !.at = "loaded", !.read = __read_file(kthread[t].hand)])
    /\ UNCHANGED <<tree, hand, modids, procs, held, stage, linking, halted, misused>>

\* fs_add_file by a kernel thread, up to llist.c:35: the file is linked to the last one of
\* its directory, but nothing to it.  The list's lock keeps other writers out.
Adds(t, file, parent) ==
    /\ \A u \in Threads : linking[u] # Null => tree[linking[u]].parent # parent
    /\ tree' = fs_add_file(tree, file, parent)
    /\ linking' = [linking EXCEPT ![t] = Len(tree) + 1]

\* The file is linked to the first one of its directory, and the lock released.
KLink(t) ==
    /\ halted = "no" /\ linking[t] # Null
    /\ linking' = [linking EXCEPT ![t] = Null]
    /\ UNCHANGED <<tree, hand, procs, held, kthread, modids, stage, halted, misused>>

\* kterm begins with its input stream.
KStream ==
    /\ Runs("kterm") /\ kthread["kterm"].at = "start"
    /\ Adds("kterm", StreamFile, Root)
    /\ Goes("kterm", [kthread["kterm"] EXCEPT !.at = "idle"])
    /\ UNCHANGED <<hand, procs, held, modids, stage, halted, misused>>

\* module_install: the START function of the module (devfs_init, or
\* devfs_register_module and devfs_register_file).  A driver requires devfs.
KInstall(t) ==
    /\ Runs(t) /\ kthread[t].at = "open"
    /\ \/ /\ Loads[tree[kthread[t].file].name] = "devfs"
          /\ Adds(t, NewFile(Tail(DevDir)), Root)
          /\ Goes(t, [kthread[t] EXCEPT !.at = "loaded"]) /\ UNCHANGED <<modids, hand>>
       \/ /\ Loads[tree[kthread[t].file].name] = "driver" /\ _dev_file # Null
          /\ Adds(t, NewFile(tree[kthread[t].file].name), _dev_file)
          /\ modids' = Append(modids, _next_modid)
          /\ Goes(t, [kthread[t] EXCEPT !.at = "ops", !.file = Len(tree) + 1]) /\ UNCHANGED hand
       \/ /\ Loads[tree[kthread[t].file].name] = "driver" /\ _dev_file = Null
          /\ hand' = IF t = "kern" THEN [hand EXCEPT ![kthread[t].hand] = Null] ELSE hand
          /\ Failed(t) /\ UNCHANGED <<tree, modids, linking>>
    /\ UNCHANGED <<procs, held, stage, halted, misused>>

\* The driver sets the operations of its file when it has registered it.
KOps(t) ==
    /\ Runs(t) /\ kthread[t].at = "ops"
    /\ tree' = [tree EXCEPT ![kthread[t].file].ops = "zero"]
    /\ Goes(t, [kthread[t] EXCEPT !.at = "loaded"])
    /\ UNCHANGED <<hand, procs, held, modids, stage, linking, halted, misused>>

\* modules_preload frees the handle without fs_close; kterm keeps it.
KDone(t) ==
    /\ Runs(t) /\ kthread[t].at = "loaded"
    /\ hand' = IF t = "kern" THEN [hand EXCEPT ![kthread[t].hand] = Null] ELSE hand
    /\ Goes(t, Idle(kthread[t].n + 1))
    /\ UNCHANGED <<tree, procs, held, modids, stage, linking, halted, misused>>

\* kterm's ls: fs_opendir takes the first child, which has to exist.
fs_opendir ==
    /\ Runs("kterm") /\ kthread["kterm"].at = "idle"
    /\ \E path \in ListPaths : \E d \in {fs_find_file(tree, Null, path)} :
          /\ d # Null
          /\ IF Children(tree, d) = <<>>
             THEN halted' = "null" /\ UNCHANGED kthread
             ELSE /\ Goes("kterm", [kthread["kterm"] EXCEPT !.at = "ls", !.dir = d,
                                                            !.file = Head(Children(tree, d))])
                  /\ UNCHANGED halted
    /\ UNCHANGED <<tree, hand, procs, held, modids, stage, linking, misused>>

\* fs_readdir returns the current child and goes on to the next; the listing ends
\* when the list is back at its first item.  It takes no lock.
fs_readdir ==
    /\ Runs("kterm") /\ kthread["kterm"].at = "ls" /\ kthread["kterm"].file \notin Range(linking)
    /\ LET k == kthread["kterm"]
           cs == Children(tree, k.dir)
           i == CHOOSE n \in DOMAIN cs : cs[n] = k.file
       IN  Goes("kterm", [k EXCEPT !.seen = Append(@, k.file),
                                   !.at = IF i = Len(cs) THEN "done" ELSE "ls",
                                   !.file = IF i = Len(cs) THEN Null ELSE cs[i + 1]])
    /\ UNCHANGED <<tree, hand, procs, held, modids, stage, linking, halted, misused>>

\* The ls, or a look-up (fs_finddir) that finds no file of the name it looks for, has come to
\* the half linked file: the next pointer it follows is null.  (Whether the look-up ends in
\* the directory of that file is not told apart.)
HalfLinked(t) ==
    /\ Runs(t) /\ \E u \in Threads : linking[u] # Null
    /\ \/ kthread[t].at = "ls" /\ kthread[t].file \in Range(linking)
       \/ kthread[t].at = "idle" /\ \E path \in KtermPaths \union Range(Preload) \union ListPaths :
                                      fs_find_file(tree, Null, path) = Null
       \/ kthread[t].at = "locked" /\ IsLink(kthread[t].file) /\ LinkTarget(kthread[t].file) = Null
    /\ halted' = "half"
    /\ UNCHANGED <<tree, hand, procs, held, kernel, misused>>

ListDone ==
    /\ Runs("kterm") /\ kthread["kterm"].at = "done"
    /\ Goes("kterm", Idle(kthread["kterm"].n))
    /\ UNCHANGED <<tree, hand, procs, held, modids, stage, linking, halted, misused>>

\* The modules are loaded, or one of them is not: init starts.  The three standard streams
\* are added to the root; the first is init's descriptor 0 (1 and 2, the output streams,
\* behave alike and are left out).
_spawn_init ==
    /\ stage = "preload" /\ kthread["kern"].at \in {"idle", "stop"} /\ linking["kern"] = Null
    /\ kthread["kern"].n >= Len(Preload) \/ kthread["kern"].at = "stop"
    /\ stage' = "run" /\ alive' = {InitProc}
    /\ \E h \in {Min(FreeHandles)} :
          /\ hand' = [hand EXCEPT ![h] = [file |-> Stdin, open |-> TRUE, ops |-> "stream"]]
          /\ fd' = [fd EXCEPT ![InitProc][0] = h]
    /\ opened' = [opened EXCEPT ![InitProc][0] = Stdin]
    /\ tree' = fs_add_file(fs_add_file(fs_add_file(tree, StreamFile, Root), StreamFile, Root), StreamFile, Root)
    /\ UNCHANGED <<pos, delivered, dirp, held, kthread, modids, linking, halted, misused>>

-----------------------------------------------------------------------------
ProcCall(p) ==
    \/ \E r \in Requests : Open(p, r)
    \/ \E d \in Descs : Close(p, d) \/ Opendir(p, d) \/ NullPointer(p, d)
    \/ \E d \in Descs, sz \in ReadSizes : ReadBlk(p, d, sz)
    \/ \E word \in Beside : StrayCall(p, word)
    \/ \E c \in Procs : Fork(p, c)
    \/ Exit(p) \/ Exec(p) \/ proc_fs_readdir(p)

KernelStep(t) ==
    \/ \E path \in KtermPaths \union Range(Preload) : KOpen(t, path)
    \/ KRelease(t) \/ KReadFile(t) \/ KInstall(t) \/ KOps(t) \/ KDone(t)
    \/ KLink(t) \/ HalfLinked(t)

Next ==
    \/ \E t \in Threads : KernelStep(t)
    \/ KStream \/ fs_opendir \/ fs_readdir \/ ListDone
    \/ _spawn_init
    \/ \E p \in Procs : ProcCall(p)

Spec == Init /\ [][Next]_vars

\* A kernel thread that holds a file's lock goes on.
FairSpec == Spec /\ \A t \in Threads : WF_vars(KRelease(t))

-----------------------------------------------------------------------------
TypeOK ==
    /\ \A f \in DOMAIN tree \ {Root} : tree[f].parent \in DOMAIN tree
    /\ hand \in [Handles -> [file : DOMAIN tree \union {Stdin, Null}, open : BOOLEAN,
                             ops : Operations] \union {Null}]
    /\ fd \in [Procs -> [Descs -> Handles \union {Null}]]
    /\ pos \in [Procs -> [Descs -> 0 .. MaxPos]]
    /\ held \subseteq DOMAIN tree

\* A descriptor leads to a live, open handle on the file it was opened on, whatever
\* was opened, closed, forked, freed and reused in the meantime.  (Up to the first
\* close of an inherited descriptor and the first open that finds descriptor 0
\* free: proc_fs_close frees a handle that others refer to, and proc_fs_open one
\* that it has put into the table.)
DescriptorsSound ==
    ~misused => \A p \in alive, d \in Descs :
        fd[p][d] # Null =>
            /\ hand[fd[p][d]] # Null
            /\ hand[fd[p][d]].open
            /\ hand[fd[p][d]].file = opened[p][d]

\* A link that has been followed once is remembered (kfile_t.link).  It still leads
\* to where opening it leads, and to processes stat reports the size of that file,
\* whatever was added to the tree since.  (The links of the archive are in the root.)
LinksFresh ==
    \A f \in DOMAIN tree : tree[f].link # Null =>
        /\ tree[f].link = LinkTarget(f)
        /\ stage = "run" /\ Last(Chain(f)) # Null /\ ~IsLink(Last(Chain(f))) =>
              proc_fs_stat(<<Sep>> \o tree[f].name).size = tree[Last(Chain(f))].length

\* A file is read from its beginning and without gaps through each descriptor: the
\* position is what has been delivered through it since it was opened, also when
\* the descriptor was used for another file before, or was inherited
\* (proc_add_file, proc_fs_read_blk).
PositionIsRead ==
    ~misused => \A p \in alive, d \in Descs :
        fd[p][d] # Null /\ hand[fd[p][d]] # Null =>
            /\ pos[p][d] = delivered[p][d]
            /\ hand[fd[p][d]].ops = "initrd" => pos[p][d] <= tree[hand[fd[p][d]].file].length

\* A descriptor that is not in the table is refused, as proc_fs_access does with its two
\* comparisons and the errors -EBADF of the other calls promise.
DescriptorsChecked == halted # "stray"

\* fs_read_file_by_path has read the whole list of modules, also through a link: the size is
\* that of the file the handle has come to be open on.
ReadWhole ==
    \A t \in Threads : kthread[t].at = "loaded" /\ Loads[tree[kthread[t].file].name] = "list" =>
        kthread[t].read = tree[hand[kthread[t].hand].file].length

\* Descriptors and followed links stay sound, and files are read whole.
FilesInv == TypeOK /\ DescriptorsSound /\ LinksFresh /\ ReadWhole

\* A file's lock is taken only while a kernel thread is inside, or when a thread
\* asked for it meanwhile: without contention _open leaves no lock behind, on any
\* of its ways out, and none is taken when the processes start.
LockAccounted ==
    /\ \A f \in held : \E t \in Threads :
          kthread[t].file = f /\ kthread[t].at \in {"locked", "stuck"}
    /\ stage = "run" => held = {}

\* A program that reads a directory to the end has seen ".", ".." and every file in it once
\* and in order, and finds each of them that has a name (streams have none) through the
\* directory.  kterm's ls, too, has seen every file once and in order if it gets to the end,
\* also when devices were registered in the meantime: it may instead have met a file that
\* was linked by half, and stopped the kernel (HalfLinked).
ListingsComplete ==
    [][/\ \A p \in alive : dirp'[p].ended /\ ~dirp[p].ended =>
             /\ SubSeq(dirp[p].seen, 3, Len(dirp[p].seen)) = Children(tree, ListedDir(p))
             /\ \A g \in Range(Children(tree, ListedDir(p))) : tree[g].name # <<>> =>
                   proc_fs_access(p, dirp[p].fd, tree[g].name)
             /\ dirp[p].seen[1] = ListedDir(p)
             /\ dirp[p].seen[2] = Enter(tree, ListedDir(p), <<Dot, Dot>>)
       /\ kthread'["kterm"].at = "done" /\ kthread["kterm"].at # "done" =>
             kthread'["kterm"].seen = Children(tree, kthread["kterm"].dir)]_vars

\* tlock_release signals the next thread that waits for the lock, which acquires
\* it: a thread that waits for a file's lock gets it.
OpenReturns == \A t \in Threads : kthread[t].at = "stuck" ~> kthread[t].at # "stuck"
=============================================================================
