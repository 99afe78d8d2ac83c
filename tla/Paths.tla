------------------------------- MODULE Paths -------------------------------
(***************************************************************************)
(* The tree of files and the resolution of paths in it: fs_find_file,      *)
(* fs_finddir and fs_add_file (kernel/src/fs/fs.c), basename and dirname   *)
(* (kernel/src/std/libgen.c) and the construction of the tree from the     *)
(* boot archive (kernel/src/fs/initrd.c).                                  *)
(*                                                                         *)
(* A path is a sequence of tokens: "/", "." and names.  A name is itself a *)
(* sequence of tokens other than "/", so that <<".", "a">> is a hidden     *)
(* file and <<"a">> an ordinary one; what follows the first token of a     *)
(* name does not matter to the code.                                       *)
(*                                                                         *)
(* A tree is the sequence of its files by inode, beginning with the root.  *)
(* Files are never taken out of the tree, and each is appended to its      *)
(* parent's list when it is added: the list of children of a directory is  *)
(* the sequence of its files by inode.                                     *)
(***************************************************************************)
EXTENDS Naturals, Sequences, SequencesExt, FiniteSetsExt

CONSTANT Null      \* the null pointer

Root == 1
Sep == "/"
Dot == "."

\* fs_init: the root directory alone, without operations.
RootFile == [name |-> <<>>, parent |-> Null, kind |-> "dir", ops |-> "none",
             length |-> 0, target |-> <<>>, link |-> Null]
fs_init == <<RootFile>>

\* fs_add_file: the file gets the next inode and becomes the last of its parent's
\* children.
fs_add_file(tree, file, parent) ==
    Append(tree, [file EXCEPT !.parent = parent])

\* kfile_t.children, in the order of the list.
Children(tree, d) ==
    LET listed[f \in 0 .. Len(tree)] ==
            IF f = 0 THEN <<>>
            ELSE IF tree[f].parent = d THEN Append(listed[f - 1], f) ELSE listed[f - 1]
    IN  listed[Len(tree)]

fs_finddir(tree, d, name) ==
    LET named == {f \in DOMAIN tree : tree[f].parent = d /\ tree[f].name = name} IN
    IF d = Null \/ named = {} THEN Null ELSE Min(named)

\* Mutant: the last separator, as strrchr finds it.
LastSepFrom(path, i) ==
    LET seps == {j \in i .. Len(path) : path[j] = Sep} IN IF seps = {} THEN Len(path) + 1 ELSE Max(seps)

\* strchr(path + i, '/'): the position of the next separator, Len + 1 if none.
NextSep(path, i) ==
    Min({j \in i .. Len(path) : path[j] = Sep} \union {Len(path) + 1})

\* One call of fs_find_file with the path from position i on: the file it
\* returns, or the arguments of the call it ends with.
Found(f) == [done |-> TRUE, file |-> f, at |-> 0]
GoOn(f, i) == [done |-> FALSE, file |-> f, at |-> i]

FindStep(tree, start, path, i) ==
    LET f == IF start = Null THEN Root ELSE start
        end == Len(path)
        \* after a dot or two: skip one separator, if there is one
        Skip(dir, j) == IF j > end THEN Found(dir)
                        ELSE GoOn(dir, IF path[j] = Sep THEN j + 1 ELSE j)
        sep == NextSep(path, i)
        down == fs_finddir(tree, f, SubSeq(path, i, sep - 1))
    IN  IF i > end THEN Found(Null)
        ELSE IF path[i] = Dot /\ i < end /\ path[i + 1] = Dot
             THEN Skip(tree[f].parent, i + 2)
        ELSE IF path[i] = Dot THEN Skip(f, i + 1)
        ELSE IF path[i] = Sep
             THEN IF i = end THEN Found(Root) ELSE GoOn(Root, i + 1)
        ELSE IF sep > end \/ down = Null THEN Found(down)
        ELSE GoOn(down, sep + 1)

\* fs_find_file(f, path): every call but the last shortens the path.
fs_find_file(tree, f, path) ==
    LET calls == Len(path) + 1
        walk[n \in 0 .. calls] ==
            IF n = 0 THEN GoOn(f, 1)
            ELSE LET w == walk[n - 1] IN
                 IF w.done THEN w ELSE FindStep(tree, w.file, path, w.at)
    IN  walk[calls].file

-----------------------------------------------------------------------------
\* basename and dirname: what follows the last separator, and what precedes it.
LastSep(path) == Max({j \in 1 .. Len(path) : path[j] = Sep} \union {0})
basename(path) == SubSeq(path, LastSep(path) + 1, Len(path))
dirname(path) == IF LastSep(path) = 0 THEN <<Dot>> ELSE SubSeq(path, 1, LastSep(path) - 1)

\* One file of the archive: it goes to its directory, or to the root when that is
\* not there (yet).
MountFile(tree, entry) ==
    LET dir == fs_find_file(tree, Root, dirname(entry.path))
    IN  fs_add_file(tree,
            [RootFile EXCEPT !.name = basename(entry.path), !.kind = entry.kind,
                             !.ops = "initrd", !.length = entry.length, !.target = entry.target],
            IF dir = Null THEN Root ELSE dir)

\* initrd_mount, of an archive that is intact: file after file up to the trailer.
initrd_mount(tree, archive) ==
    LET mounted[n \in 0 .. Len(archive)] ==
            IF n = 0 THEN tree ELSE MountFile(mounted[n - 1], archive[n])
    IN  mounted[Len(archive)]

-----------------------------------------------------------------------------
(* What resolution is: from a directory, one component after the other.    *)

\* The components of a path, empty ones included.
Components(path) ==
    LET ends == SelectSeq([j \in 1 .. Len(path) + 1 |-> j],
                          LAMBDA j : j = Len(path) + 1 \/ path[j] = Sep)
    IN  [n \in DOMAIN ends |->
            SubSeq(path, IF n = 1 THEN 1 ELSE ends[n - 1] + 1, ends[n] - 1)]

\* The directory that a component leads to.
Enter(tree, dir, component) ==
    CASE dir = Null -> Null
      [] component = <<>> -> dir
      [] component = <<Dot>> -> dir
      [] component = <<Dot, Dot>> -> IF dir = Root THEN Root ELSE tree[dir].parent
      [] OTHER -> fs_finddir(tree, dir, component)

Resolve(tree, dir, path) ==
    FoldLeft(LAMBDA d, c : Enter(tree, d, c),
             IF path # <<>> /\ path[1] = Sep THEN Root ELSE dir, Components(path))

\* Does every directory of an archive precede what is in it, and is no path listed twice?
InOrder(archive) ==
    \A k \in DOMAIN archive :
        /\ \A j \in 1 .. k - 1 : archive[j].path # archive[k].path
        /\ LastSep(archive[k].path) = 0 \/ \E j \in 1 .. k - 1 : archive[j].path = dirname(archive[k].path)

\* The paths on which fs_find_file is meant to agree with it.  The others, which
\* the code treats differently: a path with an empty component after the first
\* ("a//b" starts again at the root, and "a/" is not found), and a component that
\* starts with a dot but is neither "." nor ".." (".a" is taken for "./a").
Plain(path) ==
    LET cs == Components(path) IN
    /\ path # <<>>
    /\ \A n \in DOMAIN cs :
          /\ cs[n] = <<>> => (n = 1 \/ path = <<Sep>>)
          /\ cs[n] # <<>> /\ cs[n][1] = Dot => cs[n] \in {<<Dot>>, <<Dot, Dot>>}
=============================================================================
