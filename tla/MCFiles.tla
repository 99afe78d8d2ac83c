------------------------------ MODULE MCFiles ------------------------------
(* An instance of Files: a directory with a file, links to it, to nothing and   *)
(* to themselves, the list of modules and two modules; two processes.           *)
EXTENDS Files
CONSTANTS p1, p2
Entry(path, kind, length, target) ==
    [path |-> path, kind |-> kind, length |-> length, target |-> target]
MCArchive ==
    << Entry(<<"d">>, "dir", 0, <<>>), Entry(<<"d", "/", "f">>, "file", 2, <<>>),
       Entry(<<"l">>, "symlink", 1, <<"d", "/", "f">>),
       Entry(<<"m">>, "symlink", 1, <<"n">>),
       Entry(<<"o">>, "symlink", 1, <<".", "/", "o">>),
       Entry(<<"q">>, "file", 3, <<>>), Entry(<<"p">>, "symlink", 1, <<"q">>), Entry(<<"v">>, "file", 1, <<>>),
       Entry(<<"z">>, "file", 1, <<>>), Entry(<<"y">>, "symlink", 1, <<"z">>),
       Entry(<<"k">>, "symlink", 1, <<"m">>) >>
Ask(path, write, directory) == [path |-> path, write |-> write, directory |-> directory]
MCRequests ==
    { Ask(<<"l">>, FALSE, FALSE), Ask(<<"/", "dev">>, FALSE, TRUE),
      Ask(<<"/", "dev", "/", "z">>, TRUE, FALSE), Ask(<<"o">>, FALSE, FALSE),
      Ask(<<"k">>, FALSE, FALSE) }
MCPreload == << <<"/", "p">>, <<"v">>, <<"y">> >>
MCLoads == [n \in { <<"q">>, <<"v">>, <<"z">> } |->
               CASE n = <<"q">> -> "list" [] n = <<"v">> -> "devfs" [] n = <<"z">> -> "driver"]
MCKtermPaths == { <<"/", "y">>, <<"m">>, <<"n">> }
MCListPaths == { <<"/", "dev">>, <<"/">> }
\* A stopped kernel, and one that uses a freed handle, take no more steps.
MCView == IF halted # "no" THEN <<halted>> ELSE IF misused THEN <<misused>> ELSE vars
=============================================================================
