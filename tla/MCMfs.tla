------------------------------- MODULE MCMfs -------------------------------
(* The name space of MFS for TLC: paths with one and two components,         *)
(* absolute and relative, and "..".                                          *)
EXTENDS Mfs

Abs(toks) == [abs |-> TRUE,  toks |-> toks]
Rel(toks) == [abs |-> FALSE, toks |-> toks]

MCNames == {"a", "b", "c"}

(* Nested directories, "..", a sibling seen from anywhere, and a path that   *)
(* may lead through a symbolic link.                                         *)
TreePaths == {Rel(<<"..">>), Rel(<<"a">>), Abs(<<"b">>), Rel(<<"a", "b">>)}
TreeTexts == {Abs(<<"b">>)}

(* Files of one directory and the names of one another.                      *)
DataPaths == {Rel(<<"a">>), Rel(<<"b">>)}

TreeCommands == {"new", "newdir", "symlink", "hlink", "unlink", "rm", "rmdir", "cd"}
DataCommands == {"new", "hlink", "unlink", "write", "rm"}

NoText    == {}
OnlyFiles == {"FILE"}
=============================================================================
