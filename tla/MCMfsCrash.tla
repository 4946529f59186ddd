----------------------------- MODULE MCMfsCrash -----------------------------
(* Power cuts for TLC: files and directories of the root, and names in a    *)
(* directory that is entered with cd.                                       *)
EXTENDS Transfer

Abs(toks) == [abs |-> TRUE,  toks |-> toks]
Rel(toks) == [abs |-> FALSE, toks |-> toks]

MCNames == {"a", "b"}
CrashPaths == {Rel(<<"a">>), Rel(<<"b">>), Rel(<<"a", "b">>), Rel(<<"a", "">>), Rel(<<"..">>)}
CrashTexts == {Rel(<<"a">>)}
CrashCommands ==
  {"new", "newdir", "symlink", "hlink", "unlink", "write", "rm", "rmdir", "cd",
   "cp", "mv", "append"}
OnlyFiles == {"FILE"}
=============================================================================
