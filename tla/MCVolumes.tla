----------------------------- MODULE MCVolumes -----------------------------
(* Volumes for TLC: a disk with room for two partitions, one with room for   *)
(* one, and two mount points, one inside the other.                          *)
EXTENDS Volumes

Large    == {3}
WithRoot == {3}

MCMountPoints == {<<"m">>, <<"m", "n">>}
MCLast == <<14, 8>>
MCPaths == {[abs |-> TRUE, toks |-> <<>>], [abs |-> TRUE, toks |-> <<"m">>],
            [abs |-> TRUE, toks |-> <<"m", "n", "f">>]}
=============================================================================
