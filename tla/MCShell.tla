------------------------------- MODULE MCShell -------------------------------
(* The shell for TLC: a table of two variables; calculations with up to      *)
(* three operators, and every line of up to four tokens.                    *)
EXTENDS Shell, FiniteSets

MCNames == {"x", "r", "n15", "n15more"}
MCKept  == [n \in MCNames |-> IF n = "n15more" THEN "n15" ELSE n]
MCLiterals == {[type |-> "int", negative |-> FALSE, of |-> "7"],
               [type |-> "double", negative |-> TRUE, of |-> "7"],
               [type |-> "string", negative |-> FALSE, of |-> "7"]}
MCNumerals == {"0", "1"}
MCRNames   == {"r"}

Joined(ops, as)  == {a \o b \o <<op>> : op \in ops, a \in as, b \in as}
Negated(as)      == {Append(a, Sign) : a \in as}

Leaves == {<<"1">>, <<"x">>, <<"r">>}
Flat   == Leaves \cup Negated({<<"x">>}) \cup Joined({"-", "/", "^"}, {<<"1">>, <<"x">>})
MCMeanings == Flat \cup Negated(Flat) \cup Joined({"+", "-", "*", "//", "%", "^"}, Flat)

Tokens  == {"1", "x", "r", "-", "/", "//", "^", "(", ")"}
MCLines == UNION {[1 .. n -> Tokens] : n \in 0 .. 4}

MCDwords == {0, 127, 128, 255, 256, 65535, 65536}
=============================================================================
