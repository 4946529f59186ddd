------------------------------ MODULE VarStore ------------------------------
(***************************************************************************)
(* What the variables of the shell are to the user: a map from names to     *)
(* values with at most Limit names, and commands that answer with it.       *)
(***************************************************************************)
EXTENDS FiniteSets, Naturals

CONSTANTS Names, Values, Limit

VARIABLES
  store,    \* the map
  answer    \* the last command on a variable, and what it printed

vars == <<store, answer>>

Silent    == [did |-> "other"]
Undefined == [type |-> "undefined"]

ValueOf(n) == IF n \in DOMAIN store THEN store[n] ELSE Undefined

Init == store = <<>> /\ answer = Silent

(* A new name is refused when the store is full. *)
Set(n, v) ==
  /\ answer' = [did |-> "var", name |-> n, value |-> v]
  /\ store' = IF n \notin DOMAIN store /\ Cardinality(DOMAIN store) = Limit THEN store
              ELSE [x \in DOMAIN store \cup {n} |-> IF x = n THEN v ELSE store[x]]

Delete(n) ==
  /\ answer' = [did |-> "delete", name |-> n]
  /\ store' = [x \in DOMAIN store \ {n} |-> store[x]]

Read(n) ==
  /\ answer' = [did |-> "echo", name |-> n, value |-> ValueOf(n)]
  /\ UNCHANGED store

Other == answer' = Silent /\ UNCHANGED store

Next ==
  \/ \E n \in Names : (\E v \in Values : Set(n, v)) \/ Delete(n) \/ Read(n)
  \/ Other

Spec == Init /\ [][Next]_vars
=============================================================================
