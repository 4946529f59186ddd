------------------------------ MODULE Variables ------------------------------
(***************************************************************************)
(* The variables of the shell: the commands var, delete, echo and type of   *)
(* kernel.c on the array vars.  A name is what the user types; var keeps    *)
(* the 15 characters the array has room for, the other commands compare     *)
(* the whole name.                                                          *)
(***************************************************************************)
EXTENDS Naturals, Sequences, SequencesExt

CONSTANTS
  MAX_VARS,     \* 16
  Names,        \* names the user types
  Kept,         \* what is left of a name in the array
  Literals      \* values the user types: [type, negative, of]

ASSUME VariablesAssumption ==
  /\ MAX_VARS \in Nat
  /\ Kept \in [Names -> Names]
  /\ \A n \in Names : Kept[Kept[n]] = Kept[n]
  /\ Literals \subseteq [type : {"int", "double", "string"}, negative : BOOLEAN, of : STRING]

VARIABLES
  vars,         \* the array, as long as var_count
  answer        \* the last command and what it printed

Zero      == "0"
Undefined == [type |-> "undefined"]

(* set_var: parse_double stops at a minus, so that a negative number is 0.   *)
Stored(l) == [type |-> l.type, of |-> IF l.type # "string" /\ l.negative THEN Zero ELSE l.of]

Values == {Stored(l) : l \in Literals}

(* find_var: the first entry of that name. *)
Hits(n)    == {i \in DOMAIN vars : vars[i].name = n}
ValueOf(n) == IF Hits(n) = {} THEN Undefined ELSE vars[Min(Hits(n))].value

(* get_var_double *)
NumberOf(n) == IF ValueOf(n).type \in {"int", "double"} THEN ValueOf(n).of ELSE Zero

-----------------------------------------------------------------------------
SetVar_NameNotCut(n, l) ==
  LET entry == [name |-> n, value |-> Stored(l)] IN
  /\ \/ /\ Hits(Kept[n]) # {}
        /\ vars' = [vars EXCEPT ![Min(Hits(Kept[n]))] = entry]
     \/ /\ Hits(Kept[n]) = {} /\ Len(vars) < MAX_VARS
        /\ vars' = Append(vars, entry)
     \/ /\ Hits(Kept[n]) = {} /\ Len(vars) = MAX_VARS
        /\ UNCHANGED vars
  /\ answer' = [did |-> "var", name |-> Kept[n], value |-> Stored(l)]

(* set_var of the name cut.  With the array full a new variable is written   *)
(* through a null pointer: into low memory, and not into the array.          *)
SetVar(n, l) ==
  LET name  == Kept[n]
      entry == [name |-> name, value |-> Stored(l)]
  IN
  /\ \/ /\ Hits(name) # {}
        /\ vars' = [vars EXCEPT ![Min(Hits(name))] = entry]
     \/ /\ Hits(name) = {} /\ Len(vars) < MAX_VARS
        /\ vars' = Append(vars, entry)
     \/ /\ Hits(name) = {} /\ Len(vars) = MAX_VARS
        /\ UNCHANGED vars
  /\ answer' = [did |-> "var", name |-> name, value |-> Stored(l)]

DeleteVar_LastStays(n) ==
  /\ vars' = IF Hits(n) = {} THEN vars
             ELSE [k \in 1 .. Len(vars) - 1 |->
                     IF k >= Min(Hits(n)) /\ k < Len(vars) - 1 THEN vars[k + 1] ELSE vars[k]]
  /\ answer' = [did |-> "delete", name |-> n]

(* delete_var: the entries after it move up. *)
DeleteVar(n) ==
  /\ vars' = IF Hits(n) = {} THEN vars ELSE RemoveAt(vars, Min(Hits(n)))
  /\ answer' = [did |-> "delete", name |-> n]

(* cmd_echo and cmd_type *)
Echo(n) ==
  /\ answer' = [did |-> "echo", name |-> n, value |-> ValueOf(n)]
  /\ UNCHANGED vars

Silent == [did |-> "other"]

VarInit == vars = <<>> /\ answer = Silent

(* Any other command, and the prompt. *)
Another == answer'.did \notin {"var", "delete", "echo"} /\ UNCHANGED vars

VarNext ==
  \/ \E n \in Names : (\E l \in Literals : SetVar(n, l)) \/ DeleteVar(n) \/ Echo(n)
  \/ Another

VarSpec == VarInit /\ [][VarNext]_<<vars, answer>>

-----------------------------------------------------------------------------
Known == {vars[i].name : i \in DOMAIN vars}

(* The array is a map from names to values: var gives a name its value and   *)
(* leaves the others, delete takes one name away, echo prints what was given *)
(* last.  With the array full a new name is refused.                         *)
Store == INSTANCE VarStore WITH
  Limit  <- MAX_VARS,
  store  <- [n \in Known |-> ValueOf(n)],
  answer <- IF answer.did \in {"var", "delete", "echo"} THEN answer ELSE Silent

IsStore == Store!Spec
=============================================================================
