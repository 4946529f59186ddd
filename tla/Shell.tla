-------------------------------- MODULE Shell --------------------------------
(***************************************************************************)
(* The prompt's commands on variables, calculations and instructions: what  *)
(* each answers, against what the user wrote.                               *)
(***************************************************************************)
EXTENDS Expression, Processor

CONSTANTS
  Meanings,     \* calculations the user writes down
  Lines         \* lines he types besides

ASSUME ShellAssumption ==
  /\ \A m \in Meanings : Meaningful(m)
  /\ Lines \subseteq Seq(STRING)

(* meant: the steps the line was written for, <<>> when there are none. *)
Calculate(line, meant) ==
  /\ answer' = [did |-> "calculate", line |-> line, meant |-> meant, result |-> Calculated(line)]
  /\ UNCHANGED vars

Asm(i) ==
  /\ answer' = [did |-> "asm", instr |-> i, code |-> Assembled(i)]
  /\ UNCHANGED vars

Init == VarInit

(* The answer is on the screen, and console_func waits for the next line.    *)
Prompt == answer # Silent /\ answer' = Silent /\ UNCHANGED vars

Command ==
  \/ \E n \in Names : (\E l \in Literals : SetVar(n, l)) \/ DeleteVar(n) \/ Echo(n)
  \/ \E t \in Meanings : Calculate(Text(t), t)
  \/ \E s \in Lines : Calculate(s, <<>>)
  \/ \E i \in Instructions : Asm(i)

Next == (answer = Silent /\ Command) \/ Prompt

Spec == Init /\ [][Next]_<<vars, answer>>

-----------------------------------------------------------------------------
(* A calculation gives what it was written for, unless it begins with r:     *)
(* * / // % before + -, ^ before these, from left to right, a minus before a *)
(* number or a bracket first of all.                                         *)
CalculatesAsWritten ==
  answer.did = "calculate" /\ answer.meant # <<>> /\ ~Rounds(answer.line) =>
    answer.result = [ok |-> TRUE, value |-> ValueIn(answer.meant, Numbers)]

(* Whatever is typed, a line that is accepted has been read to its end, each *)
(* number, name and operator once and in order: what is added is a 0 for a   *)
(* missing operand, and what is left out is brackets.                        *)
NothingSkipped ==
  answer.did = "calculate" /\ answer.result.ok /\ ~Rounds(answer.line) =>
    Bare(Text(Parse(answer.line).steps)) = Bare(answer.line)

(* The code asm runs is the instruction that was asked for, then a ret, for  *)
(* all of Instructions but the ones listed, and not for one of those, however *)
(* the numbers in it are written.                                            *)
AssemblesAsWritten ==
  answer.did = "asm" =>
    (Runs(answer.code) = Append(AskedFor(AsWritten(answer.instr)), Instr("ret", <<>>))
       <=> ~Misassembled(answer.instr))
=============================================================================
