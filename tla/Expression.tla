----------------------------- MODULE Expression -----------------------------
(***************************************************************************)
(* A line that is no command is calculated (parse_expr and its like, and    *)
(* is_round_command, of kernel.c).  A line is a sequence of tokens with     *)
(* spaces between them; a value is the sequence of the steps that compute   *)
(* it, over the numbers the variables have, in the order they are taken:    *)
(* the arithmetic itself is left out.                                      *)
(*                                                                         *)
(* The names typed in a line are not longer than the array keeps them:      *)
(* parse_factor copies a longer one past the end of its 16 bytes.           *)
(***************************************************************************)
EXTENDS Variables

CONSTANTS Numerals, RNames      \* RNames: names that begin with r

(* The operators of parse_expr, parse_term and parse_power, which is the     *)
(* order from weak to strong; the last level is parse_factor, without one.   *)
Operators == <<{"+", "-"}, {"*", "/", "//", "%"}, {"^"}, {}>>
FACTOR    == 4
Binary    == UNION {Operators[l] : l \in 1 .. FACTOR}

(* A step puts a number or a name on a stack (a 0, where an operand is       *)
(* missing), changes the sign of the number on top, or takes the two on top. *)
Sign    == "0-"
Missing == "?"

END == ""                       \* what is read behind the last token
Token(s, i) == IF i <= Len(s) THEN s[i] ELSE END

Operands == Numerals \cup Names

ASSUME ExpressionAssumption ==
  /\ RNames \subseteq Names /\ Zero \in Numerals
  /\ Operands \cap (Binary \cup {"(", ")", Sign, Missing, END}) = {}

-----------------------------------------------------------------------------
(* The parser.  Each part of line s gives the steps it takes and the place   *)
(* where it stops; of gives the parts that one consists of.                  *)

Parts(s) == {"whole", "rest"} \X (1 .. FACTOR) \X (1 .. Len(s) + 1)

Factor_SkipsAnything(of, s, i) ==
  CASE Token(s, i) = "-" -> LET r == of[<<"whole", FACTOR, i + 1>>]
                            IN  [steps |-> Append(r.steps, Sign), next |-> r.next]
    [] Token(s, i) = "(" -> LET r == of[<<"whole", 1, i + 1>>]
                            IN  [steps |-> r.steps,
                                 next  |-> IF r.next <= Len(s) THEN r.next + 1 ELSE r.next]
    [] Token(s, i) \in Operands -> [steps |-> <<Token(s, i)>>, next |-> i + 1]
    [] OTHER -> [steps |-> <<Missing>>, next |-> i]

(* parse_factor: a closing bracket may be missing, and so may an operand.    *)
Factor(of, s, i) ==
  CASE Token(s, i) = "-" -> LET r == of[<<"whole", FACTOR, i + 1>>]
                            IN  [steps |-> Append(r.steps, Sign), next |-> r.next]
    [] Token(s, i) = "(" -> LET r == of[<<"whole", 1, i + 1>>]
                            IN  [steps |-> r.steps,
                                 next  |-> IF Token(s, r.next) = ")" THEN r.next + 1
                                           ELSE r.next]
    [] Token(s, i) \in Operands -> [steps |-> <<Token(s, i)>>, next |-> i + 1]
    [] OTHER -> [steps |-> <<Missing>>, next |-> i]

Rest_RightFirst(of, s, l, i) ==
  IF Token(s, i) \notin Operators[l] THEN [steps |-> <<>>, next |-> i]
  ELSE LET q == of[<<"whole", l, i + 1>>]
       IN  [steps |-> Append(q.steps, Token(s, i)), next |-> q.next]

(* The loop of a level, which has its first operand. *)
Rest(of, s, l, i) ==
  IF Token(s, i) \notin Operators[l] THEN [steps |-> <<>>, next |-> i]
  ELSE LET q    == of[<<"whole", l + 1, i + 1>>]
           more == of[<<"rest", l, q.next>>]
       IN  [steps |-> Append(q.steps, Token(s, i)) \o more.steps, next |-> more.next]

(* parse_expr, parse_term and parse_power: an operand of the next level, and *)
(* what the loop adds.                                                       *)
Level(of, s, l, i) ==
  LET r    == of[<<"whole", l + 1, i>>]
      more == of[<<"rest", l, r.next>>]
  IN  [steps |-> r.steps \o more.steps, next |-> more.next]

Part(of, s, x) ==
  CASE x[1] = "rest"                   -> Rest(of, s, x[2], x[3])
    [] x[1] = "whole" /\ x[2] = FACTOR -> Factor(of, s, x[3])
    [] x[1] = "whole" /\ x[2] < FACTOR -> Level(of, s, x[2], x[3])

Parse(s) == LET of[x \in Parts(s)] == Part(of, s, x) IN of[<<"whole", 1, 1>>]

(* The steps with the numbers of the variables; a missing operand is 0. *)
ValueIn(steps, number) ==
  [k \in DOMAIN steps |-> IF steps[k] = Missing THEN Zero
                          ELSE IF steps[k] \in Names THEN number[steps[k]] ELSE steps[k]]

Numbers == [n \in Names |-> NumberOf(n)]

(* is_round_command: whatever begins with r rounds the number after the r.   *)
Rounds(s) == Token(s, 1) \in RNames /\ s # <<"r">>
Rounded(s) ==
  <<IF s[1] = "r" /\ Token(s, 2) \in Numerals THEN Token(s, 2) ELSE Zero, "round">>

(* parse_and_calc_double: the whole line has to be read. *)
Calculated(s) ==
  IF Rounds(s) THEN [ok |-> TRUE, value |-> Rounded(s)]
  ELSE [ok |-> Parse(s).next = Len(s) + 1, value |-> ValueIn(Parse(s).steps, Numbers)]

-----------------------------------------------------------------------------
(* What steps mean: the line that is written for them                        *)

LevelOf(operator) == CHOOSE l \in 1 .. FACTOR : operator \in Operators[l]

Within(e, l) == IF e.level < l THEN <<"(">> \o e.text \o <<")">> ELSE e.text

(* A step on a stack of what the steps before it are for, with the brackets  *)
(* that are needed.                                                          *)
Push(stack, step) ==
  LET n == Len(stack) IN
  CASE step = Sign ->
         Append(SubSeq(stack, 1, n - 1),
                [text |-> <<"-">> \o Within(stack[n], FACTOR), level |-> FACTOR])
    [] step \in Binary ->
         Append(SubSeq(stack, 1, n - 2),
                [text  |-> Append(Within(stack[n - 1], LevelOf(step)), step)
                             \o Within(stack[n], LevelOf(step) + 1),
                 level |-> LevelOf(step)])
    [] OTHER -> Append(stack, [text |-> <<step>>, level |-> FACTOR])

Run(stack, steps) ==
  LET after[k \in 0 .. Len(steps)] ==
        IF k = 0 THEN stack ELSE Push(after[k - 1], steps[k])
  IN  after[Len(steps)]

Needed(step) == IF step \in Binary THEN 2 ELSE IF step = Sign THEN 1 ELSE 0

(* Steps that find what they take and leave one value. *)
Meaningful(steps) ==
  /\ steps \in Seq(Operands \cup Binary \cup {Sign})
  /\ \A k \in 1 .. Len(steps) : Needed(steps[k]) <= Len(Run(<<>>, SubSeq(steps, 1, k - 1)))
  /\ Len(Run(<<>>, steps)) = 1

Text(steps) == Run(<<>>, steps)[1].text

(* The numbers, names and operators of a line (SelectSeq, as a recursion).   *)
Bare(s) ==
  LET bare[k \in 0 .. Len(s)] ==
        IF k = 0 THEN <<>>
        ELSE IF s[k] \in {"(", ")", Missing} THEN bare[k - 1] ELSE Append(bare[k - 1], s[k])
  IN  bare[Len(s)]
=============================================================================
