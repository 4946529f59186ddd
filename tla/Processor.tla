------------------------------ MODULE Processor ------------------------------
(***************************************************************************)
(* What a processor in 32-bit mode takes the code of Jit for, as far as     *)
(* jit.c makes such code, and what the text of an instruction asks for.     *)
(***************************************************************************)
EXTENDS Jit

RegField(b) == (b \div 8) % 8
RmField(b)  == b % 8
IsReg(b)    == b \div 64 = 3

Signed(b)   == IF b < 128 THEN b ELSE b - 256

OneByte ==
  [b \in {\h90, \hC3, \hCC, \hCE, \hF1, \h9D, \h9C, \hCB, \hCF} |->
     CASE b = \h90 -> "nop"   [] b = \hC3 -> "ret"  [] b = \hCC -> "int3"
       [] b = \hCE -> "into"  [] b = \hF1 -> "icebp" [] b = \h9D -> "popf"
       [] b = \h9C -> "pushf" [] b = \hCB -> "retf" [] b = \hCF -> "iret"]

Rows ==
  [b \in {\h40, \h48, \h50, \h58} |->
     CASE b = \h40 -> "inc" [] b = \h48 -> "dec" [] b = \h50 -> "push" [] b = \h58 -> "pop"]

TwoOperands ==
  [b \in {\h01, \h29, \h39, \h31, \h89} |->
     CASE b = \h01 -> "add" [] b = \h29 -> "sub" [] b = \h39 -> "cmp"
       [] b = \h31 -> "xor" [] b = \h89 -> "mov"]

(* The instruction of code c at a place, and how many elements it takes. *)
Decoded(c, at) ==
  LET b   == c[at]
      row == 8 * (b \div 8)
      is(op, args, n) == [instr |-> Instr(op, args), len |-> n]
      rm == IF IsReg(c[at + 1]) THEN Reg(RmField(c[at + 1])) ELSE AtEax
  IN
  CASE b \in DOMAIN OneByte     -> is(OneByte[b], <<>>, 1)
    [] row \in DOMAIN Rows      -> is(Rows[row], <<Reg(b % 8)>>, 1)
    [] row = \hB8               -> is("mov", <<Reg(b % 8), Imm(c[at + 1][1])>>, 2)
    [] b \in DOMAIN TwoOperands -> is(TwoOperands[b], <<rm, Reg(RegField(c[at + 1]))>>, 2)
    [] b = \h8B -> is("mov", <<Reg(RegField(c[at + 1])), rm>>, 2)
    [] b = \h8E -> is("mov", <<Seg(RegField(c[at + 1])), Ax>>, 2)
    [] b = \h81 -> is(IF RegField(c[at + 1]) = 0 THEN "add" ELSE "sub", <<rm, Imm(c[at + 2][1])>>, 3)
    [] b = \hF7 -> is(IF RegField(c[at + 1]) = 6 THEN "div" ELSE "idiv", <<rm>>, 2)
    [] b = \hCD -> is("int", <<Imm(c[at + 1])>>, 2)
    [] b = \h74 -> is("je", <<Imm(Signed(c[at + 1]))>>, 2)
    [] b = \h75 -> is("jne", <<Imm(Signed(c[at + 1]))>>, 2)
    [] b = \hFF -> is("jmp", <<rm>>, 2)
    [] b = \hEA -> is("jmpf", <<Imm(c[at + 1][1]), Imm(c[at + 2][1])>>, 3)
    [] b = \h9A -> is("lcall", <<Imm(c[at + 1][1]), Imm(c[at + 2][1])>>, 3)
    [] b = \hF3 -> is("divss", <<Xmm(RegField(c[at + 3])), Xmm(RmField(c[at + 3]))>>, 4)
    [] b = \h0F /\ c[at + 1] = \h0B -> is("ud2", <<>>, 2)
    [] b = \h0F /\ c[at + 1] = \h20 -> is("mov", <<Reg(RmField(c[at + 2])), Cr(RegField(c[at + 2]))>>, 3)
    [] b = \h0F /\ c[at + 1] = \h22 -> is("mov", <<Cr(RegField(c[at + 2])), Reg(RmField(c[at + 2]))>>, 3)
    [] b = \h0F /\ c[at + 1] = \h23 -> is("mov", <<Dr(RegField(c[at + 2])), Reg(RmField(c[at + 2]))>>, 3)
    [] b = \h0F /\ c[at + 1] = \h57 -> is("xorps", <<Xmm(RegField(c[at + 2])), Xmm(RmField(c[at + 2]))>>, 3)
    [] b = \h0F /\ c[at + 1] = 1    -> is(IF RegField(c[at + 2]) = 2 THEN "lgdt" ELSE "lidt", <<Mem(c[at + 3][1])>>, 4)

(* The instructions it takes the code for: one after the other, each behind  *)
(* the last, until there is no more code.                                    *)
Runs(c) ==
  LET read[k \in 0 .. Len(c)] ==
        IF k = 0 THEN [at |-> 1, instrs |-> <<>>]
        ELSE LET r == read[k - 1]
             IN  IF r.at > Len(c) THEN r
                 ELSE [at     |-> r.at + Decoded(c, r.at).len,
                       instrs |-> Append(r.instrs, Decoded(c, r.at).instr)]
  IN  read[Len(c)].instrs

(* The instruction that stands in the text: each number is what it says.     *)
Stated(a) ==
  IF a.kind \notin {"imm", "mem"} THEN a
  ELSE [kind |-> a.kind, n |-> IF a.as = "neg" THEN -a.n ELSE a.n]

AsWritten(i) == Instr(i.op, [k \in DOMAIN i.args |-> Stated(i.args[k])])

(* What it asks for.  Memory may be reached through eax, unless eax is *)
(* what is stored; the assembler has names of its own.                       *)
AskedFor(i) ==
  CASE i.op = "mov" /\ Kinds(i) = <<"mem", "reg">> /\ i.args[2] # EAX ->
         <<Instr("mov", <<EAX, Imm(N(i, 1))>>), Instr("mov", <<AtEax, i.args[2]>>)>>
    [] i.op = "mov" /\ Kinds(i) = <<"reg", "mem">> ->
         <<Instr("mov", <<EAX, Imm(N(i, 2))>>), Instr("mov", <<i.args[1], AtEax>>)>>
    [] i.op = "jmp"   -> <<Instr("mov", <<EAX, i.args[1]>>), Instr("jmp", <<EAX>>)>>
    [] i.op = "addof" -> <<Instr("add", i.args), Instr("into", <<>>)>>
    [] i.op = "lret"  -> <<Instr("retf", <<>>)>>
    [] i.op = "int1"  -> <<Instr("icebp", <<>>)>>
    [] i.op \in {"lgdt", "lidt"} -> <<Instr(i.op, <<Mem(N(i, 1))>>)>>
    [] OTHER -> <<i>>

(* The numbers that become 0: with a minus, and hexadecimal ones where only  *)
(* decimal ones are looked for.                                              *)
Misread(i, k) ==
  /\ i.args[k].kind \in {"imm", "mem"} /\ N(i, k) # 0
  /\ \/ i.args[k].as = "neg"
     \/ i.args[k].as = "hex" /\ i.op \in {"jmp", "je", "jne"}

(* The number is larger than what the instruction has room for, which for je *)
(* and jne is a byte with a sign.                                            *)
TooLarge(i) ==
  \/ i.op = "int" /\ N(i, 1) > 255
  \/ i.op \in {"je", "jne"} /\ N(i, 1) > 127
  \/ i.op \in {"jmpf", "lcall"} /\ N(i, 2) > 65535

(* The instructions the code is not right for: a number is misread or too    *)
(* large; refused (push and cmp with a number), taken for another (retf, ret *)
(* with a number, mov from cr0 to another register, int1, xor ax), the       *)
(* operand lost (lgdt [v]), the register put where that of the processor is  *)
(* chosen (cr0, dr0, dr1), the operands exchanged (divss, xorps), or the     *)
(* value overwritten by the address (mov [v], eax).                          *)
Misassembled(i) ==
  \/ \E k \in DOMAIN i.args : Misread(i, k)
  \/ TooLarge(i)
  \/ i.op = "push" /\ Kinds(i) = <<"imm">>
  \/ i.op = "cmp" /\ Kinds(i) = <<"reg", "imm">>
  \/ i.op = "ret" /\ i.args # <<>>
  \/ i.op \in {"retf", "int1", "xor"}
  \/ i.op \in {"lgdt", "lidt"} /\ i.args[1].kind = "mem" /\ N(i, 1) # 0
  \/ i.op = "mov" /\ Kinds(i) = <<"reg", "cr">> /\ N(i, 1) # 0
  \/ i.op = "mov" /\ Kinds(i)[1] \in {"cr", "dr"} /\ N(i, 2) # 0
  \/ i.op \in {"divss", "xorps"} /\ N(i, 1) # N(i, 2)
  \/ i.op = "mov" /\ Kinds(i) = <<"mem", "reg">> /\ N(i, 2) = 0
=============================================================================
