--------------------------------- MODULE Jit ---------------------------------
(***************************************************************************)
(* The command asm (assemble_and_execute of jit.c): the code it makes of an *)
(* instruction, and what a processor takes that code for.  The bytes are    *)
(* those of the code; a double word is <<value>>.  Where the code lies in   *)
(* jit_pool is left out: each call runs what it has just written.           *)
(*                                                                         *)
(* An instruction is [op, args]; the text is compared by its beginning with *)
(* one instruction after the other, in the order of the code.  A number in  *)
(* the text has, besides its value, the way it is written.                  *)
(***************************************************************************)
EXTENDS Integers, Sequences

CONSTANT Dwords      \* numbers of 32 bits whose digits are typed

ASSUME JitAssumption == Dwords \subseteq Nat /\ \A v \in Dwords : v \div 65536 < 65536

Reg(r) == [kind |-> "reg", n |-> r]          \* eax, ecx, edx, ebx, esp, ebp, esi, edi
Xmm(r) == [kind |-> "xmm", n |-> r]
Seg(r) == [kind |-> "seg", n |-> r]          \* es 0, ss 2, ds 3, fs 4, gs 5
Cr(r)  == [kind |-> "cr", n |-> r]
Dr(r)  == [kind |-> "dr", n |-> r]
Ax     == [kind |-> "ax", n |-> 0]
Imm(v) == [kind |-> "imm", n |-> v]
Mem(v) == [kind |-> "mem", n |-> v]          \* [v]
AtEax  == [kind |-> "at", n |-> 0]           \* [eax]
EAX    == Reg(0)

Instr(op, args) == [op |-> op, args |-> args]
Kinds(i) == [k \in DOMAIN i.args |-> i.args[k].kind]
N(i, k)  == i.args[k].n

(* 5, 0x5 or -5. *)
Notations == {"dec", "hex", "neg"}

(* What is made of a number by parse_dec, and by parse_hex behind 0x and     *)
(* parse_dec else: both stop at what is no digit of theirs.                  *)
Dec(i, k)    == IF i.args[k].as = "dec" THEN N(i, k) ELSE 0
Number(i, k) == IF i.args[k].as = "neg" THEN 0 ELSE N(i, k)

ModRM(reg, rm) == \hC0 + 8 * reg + rm

(* Instructions of one word.  retf begins with ret, and is taken for it.     *)
Words ==
  [nop |-> <<\h90>>, ret |-> <<\hC3>>, ud2 |-> <<\h0F, \h0B>>, int1 |-> <<\hCD, 1>>,
   int3 |-> <<\hCC>>, into |-> <<\hCE>>, icebp |-> <<\hF1>>, popf |-> <<\h9D>>,
   pushf |-> <<\h9C>>, retf |-> <<\hC3>>, iret |-> <<\hCF>>, lret |-> <<\hCB>>]

(* The instructions the assembler looks for, and what may stand in them.     *)
Regs  == {Reg(r) : r \in 0 .. 7}
Segs  == {Seg(r) : r \in {0, 2, 3, 4, 5}}
Xmms  == {Xmm(r) : r \in 0 .. 7}
Nums  == [kind : {"imm"}, n : Dwords, as : Notations]
Cells == [kind : {"mem"}, n : Dwords, as : Notations]

On(ops, as)         == {Instr(x[1], <<x[2]>>) : x \in ops \X as}
OnBoth(ops, as, bs) == {Instr(x[1], <<x[2], x[3]>>) : x \in ops \X as \X bs}

Instructions ==
  {Instr(op, <<>>) : op \in DOMAIN Words}
    \cup On({"push", "pop", "inc", "dec", "div", "idiv"}, Regs)
    \cup On({"push", "jmp", "je", "jne", "int", "ret", "retf"}, Nums)
    \cup On({"lgdt", "lidt"}, Nums \cup Cells)
    \cup OnBoth({"mov", "add", "sub", "cmp"}, Regs, Regs \cup Nums)
    \cup OnBoth({"addof"}, Regs, Nums)
    \cup OnBoth({"mov"}, Cells, Regs) \cup OnBoth({"mov"}, Regs, Cells)
    \cup OnBoth({"mov"}, {Cr(0), Dr(0), Dr(1)}, Regs) \cup OnBoth({"mov"}, Regs, {Cr(0)})
    \cup OnBoth({"mov"}, Segs, {Ax})
    \cup OnBoth({"xor"}, {Ax}, {Ax}) \cup OnBoth({"divss", "xorps"}, Xmms, Xmms)
    \cup OnBoth({"jmpf", "lcall"}, Nums, Nums)

(* Instructions on one register: what stands before the byte that holds it.  *)
OnReg ==
  [push |-> <<<<>>, \h50>>, pop |-> <<<<>>, \h58>>, inc |-> <<<<>>, \h40>>,
   dec |-> <<<<>>, \h48>>, div |-> <<<<\hF7>>, \hF0>>, idiv |-> <<<<\hF7>>, \hF8>>]

OnTwoRegs ==
  [mov |-> <<\h89>>, add |-> <<\h01>>, sub |-> <<\h29>>, cmp |-> <<\h39>>,
   divss |-> <<\hF3, \h0F, \h5E>>, xorps |-> <<\h0F, \h57>>]

(* The operands in the order a register and its memory operand are coded;    *)
(* the first one is the destination for add, and the source for divss.       *)
TwoRegs_Swapped(i) == OnTwoRegs[i.op] \o <<ModRM(N(i, 1), N(i, 2))>>
TwoRegs(i) == OnTwoRegs[i.op] \o <<ModRM(N(i, 2), N(i, 1))>>

(* Moves to and from cr0, dr0 and dr1: of a move to them the register field, *)
(* which is to choose among them, is added from the operand.                 *)
MovControl(i) ==
  CASE Kinds(i)[1] = "cr"                    -> <<\h0F, \h22, ModRM(N(i, 2), 0)>>
    [] Kinds(i)[2] = "cr" /\ N(i, 1) = 0     -> <<\h0F, \h20, \hC0>>
    [] Kinds(i)[2] = "cr" /\ N(i, 1) # 0     -> <<\hB8 + N(i, 1), <<0>>>>

MovDebug(i) ==
  <<\h0F, \h23, IF N(i, 1) = 1 /\ N(i, 2) % 2 = 0
                THEN ModRM(N(i, 2) + 1, 0) ELSE ModRM(N(i, 2), 0)>>

MovSegment(i) == <<\h8E, ModRM(N(i, 1), 0)>>

(* Memory is reached through eax. *)
ThroughEax(v, op, r) == <<\hB8, <<v>>, op, 8 * r>>

Mov(i) ==
  CASE Kinds(i) = <<"mem", "reg">> -> ThroughEax(Number(i, 1), \h89, N(i, 2))
    [] Kinds(i) = <<"reg", "mem">> -> ThroughEax(Number(i, 2), \h8B, N(i, 1))
    [] Kinds(i) = <<"reg", "imm">> -> <<\hB8 + N(i, 1), <<Number(i, 2)>>>>
    [] Kinds(i) = <<"reg", "reg">> -> TwoRegs(i)
    [] Kinds(i)[1] = "dr"          -> MovDebug(i)
    [] Kinds(i)[1] = "seg"         -> MovSegment(i)
    [] "cr" \in {Kinds(i)[1], Kinds(i)[2]} -> MovControl(i)

(* Two registers, or a register and a number, which cmp does not take. *)
Arithmetic(i) ==
  IF Kinds(i)[2] # "imm" THEN TwoRegs(i) ELSE
  CASE i.op = "add" -> <<\h81, ModRM(0, N(i, 1)), <<Number(i, 2)>>>>
    [] i.op = "sub" -> <<\h81, ModRM(5, N(i, 1)), <<Number(i, 2)>>>>
    [] i.op = "cmp" -> <<>>

AddOverflow(i) == <<\h81, ModRM(0, N(i, 1)), <<Number(i, 2)>>, \hCE>>

(* The test for push with a number stands behind the one for push. *)
OneReg(i) ==
  IF Kinds(i) = <<"reg">> THEN OnReg[i.op][1] \o <<OnReg[i.op][2] + N(i, 1)>> ELSE <<>>

(* The branches take what parse_dec alone makes of the text. *)
Branch(i) ==
  CASE i.op = "je"  -> <<\h74, Dec(i, 1) % 256>>
    [] i.op = "jne" -> <<\h75, Dec(i, 1) % 256>>

Jump(i) == <<\hB8, <<Dec(i, 1)>>, \hFF, \hE0>>

Far(i, op) == <<op, <<Number(i, 1)>>, <<Number(i, 2) % 65536>>>>

(* parse_dec and parse_hex stop at the bracket of [v], too. *)
LoadTable(i) ==
  <<\h0F, 1, IF i.op = "lgdt" THEN \h15 ELSE \h1D,
    <<IF i.args[1].kind = "mem" THEN 0 ELSE Number(i, 1)>>>>

(* What is made of an instruction before the ret; <<>> when it is refused.   *)
Encoded(i) ==
  IF i.args = <<>> THEN Words[i.op] ELSE
  CASE i.op \in {"ret", "retf"}      -> <<\hC3>>
    [] i.op = "int"                  -> <<\hCD, Number(i, 1) % 256>>
    [] i.op = "mov"                  -> Mov(i)
    [] i.op = "xor"                  -> <<\h31, \hC0>>
    [] i.op \in {"add", "sub", "cmp"} -> Arithmetic(i)
    [] i.op \in {"divss", "xorps"}   -> TwoRegs(i)
    [] i.op = "addof"                -> AddOverflow(i)
    [] i.op \in DOMAIN OnReg         -> OneReg(i)
    [] i.op \in {"je", "jne"}        -> Branch(i)
    [] i.op = "jmp"                  -> Jump(i)
    [] i.op = "jmpf"                 -> Far(i, \hEA)
    [] i.op = "lcall"                -> Far(i, \h9A)
    [] i.op \in {"lgdt", "lidt"}     -> LoadTable(i)

(* assemble_and_execute runs it with a ret behind it. *)
Assembled(i) == IF Encoded(i) = <<>> THEN <<>> ELSE Append(Encoded(i), \hC3)
=============================================================================
