-------------------------------- MODULE Asm --------------------------------
(***************************************************************************)
(* asm.go and reg.go: the x86-64 instructions the compiler makes, and what *)
(* the register allocator takes them to write and to read.                 *)
(*                                                                         *)
(* An asmArg is a variable, a machine register, a number or an offset from *)
(* a register.  As in the code the first argument is the destination, and  *)
(* a label is here the position of its block in the program.               *)
(***************************************************************************)
EXTENDS Integers, Sequences

Var(x)    == <<"var", x>>
Reg64(r)  == <<"reg", r>>
Imm(n)    == <<"imm", n>>
mkmem(r, offset) == <<"mem", r, offset>>

isVar(a) == a[1] = "var"
isReg(a) == a[1] = "reg"
isMem(a) == a[1] = "mem"

mkinstr(variant, args) ==
  [tag |-> "instr", variant |-> variant, args |-> args, label |-> 0]
mkjump(cc, label) ==
  [tag |-> "jump", variant |-> cc, args |-> <<>>, label |-> label]
mkcall(f) == [tag |-> "call", variant |-> f, args |-> <<>>, label |-> 0]

Operand == {"var", "reg"} \X STRING \cup {"imm"} \X Int
             \cup {"mem"} \X STRING \X Int
Instr   == [tag : {"instr", "jump", "call"}, variant : STRING,
            args : Seq(Operand), label : Nat]

rax == Reg64("rax")
rdx == Reg64("rdx")

Named(args) == {a \in args : isVar(a) \/ isReg(a)}
Args(l)     == {l.args[j] : j \in DOMAIN l.args}

(***************************************************************************)
(* What (asmOp).dest and (asmOp).src return, as sets, without the operands *)
(* that are neither a variable nor a register: every caller skips those.   *)
(***************************************************************************)
dest(l) ==
  CASE l.tag # "instr" \/ l.variant = "cmpq"     -> {}
    [] l.tag = "instr"
         /\ l.variant \in {"idiv", "imul", "cqto"} -> {rdx}
    [] OTHER -> Named({l.args[1]})

src(l) ==
  CASE l.tag # "instr" -> {}
    [] l.tag = "instr" /\ l.variant \in {"movq", "movzbq"}
         -> Named({l.args[j] : j \in DOMAIN l.args \ {1}})
    [] OTHER -> Named(Args(l))

(***************************************************************************)
(* computeLiveSets: the variables and registers that are live before each  *)
(* instruction of a block, when initialSet is live after its last one.     *)
(* The entry after the last instruction exists and stays empty.            *)
(***************************************************************************)
computeLiveSets(code, initialSet) ==
  LET live[k \in 1..(Len(code) + 1)] ==
        IF k = Len(code) + 1 THEN initialSet
                             ELSE (live[k + 1] \ dest(code[k])) \cup src(code[k])
  IN  [k \in 1..(Len(code) + 1) |-> IF k = Len(code) + 1 THEN {} ELSE live[k]]
=============================================================================
