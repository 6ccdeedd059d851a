----------------------------- MODULE ExecuteInv -----------------------------
(***************************************************************************)
(* The inductive invariant behind CallerSeesNothing: of what the code that *)
(* is about to run is made, and what the machine's two stacks and the      *)
(* registers of the caller are at each place of it.  Module FrameProof     *)
(* proves that every step keeps it.                                        *)
(***************************************************************************)
EXTENDS Execute

\* The registers that SelectInstructions and patchInstructions write.
Scratch == {"rax", "rdx", "r11"} \cup ToSet(ArgRegisters)

\* The calling convention (reg.go:40-52) as far as the proof needs it.
Convention ==
  /\ ToSet(Registers) \cup Scratch \cup CalleeSave \subseteq Machine64
  /\ {"rsp", "r15"} \cap (ToSet(Registers) \cup Scratch) = {}
  /\ CalleeSave \cap Scratch = {}
  /\ CallerSave \cap (CalleeSave \cup {"rsp", "r15"}) = {}
  /\ ArgRegisters \in Seq(STRING)

-----------------------------------------------------------------------------
(* The portable code that SelectInstructions can be given: on other code   *)
(* it panics (asm.go:499-560) or leaves a variable without a value.        *)

PortableOp == [opcode : STRING, variant : STRING, dst : STRING, src : Seq(STRING),
               label : Seq(Nat), value : Int]
PortableBlock == [args : Seq(STRING), code : Seq(PortableOp), succ : Seq(Nat), pred : Seq(Nat)]

Ops(s) == UNION {ToSet(s.blocks[j].code) : j \in DOMAIN s.blocks}

\* The registers that op o gives a value: its result, or the parameters of
\* the block it jumps to.
ResultsOf(s, o) ==
  CASE o.opcode \in {"binop", "call", "record_get"} -> {o.dst}
    [] o.opcode = "jump" -> ToSet(s.blocks[o.label[1]].args)
    [] OTHER -> {}

WrittenRegs(s) == UNION {ResultsOf(s, o) : o \in Ops(s)}

\* The k-th op of a block: its operands, and no way back to the first block.
LoweredOp(s, ops, k) ==
  LET o == ops[k] IN
  \/ o.opcode = "literal"
  \/ o.opcode = "binop" /\ o.variant \in {"*", "/", "+", "-"} \cup Compares /\ Len(o.src) = 2
  \/ o.opcode = "compare" /\ o.variant \in Compares /\ Len(o.src) = 2
  \/ /\ o.opcode = "branch" /\ k > 1 /\ ops[k - 1].opcode = "compare"
     /\ Len(o.label) = 2 /\ ToSet(o.label) \subseteq 2..Len(s.blocks)
  \/ /\ o.opcode = "jump" /\ Len(o.label) = 1 /\ o.label[1] \in 2..Len(s.blocks)
     /\ Len(o.src) = Len(s.blocks[o.label[1]].args)
  \/ o.opcode = "call" /\ o.variant \in {"psc_newtuple", ""} /\ Len(o.src) < Len(ArgRegisters)
  \/ o.opcode = "record_set" /\ Len(o.src) = 2 /\ o.src[1] \notin DOMAIN s.literals
  \/ o.opcode = "record_get" /\ Len(o.src) = 1 /\ o.src[1] \notin DOMAIN s.literals
  \/ o.opcode = "return" /\ Len(o.src) = 1

Lowered(s) ==
  /\ s.blocks \in Seq(PortableBlock) /\ s.blocks # <<>>
  /\ \A j \in DOMAIN s.blocks :
       LET ops == s.blocks[j].code IN
         /\ ops # <<>> /\ ops[Len(ops)].opcode \in {"branch", "jump", "return"}
         /\ \A k \in DOMAIN ops : LoweredOp(s, ops, k)
  /\ \A o \in Ops(s) : ToSet(o.src) \subseteq DOMAIN s.literals \cup WrittenRegs(s)

-----------------------------------------------------------------------------
(* The code that the passes make of it. *)

Opcodes == Simple \cup {"cmpq", "cqto", "idiv"}

\* An operand that reads neither a stack pointer nor memory above a frame of
\* this size.
Placed(a, size) ==
  \/ a[1] = "imm"
  \/ isReg(a) /\ Full(a[2]) \in Machine64 \ {"rsp"}
  \/ isMem(a) /\ a[2] \in Machine64 /\ (a[2] = "rsp" => a[3] \in 0..(size - 8))

\* An instruction of one of n blocks that is not of the frame: it writes no
\* register but these, and does not jump to the first block.
Ordinary(op, n, writes) ==
  \/ op.tag = "jump" /\ op.label \in 2..n /\ op.variant \notin Opcodes \cup {"pushq", "popq"}
  \/ op.tag = "call" /\ op.variant \notin Opcodes \cup {"pushq", "popq"}
  \/ /\ op.tag = "instr" /\ op.variant \in Opcodes
     /\ op.variant \in Simple /\ isReg(op.args[1]) => Full(op.args[1][2]) \in writes

\* What SelectInstructions makes.
Selected(p) ==
  /\ p.blocks # <<>>
  /\ \A j \in DOMAIN p.blocks : \A k \in DOMAIN p.blocks[j].code :
       LET op == p.blocks[j].code[k] IN
         /\ Ordinary(op, Len(p.blocks), Scratch)
         /\ op.tag = "instr" => Len(op.args) \in 1..2 \/ op.variant = "cqto"
         /\ \A n \in DOMAIN op.args : isVar(op.args[n]) \/ Placed(op.args[n], 0)

\* The registers that the code between entry and exit may write.
Writable == {r \in Machine64 \ {"rsp", "r15"} : r \in CalleeSave => r \in ToSet(Saved)}

Assigned(op, n, writes, size) ==
  /\ Ordinary(op, n, writes)
  /\ op.tag = "instr" =>
       /\ DOMAIN op.args = 1..Len(op.args)
       /\ Len(op.args) \in 1..2 \/ op.variant = "cqto"
       /\ \A k \in DOMAIN op.args : Placed(op.args[k], size)

Body(op) == Assigned(op, Len(asm), Writable, stacksize)

(***************************************************************************)
(* The code: the first block enters the frame, the last one leaves it, and *)
(* nothing else does.                                                      *)
(***************************************************************************)
Framed == pass \in {"patch", "compiled", "source", "machine", "returned"}

EntryLen(j) == IF Framed /\ j = 1 THEN Len(Entry) ELSE 0
ExitLen(j)  == IF Framed /\ j = Len(asm) THEN Len(Exit) ELSE 0

CodeInv ==
  Framed \/ pass = "frame" =>
    /\ asm # <<>> /\ stacksize \in Nat /\ rootsize \in Nat
    /\ \A j \in DOMAIN asm :
         LET n == Len(asm[j]) - ExitLen(j) IN
           /\ EntryLen(j) <= n
           /\ \A k \in 1..EntryLen(j) : asm[j][k] = Entry[k]
           /\ \A k \in 1..ExitLen(j) : asm[j][n + k] = Exit[k]
           /\ \A k \in (EntryLen(j) + 1)..n : Body(asm[j][k])

(***************************************************************************)
(* The machine.  So many registers are pushed, and the stack pointers are  *)
(* so far from where they were.                                            *)
(***************************************************************************)
Frame(pushed, size, roots) ==
  /\ DOMAIN regs = Machine64
  /\ regs["rsp"] = <<"stack", -8 * pushed - size>>
  /\ regs["r15"] = <<"root", roots>>
  /\ \A r \in CalleeSave \ {"rsp", "r15"} : r \notin ToSet(Saved) => regs[r] = Before64[r]
  /\ \A n \in DOMAIN Saved :
       LET place == Len(Saved) - n + 1 IN   \* the order of the pushes
         IF place <= pushed THEN /\ <<"stack", -8 * place>> \in DOMAIN memory
                                 /\ memory[<<"stack", -8 * place>>] = Before64[Saved[n]]
                            ELSE regs[Saved[n]] = Before64[Saved[n]]
  /\ \A r \in Machine64 \ {"rsp"} : regs[r][1] # "stack"
  /\ \A a \in DOMAIN memory : memory[a][1] # "stack"

One(size) == IF size # 0 THEN 1 ELSE 0

\* After d instructions of Entry, and after u instructions of Exit.
Entered(d) ==
  LET m == Len(Saved) IN
  Frame(IF d < m THEN d ELSE m,
        IF d >= m + One(stacksize) THEN stacksize ELSE 0,
        IF d >= m + One(stacksize) + One(rootsize) THEN rootsize ELSE 0)
Left(u) ==
  LET back == One(rootsize) + One(stacksize) IN
  Frame(IF u > back THEN Len(Saved) - (u - back) ELSE Len(Saved),
        IF u >= back THEN 0 ELSE stacksize,
        IF u >= One(rootsize) THEN 0 ELSE rootsize)

Inside == Frame(Len(Saved), stacksize, rootsize)

\* When the k-th instruction of block j runs next.
Position(j, k) ==
  LET n == Len(asm[j]) - ExitLen(j) IN
  /\ j \in DOMAIN asm /\ k \in 1..(Len(asm[j]) + 1)
  /\ k <= EntryLen(j) => Entered(k - 1)
  /\ k \in (EntryLen(j) + 1)..(n + 1) => Inside
  /\ k > n => Left(k - 1 - n)

MachineInv ==
  /\ pass \in {"regalloc", "frame", "patch", "compiled", "source"} =>
       regs = Before64 /\ DOMAIN memory = {}
  /\ pass \in {"machine", "returned"} => Position(at[1], at[2])
  /\ pass = "returned" => at[1] = Len(asm) /\ at[2] = Len(asm[at[1]]) + 1
=============================================================================
