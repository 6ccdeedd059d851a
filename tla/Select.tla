------------------------------- MODULE Select -------------------------------
(***************************************************************************)
(* SelectInstructions (asm.go), which turns portable code into             *)
(* instructions.                                                           *)
(***************************************************************************)
EXTENDS Asm, PortableCode

CONSTANT ArgRegisters   \* regallocParams.Args

getLiteral(fn, r) == IF r \in DOMAIN fn.literals THEN Imm(fn.literals[r]) ELSE Var(r)

rbase == Reg64("r11")

\* the instruction that keeps what a comparison found
setcc == [v \in Compares |-> CASE v = "eq" -> "setz" [] v = "ne" -> "setnz"
                               [] v = "<"  -> "setl" [] v = "<=" -> "setle"
                               [] v = ">"  -> "setg" [] v = ">=" -> "setge"]

(* x86 has no three-operand form: the result is computed in place. *)
SelectBinOp(fn, o) ==
  LET d == Var(o.dst)
      x == getLiteral(fn, o.src[1])
      y == getLiteral(fn, o.src[2])
      in_place(op) == <<mkinstr("movq", <<d, x>>), mkinstr(op, <<d, y>>)>>
  IN  CASE o.variant = "*" -> in_place("imul")
        [] o.variant = "/" -> <<mkinstr("movq", <<rax, x>>), mkinstr("cqto", <<>>),
                                mkinstr("idiv", <<y>>), mkinstr("movq", <<d, rax>>)>>
        [] o.variant = "+" ->
             CASE o.dst = o.src[1] -> <<mkinstr("addq", <<d, y>>)>>
               [] o.dst # o.src[1] /\ o.dst = o.src[2] -> <<mkinstr("addq", <<d, x>>)>>
               [] OTHER -> in_place("addq")
        [] o.variant = "-" ->
             CASE o.dst = o.src[1] -> <<mkinstr("subq", <<d, y>>)>>
               [] o.dst # o.src[1] /\ x = Imm(0) /\ o.dst = o.src[2] ->
                    <<mkinstr("negq", <<d>>)>>
               [] o.dst # o.src[1] /\ x = Imm(0) /\ o.dst # o.src[2] ->
                    <<mkinstr("movq", <<d, y>>), mkinstr("negq", <<d>>)>>
               [] OTHER -> in_place("subq")
        [] o.variant \in Compares ->
             <<mkinstr("cmpq", <<x, y>>),
               mkinstr(setcc[o.variant], <<Reg64("al")>>),
               mkinstr("movzbq", <<d, Reg64("al")>>)>>

\* the parameters of a block are assigned by the jumps to it
SelectJump(fn, o) ==
  LET params == fn.blocks[o.label[1]].args
  IN  [k \in DOMAIN params |-> mkinstr("movq", <<Var(params[k]), getLiteral(fn, o.src[k])>>)]
      \o <<mkjump("", o.label[1])>>

\* the root stack is the first argument of every call
SelectCall(fn, o) ==
  <<mkinstr("movq", <<Reg64(ArgRegisters[1]), Reg64("r15")>>)>>
  \o [k \in DOMAIN o.src |->
        mkinstr("movq", <<Reg64(ArgRegisters[k + 1]), getLiteral(fn, o.src[k])>>)]
  \o <<mkcall(o.variant), mkinstr("movq", <<Var(o.dst), rax>>)>>

\* the instructions of the k-th op of a block
SelectOp(fn, ops, k) ==
  LET o == ops[k] IN
  CASE o.opcode = "literal" -> <<>>
    [] o.opcode = "binop"   -> SelectBinOp(fn, o)
    [] o.opcode = "compare" ->
         <<mkinstr("cmpq", <<getLiteral(fn, o.src[1]), getLiteral(fn, o.src[2])>>)>>
    [] o.opcode = "branch"  ->
         <<mkjump(cc[ops[k - 1].variant], o.label[1]), mkjump("", o.label[2])>>
    [] o.opcode = "call"    -> SelectCall(fn, o)
    [] o.opcode = "record_set" ->
         <<mkinstr("movq", <<rbase, Var(o.src[1])>>),
           mkinstr("movq", <<mkmem("r11", 8 * o.value), getLiteral(fn, o.src[2])>>)>>
    [] o.opcode = "record_get" ->
         <<mkinstr("movq", <<rbase, Var(o.src[1])>>),
           mkinstr("movq", <<Var(o.dst), mkmem("r11", 8 * o.value)>>)>>
    [] o.opcode = "jump"    -> SelectJump(fn, o)
    [] o.opcode = "return"  -> <<mkinstr("movq", <<rax, getLiteral(fn, o.src[1])>>)>>

SelectInstructions(fn, ops) == FlattenSeq([k \in DOMAIN ops |-> SelectOp(fn, ops, k)])

\* copyCFG copies succ, which lower fills where it emits jumps and branches
AsmProg(fn) ==
  [blocks |-> [j \in DOMAIN fn.blocks |->
                 [code |-> SelectInstructions(fn, fn.blocks[j].code),
                  succ |-> fn.blocks[j].succ]],
   gcable |-> {Var(r) : r \in fn.tuples}]
=============================================================================
