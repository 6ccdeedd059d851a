------------------------------ MODULE Execute ------------------------------
(***************************************************************************)
(* Does compiled code do what the portable code says?  When Backend is     *)
(* done the portable code runs, and what it does that matters (branches,   *)
(* calls, writes to tuples, its result) is written to trace; then the      *)
(* machine code runs and must do the same.                                 *)
(*                                                                         *)
(* A value is <<"int", n>>, a term such as <<"-", x, y>>, a pointer        *)
(* <<"tuple", k>> to the k-th tuple, <<"root", n>> or <<"stack", n>>, or   *)
(* Junk.  Both sides build the same terms, so what they do is compared for *)
(* all numbers at once.  Every call moves all tuples: pointers on the root *)
(* stack and in the elements of a tuple that its mask names are updated,   *)
(* all others are Stale.                                                   *)
(***************************************************************************)
EXTENDS Backend

VARIABLES at,     \* the block and the op or instruction that runs next
          env,    \* the values of the registers of the portable code
          fields, \* the elements of the tuples of the portable code
          trace,  \* what the portable code did
          seen,   \* how much of trace the machine code did so far
          regs, memory, flags,  \* the machine
          masks   \* the pointer masks of the tuples made so far

source_vars == <<env, fields, trace>>
machine_vars == <<regs, memory, flags, masks, seen>>
all_vars == <<vars, code_vars, at, source_vars, machine_vars>>

Junk  == <<"junk">>
Stale == <<"stale">>
Int64(n) == <<"int", n>>

----------------------------------------------------------------------------
(* The portable code, for all numbers at once. *)

Term(variant, x, y) == <<IF variant \in Compares THEN cc[variant] ELSE variant, x, y>>
Either(variant, x, y) == BOOLEAN

Code == INSTANCE Portable WITH Result <- Term, Outcomes <- Either

SourceOp ==
  /\ pass = "source"
  /\ \/ Code!DoOp /\ UNCHANGED pass
     \/ Code!DoReturn /\ pass' = "machine"
  /\ UNCHANGED <<vars, machine_vars, fn, asm, registers, stacksize, rootsize>>

----------------------------------------------------------------------------
(* The machine. *)

instr == asm[at[1]][at[2]]
GoOn == at' = <<at[1], at[2] + 1>>
AtCode == pass = "machine" /\ at[2] \in DOMAIN asm[at[1]]

Full(r) == IF r = "al" THEN "rax" ELSE r
Address(a) == LET base == regs[a[2]]
              IN  CASE base[1] \in {"root", "stack"} -> <<base[1], base[2] + a[3]>>
                    [] base[1] = "tuple" -> <<"tuple", base[2], a[3]>>
                    [] OTHER -> Junk

Load(a) == CASE isReg(a) -> regs[Full(a[2])]
             [] a[1] = "imm" -> Int64(a[2])
             [] isMem(a) -> IF Address(a) \in DOMAIN memory THEN memory[Address(a)] ELSE Junk

\* registers that point into a stack are counted with, others make terms
Add(x, y) == IF x[1] \in {"root", "stack"} THEN <<x[1], x[2] + y[2]>> ELSE <<"+", x, y>>
Sub(x, y) == IF x[1] \in {"root", "stack"} THEN <<x[1], x[2] - y[2]>> ELSE <<"-", x, y>>

\* what an instruction with one result puts in its destination
SetIf == [setz |-> "z", setnz |-> "nz", setl |-> "l", setle |-> "le", setg |-> "g", setge |-> "ge"]
Simple == {"movq", "movzbq", "addq", "subq", "imul", "negq"} \cup DOMAIN SetIf

Outcome ==
  LET d == Load(instr.args[1])
      s == Load(instr.args[Len(instr.args)])
  IN  CASE instr.variant \in {"movq", "movzbq"} -> s
        [] instr.variant = "addq" -> Add(d, s)
        [] instr.variant = "subq" -> Sub(d, s)
        [] instr.variant = "imul" -> <<"*", d, s>>
        [] instr.variant = "negq" -> Sub(Int64(0), d)
        [] instr.variant \in DOMAIN SetIf -> <<SetIf[instr.variant], flags[1], flags[2]>>

Wrong == pass' = "wrong" /\ UNCHANGED <<at, machine_vars>>

\* the machine does what the portable code did next
Matches(event) == seen < Len(trace) /\ trace[seen + 1] = event

ToRegister ==
  /\ instr.variant \in Simple /\ isReg(instr.args[1])
  /\ regs' = [regs EXCEPT ![Full(instr.args[1][2])] = Outcome]
  /\ flags' = IF instr.variant \in {"addq", "subq", "imul", "negq"} THEN <<>> ELSE flags
  /\ GoOn /\ UNCHANGED <<pass, memory, masks, seen>>

ToMemory ==
  /\ instr.variant \in Simple /\ isMem(instr.args[1])
  /\ LET a   == Address(instr.args[1])
         set == [event |-> "set", of |-> <<a[2], a[3] \div 8, Outcome>>]
     IN  \/ /\ a[1] \in {"root", "stack"} \/ (a[1] = "tuple" /\ Matches(set))
            /\ memory' = With(memory, a, Outcome)
            /\ seen' = IF a[1] = "tuple" THEN seen + 1 ELSE seen
            /\ GoOn /\ UNCHANGED <<pass, regs, masks>>
            /\ flags' = IF instr.variant \in {"movq", "movzbq"} THEN flags ELSE <<>>
         \/ /\ a = Junk \/ (a[1] = "tuple" /\ ~Matches(set))
            /\ Wrong

Divide ==
  /\ instr.variant \in {"cqto", "idiv"}
  /\ LET sign == <<"sign", regs["rax"]>>
         term(o) == IF regs["rdx"] = sign THEN <<o, regs["rax"], Load(instr.args[1])>> ELSE Junk
     IN  regs' = IF instr.variant = "cqto" THEN [regs EXCEPT !["rdx"] = sign]
                 ELSE [regs EXCEPT !["rax"] = term("/"), !["rdx"] = term("%")]
  /\ flags' = <<>>
  /\ GoOn /\ UNCHANGED <<pass, memory, masks, seen>>

Compare ==
  /\ instr.variant = "cmpq"
  /\ flags' = <<Load(instr.args[1]), Load(instr.args[2])>>
  /\ GoOn /\ UNCHANGED <<pass, regs, memory, masks, seen>>

Push ==
  /\ instr.variant = "pushq"
  /\ regs' = [regs EXCEPT !["rsp"] = Sub(@, Int64(8))]
  /\ memory' = With(memory, regs'["rsp"], Load(instr.args[1]))
  /\ GoOn /\ UNCHANGED <<pass, flags, masks, seen>>

Pop ==
  /\ instr.variant = "popq"
  /\ regs' = [regs EXCEPT ![instr.args[1][2]] = memory[regs["rsp"]],
                          !["rsp"] = Add(regs["rsp"], Int64(8))]
  /\ GoOn /\ UNCHANGED <<pass, memory, flags, masks, seen>>

Jump ==
  /\ instr.tag = "jump"
  /\ IF instr.variant = ""
     THEN at' = <<instr.label, 1>> /\ UNCHANGED <<pass, machine_vars>>
     ELSE \/ \E taken \in BOOLEAN :
               /\ Matches([event |-> "branch", cc |-> instr.variant, of |-> flags, taken |-> taken])
               /\ seen' = seen + 1
               /\ IF taken THEN at' = <<instr.label, 1>> ELSE GoOn
               /\ UNCHANGED <<pass, regs, memory, flags, masks>>
          \/ /\ \A taken \in BOOLEAN :
                  ~Matches([event |-> "branch", cc |-> instr.variant, of |-> flags, taken |-> taken])
             /\ Wrong

\* psc_newtuple; the other arguments of a call are compared, its name is not
Bit(mask, n) == (mask \div 2 ^ n) % 2 = 1

OnRootStack(a) == a[1] = "root" /\ a[2] < regs["r15"][2]
Updated(a) == OnRootStack(a) \/ (a[1] = "tuple" /\ Bit(masks[a[2]], a[3] \div 8))
Moved(v) == IF v[1] = "tuple" THEN Stale ELSE v

CallTuple ==
  /\ instr.tag = "call"
  /\ LET given == [n \in 1..2 |-> regs[ArgRegisters[n + 1]]]
     IN  \/ /\ Matches([event |-> "call", of |-> given])
            /\ regs[ArgRegisters[1]] = regs["r15"]
            /\ regs' = [r \in DOMAIN regs |->
                          IF r = "rax" THEN <<"tuple", Len(masks) + 1>>
                          ELSE IF r \in CallerSave THEN Junk ELSE Moved(regs[r])]
            /\ memory' = [a \in DOMAIN memory |-> IF Updated(a) THEN memory[a] ELSE Moved(memory[a])]
            /\ masks' = Append(masks, given[2][2])
            /\ flags' = <<>> /\ seen' = seen + 1
            /\ GoOn /\ UNCHANGED pass
         \/ /\ ~Matches([event |-> "call", of |-> given]) \/ regs[ArgRegisters[1]] # regs["r15"]
            /\ Wrong

\* the code of a block that does not end with a jump runs into the next
RunOff ==
  /\ pass = "machine" /\ at[2] \notin DOMAIN asm[at[1]]
  /\ \/ at[1] < Len(asm) /\ at' = <<at[1] + 1, 1>> /\ UNCHANGED <<pass, machine_vars>>
     \/ /\ at[1] = Len(asm) /\ Matches([event |-> "return", of |-> regs["rax"]])
        /\ pass' = "returned" /\ seen' = seen + 1
        /\ UNCHANGED <<at, regs, memory, flags, masks>>
     \/ /\ at[1] = Len(asm) /\ ~Matches([event |-> "return", of |-> regs["rax"]])
        /\ Wrong

Machine ==
  /\ \/ AtCode /\ (\/ ToRegister \/ ToMemory \/ Divide \/ Compare \/ Push \/ Pop
                   \/ Jump \/ CallTuple)
     \/ RunOff
  /\ UNCHANGED <<vars, fn, asm, registers, stacksize, rootsize, source_vars>>

----------------------------------------------------------------------------

Machine64 == {"rax", "rbx", "rcx", "rdx", "rsi", "rdi", "rsp", "r8", "r9", "r10", "r11",
              "r12", "r13", "r14", "r15"}
Before64 == [r \in Machine64 |-> CASE r = "r15" -> <<"root", 0>>
                                   [] r = "rsp" -> <<"stack", 0>>
                                   [] OTHER -> <<"before", r>>]

ExecInit ==
  /\ CompileInit
  /\ Code!CodeInit /\ seen = 0
  /\ regs = Before64 /\ memory = [a \in {} |-> Junk] /\ flags = <<>> /\ masks = <<>>

Begin ==
  /\ pass = "compiled" /\ pass' = "source"
  /\ UNCHANGED <<vars, fn, asm, registers, stacksize, rootsize, at, source_vars, machine_vars>>

ExecNext ==
  \/ Compile /\ UNCHANGED <<at, source_vars, machine_vars>>
  \/ Begin \/ SourceOp \/ Machine

ExecSpec == ExecInit /\ [][ExecNext]_all_vars /\ WF_all_vars(ExecNext)

----------------------------------------------------------------------------
(***************************************************************************)
(* The machine code branches, calls and writes to tuples as the portable   *)
(* code does, in the same order and with the same values, and returns its  *)
(* result: no register or slot was given away while it was needed, and no  *)
(* pointer was kept where the collector does not update it.                *)
(***************************************************************************)
SameBehaviour == pass # "wrong"

(***************************************************************************)
(* Whenever psc_newtuple may collect, every slot below the root stack      *)
(* pointer holds a tuple or 0, never a number or what was there before.    *)
(***************************************************************************)
RootsHoldTuples ==
  AtCode /\ instr.tag = "call" =>
    \A n \in 0..(regs["r15"][2] \div 8 - 1) :
      /\ <<"root", 8 * n>> \in DOMAIN memory
      /\ LET v == memory[<<"root", 8 * n>>] IN v[1] = "tuple" \/ v = Int64(0)

(***************************************************************************)
(* The caller gets its registers back: both stack pointers, and the        *)
(* registers that the calling convention says are preserved.               *)
(***************************************************************************)
CallerSeesNothing ==
  pass = "returned" => \A r \in CalleeSave \cup {"rsp", "r15"} : regs[r] = Before64[r]

(***************************************************************************)
(* "the size and layout of this struct is known to the compiler"           *)
(* (runtime.c:56): no element of a tuple lies in its header.               *)
(***************************************************************************)
TupleHeader == 72

KnowsLayout == \A a \in DOMAIN memory : a[1] = "tuple" => a[3] >= TupleHeader

(* Compiling ends, and so does the compiled program. *)
Finishes == <>(pass = "returned")
=============================================================================
