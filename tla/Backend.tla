------------------------------ MODULE Backend ------------------------------
(***************************************************************************)
(* The passes of asm.go from a Func to machine code (main.go:51-79):       *)
(* SelectInstructions, assignHomes with regalloc inside it,                *)
(* addStackFrameInstructions and patchInstructions.  pass is the pass that *)
(* runs next; asm is the code of the blocks as the passes rewrite it.      *)
(***************************************************************************)
EXTENDS RegAlloc, Select

CONSTANTS Funcs,       \* the functions to compile
          CalleeSave   \* regallocParams.CalleeSave, as a set

ASSUME FuncsAssumption == Programs = {AsmProg(fn) : fn \in Funcs}

VARIABLES fn, pass, asm,
          registers,           \* the registers the code uses, in order
          stacksize, rootsize

code_vars == <<fn, pass, asm, registers, stacksize, rootsize>>

CompileInit ==
  /\ fn \in Funcs /\ f = AsmProg(fn) /\ Start
  /\ pass = "regalloc"
  /\ asm = [j \in DOMAIN f.blocks |-> code(j)]
  /\ registers = <<>> /\ stacksize = 0 /\ rootsize = 0

RegAlloc == /\ pass = "regalloc"
            /\ Next
            /\ UNCHANGED code_vars

----------------------------------------------------------------------------
(* assignHomes: a register or a slot of a stack for every variable. *)

R(v) == IF v \in G THEN Reg[v] ELSE 0
Spilled(v) == R(v) >= Len(Registers)

\* tuples and other values do not share a slot
Key(v) == IF v \in f.gcable THEN -R(v) ELSE R(v)

\* where the code mentions a spilled variable: the place and which operand
Mentions ==
  UNION {{<<p, n>> : n \in {n \in DOMAIN At(p).args :
                              isVar(At(p).args[n]) /\ Spilled(At(p).args[n])}} : p \in Places}

Earlier(m, o) == Before(m[1], o[1]) \/ (m[1] = o[1] /\ m[2] < o[2])

KeyAt(m)  == Key(At(m[1]).args[m[2]])
Keys      == {KeyAt(m) : m \in Mentions}
RootKeys  == {k \in Keys : k < 0}
StackKeys == {k \in Keys : k > 0}

\* the keys that the code comes to no later than it comes to this one
UpTo(key) ==
  {k \in Keys : \E m \in Mentions :
     KeyAt(m) = k /\ \A o \in Mentions : KeyAt(o) = key => ~Earlier(o, m)}

\* the slot of a key, counted from 1 on its stack
Nth(key) == Cardinality(UpTo(key) \cap (IF key < 0 THEN RootKeys ELSE StackKeys))

gethome_OneStack(slot, v) ==
  IF Spilled(v) THEN mkmem("rsp", 8 * (Cardinality(UpTo(Key(v))) - 1))
                ELSE Reg64(Registers[R(v) + 1])

gethome_NoBump(slot, v) ==
  CASE ~Spilled(v) -> Reg64(Registers[R(v) + 1])
    [] Spilled(v) /\ Key(v) < 0 -> mkmem("r15", -8 * slot[Key(v)])
    [] Spilled(v) /\ Key(v) > 0 -> mkmem("rsp", 0)

gethome(slot, v) ==
  CASE ~Spilled(v) -> Reg64(Registers[R(v) + 1])
    [] Spilled(v) /\ Key(v) < 0 -> mkmem("r15", -8 * slot[Key(v)])
    [] Spilled(v) /\ Key(v) > 0 -> mkmem("rsp", 8 * (slot[Key(v)] - 1))

\* the elements of s that are in T, in their order: SelectSeq, which the
\* provers know nothing of
Only(s, T) ==
  LET kept[n \in 0..Len(s)] ==
        IF n = 0 THEN <<>>
        ELSE IF s[n] \in T THEN Append(kept[n - 1], s[n]) ELSE kept[n - 1]
  IN  kept[Len(s)]

\* the registers that some variable or the code itself uses
Used == {r \in ToSet(Registers) : \E n \in G : Reg[n] \in Colour(r)}

AssignHomes ==
  /\ pass = "regalloc" /\ pc = "done"
  /\ LET slot  == [k \in Keys |-> Nth(k)]
         stack == 8 * Cardinality(StackKeys)
         home(a) == IF isVar(a) THEN gethome(slot, a) ELSE a
         rewrite(instr) == [instr EXCEPT !.args = [n \in DOMAIN @ |-> home(@[n])]]
     IN  /\ asm' = [j \in DOMAIN asm |-> [k \in DOMAIN asm[j] |-> rewrite(asm[j][k])]]
         /\ rootsize' = 8 * Cardinality(RootKeys)
         /\ stacksize' = stack + ((-stack) % 16)
  /\ registers' = Only(Registers, Used)
  /\ pass' = "frame"
  /\ UNCHANGED <<vars, fn>>

----------------------------------------------------------------------------
(* addStackFrameInstructions: the first block enters the frame and the     *)
(* last one leaves it.                                                     *)

rsp == Reg64("rsp")
r15 == Reg64("r15")

\* instrs if the frame has this part at all
Needed(size, instrs) == IF size # 0 THEN instrs ELSE <<>>

Saved == Only(registers, CalleeSave)

ZeroRoots == [n \in 1..(rootsize \div 8) |-> mkinstr("movq", <<mkmem("r15", -8 * n), Imm(0)>>)]

Entry_StaleRoots ==
  [n \in DOMAIN Saved |-> mkinstr("pushq", <<Reg64(Reverse(Saved)[n])>>)]
  \o Needed(stacksize, <<mkinstr("subq", <<rsp, Imm(stacksize)>>)>>)
  \o Needed(rootsize, <<mkinstr("addq", <<r15, Imm(rootsize)>>)>>)

Entry ==
  [n \in DOMAIN Saved |-> mkinstr("pushq", <<Reg64(Reverse(Saved)[n])>>)]
  \o Needed(stacksize, <<mkinstr("subq", <<rsp, Imm(stacksize)>>)>>)
  \o Needed(rootsize, <<mkinstr("addq", <<r15, Imm(rootsize)>>)>> \o ZeroRoots)

Exit_PopsReversed ==
  Needed(rootsize, <<mkinstr("subq", <<r15, Imm(rootsize)>>)>>)
  \o Needed(stacksize, <<mkinstr("addq", <<rsp, Imm(stacksize)>>)>>)
  \o [n \in DOMAIN Saved |-> mkinstr("popq", <<Reg64(Reverse(Saved)[n])>>)]

Exit_KeepsRoots ==
  Needed(stacksize, <<mkinstr("addq", <<rsp, Imm(stacksize)>>)>>)
  \o [n \in DOMAIN Saved |-> mkinstr("popq", <<Reg64(Saved[n])>>)]

Exit ==
  Needed(rootsize, <<mkinstr("subq", <<r15, Imm(rootsize)>>)>>)
  \o Needed(stacksize, <<mkinstr("addq", <<rsp, Imm(stacksize)>>)>>)
  \o [n \in DOMAIN Saved |-> mkinstr("popq", <<Reg64(Saved[n])>>)]

AddStackFrame_AllLeave ==
  /\ pass = "frame"
  /\ asm' = [j \in DOMAIN asm |-> (IF j = 1 THEN Entry ELSE <<>>) \o asm[j] \o Exit]
  /\ pass' = "patch"
  /\ UNCHANGED <<vars, fn, registers, stacksize, rootsize>>

AddStackFrame ==
  /\ pass = "frame"
  /\ asm' = [j \in DOMAIN asm |-> (IF j = 1 THEN Entry ELSE <<>>) \o asm[j]
                                  \o (IF j = Len(asm) THEN Exit ELSE <<>>)]
  /\ pass' = "patch"
  /\ UNCHANGED <<vars, fn, registers, stacksize, rootsize>>

(* patchInstructions: at most one operand is in memory; imul is left alone. *)
patch(instr) ==
  IF instr.tag = "instr" /\ instr.variant # "imul"
     /\ Len(instr.args) = 2 /\ isMem(instr.args[1]) /\ isMem(instr.args[2])
  THEN <<mkinstr("movq", <<rax, instr.args[2]>>),
         mkinstr(instr.variant, <<instr.args[1], rax>>)>>
  ELSE <<instr>>

PatchInstructions ==
  /\ pass = "patch"
  /\ asm' = [j \in DOMAIN asm |-> FlattenSeq([k \in DOMAIN asm[j] |-> patch(asm[j][k])])]
  /\ pass' = "compiled"
  /\ UNCHANGED <<vars, fn, registers, stacksize, rootsize>>

Compile == RegAlloc \/ AssignHomes \/ AddStackFrame \/ PatchInstructions

CompileSpec == CompileInit /\ [][Compile]_<<vars, code_vars>>

----------------------------------------------------------------------------
(* Properties. *)

\* the instruction that assignHomes made of the one at p
Rewritten(p) == asm[p[1]][p[2]]

(***************************************************************************)
(* No instruction writes to where a variable lives that is still needed    *)
(* after it, in a register or on either stack (asm.go:226-309): slots that *)
(* are in use at one time are different slots.                             *)
(***************************************************************************)
HomesApart ==
  pass = "frame" =>
    \A p \in Places :
      \A d \in dest(At(p)), v \in LiveAfter(p) \cap DefinedBy(p) :
        (/\ Allocatable(d) /\ isVar(v) /\ v # d
         /\ ~(At(p).variant = "movq" /\ At(p).args[2] = v))
        => \A q \in Places : \A n \in DOMAIN At(q).args :
             At(q).args[n] = v =>
               Rewritten(q).args[n] # (IF isVar(d) THEN Rewritten(p).args[1] ELSE d)

(***************************************************************************)
(* Every slot is in the frame: the caller's stack and its part of the root *)
(* stack are not touched, and the root stack holds tuples only             *)
(* (asm.go:226-241, 310-315).                                              *)
(***************************************************************************)
SlotsInFrame ==
  pass = "frame" =>
    \A p \in Places : \A n \in DOMAIN At(p).args :
      LET v == At(p).args[n]
          home == Rewritten(p).args[n]
      IN  isVar(v) /\ isMem(home) =>
            IF v \in f.gcable THEN /\ home[2] = "r15" /\ home[3] <= -8 /\ -home[3] <= rootsize
                              ELSE /\ home[2] = "rsp" /\ home[3] >= 0
                                   /\ home[3] + 8 <= stacksize
=============================================================================
