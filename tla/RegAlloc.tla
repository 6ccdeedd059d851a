------------------------------ MODULE RegAlloc ------------------------------
(***************************************************************************)
(* regalloc (reg.go): liveness, the conflict graph and its colouring.      *)
(*                                                                         *)
(* One action is one iteration of a loop of regalloc, and pc names the     *)
(* loop.  A colorNode is spread over the functions Reg, Conflict, Moves,   *)
(* InUse and Order on G, the set of the nodes there are.  Registers are    *)
(* numbered from 0 as in the code; numbers past the last one are spills.   *)
(***************************************************************************)
EXTENDS Asm, FiniteSets

CONSTANTS Registers,  \* regallocParams.Registers, in order
          CallerSave, \* regallocParams.CallerSave, as a set
          Programs    \* the asmProgs regalloc may be called with

Colours == 0..(Len(Registers) - 1)
Colour(r) == {c \in Colours : Registers[c + 1] = r}     \* findString

callerSave == UNION {Colour(r) : r \in CallerSave}

ASSUME RegistersAssumption ==
  /\ Registers \in Seq(STRING)
  /\ \A c, d \in DOMAIN Registers : Registers[c] = Registers[d] => c = d

IsProgram(p) ==
  /\ p.blocks \in Seq([code : Seq(Instr), succ : Seq(Nat)])
  /\ \A j \in DOMAIN p.blocks :
       \A k \in DOMAIN p.blocks[j].succ : p.blocks[j].succ[k] \in DOMAIN p.blocks
  /\ \A j \in DOMAIN p.blocks : \A k \in DOMAIN p.blocks[j].code :
       LET op == p.blocks[j].code[k] IN
         op.tag = "instr" => op.args # <<>> \/ op.variant = "cqto"
  /\ p.gcable \subseteq Operand

ASSUME ProgramsAssumption == \A p \in Programs : IsProgram(p)

VARIABLES f,        \* the program
          pc,       \* the loop control is in
          b, i,     \* the block and the instruction the loop is at
          L,        \* the live sets of each block; <<>> is nil
          G,        \* the nodes of the conflict graph
          Reg,      \* the register of a node, or -1
          Conflict, \* the nodes a node conflicts with
          Moves,    \* the nodes a node is move-related to
          InUse,    \* the registers a node must not get
          Order     \* breaks ties; V is the nodes that are variables

vars == <<f, pc, b, i, L, G, Reg, Conflict, Moves, InUse, Order>>
graph == <<G, Reg, Conflict, Moves, InUse, Order>>

code(j) == f.blocks[j].code
V       == {n \in G : isVar(n)}
nil     == <<>>

Start ==
  /\ pc = "live" /\ b = Len(f.blocks) /\ i = 1
  /\ L = [j \in DOMAIN f.blocks |-> nil]
  /\ G = {}
  /\ Reg = [n \in {} |-> -1] /\ Order = [n \in {} |-> 0]
  /\ Conflict = [n \in {} |-> {}] /\ Moves = [n \in {} |-> {}]
  /\ InUse = [n \in {} |-> {}]

Init == f \in Programs /\ Start

----------------------------------------------------------------------------
(* Liveness, from the last block to the first. *)

succ(j) == {f.blocks[j].succ[k] : k \in DOMAIN f.blocks[j].succ}

LiveBlock_NoSuccessors ==
  /\ pc = "live" /\ b >= 1
  /\ \A s \in succ(b) : L[s] # nil
  /\ L' = [L EXCEPT ![b] = computeLiveSets(code(b), {})]
  /\ b' = b - 1
  /\ UNCHANGED <<f, pc, i, graph>>

LiveBlock ==
  /\ pc = "live" /\ b >= 1
  /\ \A s \in succ(b) : L[s] # nil
  /\ L' = [L EXCEPT ![b] =
             computeLiveSets(code(b), UNION {L[s][1] : s \in succ(b)})]
  /\ b' = b - 1
  /\ UNCHANGED <<f, pc, i, graph>>

(* L[succBlock][0] where the successor has no live sets yet: regalloc      *)
(* panics with an index out of range.                                      *)
LivePanic ==
  /\ pc = "live" /\ b >= 1
  /\ \E s \in succ(b) : L[s] = nil
  /\ pc' = "panic"
  /\ UNCHANGED <<f, b, i, L, graph>>

LiveDone ==
  /\ pc = "live" /\ b = 0
  /\ pc' = "graph" /\ b' = 1
  /\ UNCHANGED <<f, i, L, graph>>

----------------------------------------------------------------------------
(* The conflict graph, one instruction at a time from the first block on. *)

l == code(b)[i]
AtInstr == pc = "graph" /\ b \in DOMAIN f.blocks /\ i \in DOMAIN code(b)

\* dst can be a node: it is a variable, or a register that can be allocated
Allocatable(n) == isVar(n) \/ (isReg(n) /\ Colour(n[2]) # {})

\* what is live after l
after == L[b][i + 1]

\* the source of a movq, as a set
moved == IF l.variant = "movq" THEN {l.args[2]} ELSE {}

\* the nodes dst must not share a register with
Neighbours_NotYetNodes(dst) == (after \ {dst}) \ moved

Neighbours(dst) == ((after \ {dst}) \ moved) \cap (G \cup {dst})

\* E with an edge from dst to every node of nodes, and one back
Join_OneWay(E, dst, nodes) ==
  [n \in DOMAIN E |-> E[n] \cup (IF n = dst THEN nodes ELSE {})]

Join(E, dst, nodes) ==
  [n \in DOMAIN E |-> E[n] \cup (IF n = dst THEN nodes ELSE {})
                         \cup (IF n \in nodes THEN {dst} ELSE {})]

\* F on the nodes there are once dst is one, init for dst if it is new
Insert(F, dst, init) == [n \in G \cup {dst} |-> IF n \in G THEN F[n] ELSE init]

Define(dst) ==
  /\ Allocatable(dst)
  /\ G' = G \cup {dst}
  /\ \E r \in IF isVar(dst) THEN {-1} ELSE Colour(dst[2]) :
       /\ Reg' = Insert(Reg, dst, r)
       /\ Order' = Insert(Order, dst, IF isVar(dst) THEN Cardinality(V) ELSE -r)
  /\ InUse' = Insert(InUse, dst, {})
  /\ Moves' = Join(Insert(Moves, dst, {}), dst, {n \in moved \cap G' : isVar(n)})
  /\ Conflict' = Join(Insert(Conflict, dst, {}), dst, Neighbours(dst))
  /\ i' = i + 1
  /\ UNCHANGED <<f, pc, b, L>>

(* Nothing to name: no destination, a number, memory, a register that is   *)
(* never allocated, or a jump.                                             *)
NoNode ==
  /\ AtInstr
  /\ l.tag # "call" /\ \A a \in dest(l) : ~Allocatable(a)
  /\ i' = i + 1
  /\ UNCHANGED <<f, pc, b, L, graph>>

Call_TuplesLikeNumbers ==
  /\ AtInstr
  /\ l.tag = "call"
  /\ InUse' = [n \in G |-> InUse[n] \cup (IF n \in after THEN callerSave ELSE {})]
  /\ i' = i + 1
  /\ UNCHANGED <<f, pc, b, L, G, Reg, Conflict, Moves, Order>>

Call ==
  /\ AtInstr
  /\ l.tag = "call"
  /\ InUse' = [n \in G |->
                 InUse[n] \cup (CASE n \notin after -> {}
                                  [] n \in after /\ n \in f.gcable -> Colours
                                  [] n \in after /\ n \notin f.gcable -> callerSave)]
  /\ i' = i + 1
  /\ UNCHANGED <<f, pc, b, L, G, Reg, Conflict, Moves, Order>>

NextBlock ==
  /\ pc = "graph" /\ b \in DOMAIN f.blocks /\ i \notin DOMAIN code(b)
  /\ b' = b + 1 /\ i' = 1
  /\ UNCHANGED <<f, pc, L, graph>>

Precolour_Reset ==
  /\ pc = "graph" /\ b \notin DOMAIN f.blocks
  /\ pc' = "colour"
  /\ InUse' = [n \in G |-> {Reg[m] : m \in {k \in G : Reg[k] # -1 /\ n \in Conflict[k]}}]
  /\ UNCHANGED <<f, b, i, L, G, Reg, Conflict, Moves, Order>>

(* The neighbours of the registers that are nodes must not get them. *)
Precolour ==
  /\ pc = "graph" /\ b \notin DOMAIN f.blocks
  /\ pc' = "colour"
  /\ InUse' = [n \in G |->
                 InUse[n] \cup {Reg[m] : m \in {k \in G : Reg[k] # -1 /\ n \in Conflict[k]}}]
  /\ UNCHANGED <<f, b, i, L, G, Reg, Conflict, Moves, Order>>

----------------------------------------------------------------------------
(* Colouring, the node with the most registers in use first. *)

S == {n \in G : Reg[n] = -1}

hasBias(n) == \E m \in Moves[n] : Reg[m] >= 0 /\ Reg[m] \notin InUse[n]

\* n comes after m when S is sorted
Less(m, n) ==
  \/ Cardinality(InUse[m]) < Cardinality(InUse[n])
  \/ /\ Cardinality(InUse[m]) = Cardinality(InUse[n])
     /\ \/ ~hasBias(m) /\ hasBias(n)
        \/ hasBias(m) = hasBias(n) /\ Order[m] > Order[n]

\* the first register from 0 on that n may have
Free_NoSpill(n) == {r \in Colours : r \notin InUse[n] /\ \A q \in 0..(r - 1) : q \in InUse[n]}

Free(n) == {r \in 0..Cardinality(InUse[n]) :
              r \notin InUse[n] /\ \A q \in 0..(r - 1) : q \in InUse[n]}

Colour1(n) ==
  /\ pc = "colour"
  /\ n \in S /\ \A m \in S \ {n} : Less(m, n)
  /\ \E r \in Free(n) :
       /\ Reg' = [Reg EXCEPT ![n] = r]
       /\ InUse' = [m \in G |-> InUse[m] \cup (IF m \in Conflict[n] THEN {r} ELSE {})]
  /\ UNCHANGED <<f, pc, b, i, L, G, Conflict, Moves, Order>>

Done_OneLeft ==
  /\ pc = "colour" /\ Cardinality(S) <= 1
  /\ pc' = "done"
  /\ UNCHANGED <<f, b, i, L, graph>>

Done ==
  /\ pc = "colour" /\ S = {}
  /\ pc' = "done"
  /\ UNCHANGED <<f, b, i, L, graph>>

Next ==
  \/ LiveBlock \/ LivePanic \/ LiveDone
  \/ AtInstr /\ \E dst \in dest(l) : Define(dst)
  \/ NoNode \/ Call \/ NextBlock \/ Precolour
  \/ \E n \in G : Colour1(n)
  \/ Done

Spec == Init /\ [][Next]_vars /\ WF_vars(Next)

----------------------------------------------------------------------------
(* Properties. *)

Places == UNION {{j} \X DOMAIN code(j) : j \in DOMAIN f.blocks}
At(p)  == code(p[1])[p[2]]
LiveAfter(p) == L[p[1]][p[2] + 1]

Before(p, q) == p[1] < q[1] \/ (p[1] = q[1] /\ p[2] < q[2])

\* what some instruction at p or listed before p has as its destination
DefinedBy(p) == UNION {dest(At(q)) : q \in {k \in Places : k = p \/ Before(k, p)}}

(* The state has the shape regalloc's variables have. *)
TypeOK ==
  /\ pc \in {"live", "graph", "colour", "done", "panic"}
  /\ b \in 0..(Len(f.blocks) + 1) /\ i \in Nat \ {0}
  /\ DOMAIN L = DOMAIN f.blocks
  /\ \A j \in DOMAIN L : L[j] = nil \/ L[j] \in [1..(Len(code(j)) + 1) -> SUBSET Operand]
  /\ G \subseteq Operand
  /\ Reg \in [G -> Nat \cup {-1}] /\ Order \in [G -> Int]
  /\ Conflict \in [G -> SUBSET G] /\ Moves \in [G -> SUBSET G]
  /\ InUse \in [G -> SUBSET Nat]

(***************************************************************************)
(* No instruction writes the register of a variable that is still needed   *)
(* after it: not the one it defines, nor one a movq copies from.           *)
(***************************************************************************)
NoClobber ==
  pc = "done" =>
    \A p \in Places :
      \A d \in dest(At(p)), v \in LiveAfter(p) \cap DefinedBy(p) :
        (/\ Allocatable(d) /\ isVar(v) /\ v # d
         /\ ~(At(p).variant = "movq" /\ At(p).args[2] = v))
        => Reg[d] # Reg[v]

(***************************************************************************)
(* What is needed after a call is in no register the callee may write, and *)
(* a tuple needed after a call is in no register at all.                   *)
(***************************************************************************)
SurvivesCalls ==
  pc = "done" =>
    \A p \in Places :
      \A v \in LiveAfter(p) \cap DefinedBy(p) :
        (At(p).tag = "call" /\ isVar(v))
        => Reg[v] \notin (IF v \in f.gcable THEN Colours ELSE callerSave)

(***************************************************************************)
(* One pass over the blocks finds what is live.  The reference: a variable *)
(* is live after p if some way through the program from p comes to a use   *)
(* of it before it comes to a definition.                                  *)
(***************************************************************************)
ReadFrom(v, j, k) ==
  \E q \in k..Len(code(j)) : /\ v \in src(code(j)[q])
                            /\ \A m \in k..(q - 1) : v \notin dest(code(j)[m])

KeptFrom(v, j, k) == \A m \in k..Len(code(j)) : v \notin dest(code(j)[m])

\* the blocks that need v when they begin
Needing(v) ==
  LET blocks == DOMAIN f.blocks
      within[n \in 0..Len(f.blocks)] ==   \* a way through at most n blocks more
        IF n = 0 THEN {j \in blocks : ReadFrom(v, j, 1)}
        ELSE LET nearer == within[n - 1]
             IN  nearer \cup {j \in blocks : KeptFrom(v, j, 1) /\ succ(j) \cap nearer # {}}
  IN  within[Len(f.blocks)]

LivenessExact ==
  pc = "graph" /\ b = 1 /\ i = 1 =>
    \A v \in UNION {Named(Args(At(p))) : p \in Places} :
      LET needing == Needing(v) IN
      \A p \in Places :
        p[2] < Len(code(p[1])) =>
          (v \in LiveAfter(p) <=>
             \/ ReadFrom(v, p[1], p[2] + 1)
             \/ KeptFrom(v, p[1], p[2] + 1) /\ succ(p[1]) \cap needing # {})

(***************************************************************************)
(* R is complete: every variable the program mentions has a register.      *)
(* gethome (asm.go) would take one it does not find for register 0.        *)
(***************************************************************************)
EveryVarHasHome ==
  pc = "done" =>
    \A p \in Places : \A v \in Args(At(p)) : isVar(v) => v \in G /\ Reg[v] >= 0

(***************************************************************************)
(* "i think we're going to do a topological sort later anyway, so it'll    *)
(* probably sort itself out" (lower.go:667): the order lower lists the     *)
(* blocks in does not matter to regalloc.                                  *)
(***************************************************************************)
AnyOrder == pc # "panic"
=============================================================================
