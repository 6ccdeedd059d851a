---------------------------- MODULE RegAllocInv ----------------------------
(***************************************************************************)
(* The inductive invariant of module RegAlloc: what the conflict graph     *)
(* holds for the instructions that have been met, and what the registers   *)
(* given so far respect; and what the pass over the blocks has found.      *)
(* Modules RegAllocProof and RegAllocLiveProof prove that every step keeps *)
(* them, for every program.                                                *)
(***************************************************************************)
EXTENDS RegAlloc

\* There is a conflict graph, as far as regalloc has come.
Made == pc \in {"graph", "colour", "done"}

\* The places whose instruction is in the graph.
Met == {p \in Places : pc = "graph" => Before(p, <<b, i>>)}

\* What may not hold v when it is live across a call.
Banned(v) == IF v \in f.gcable THEN Colours ELSE callerSave

\* The instruction at p writes d while v is another variable, and does not
\* copy v to d.
Apart(p, d, v) ==
  /\ Allocatable(d) /\ isVar(v) /\ v # d
  /\ ~(At(p).variant = "movq" /\ At(p).args[2] = v)

PositionInv ==
  /\ IsProgram(f)
  /\ pc \in {"live", "graph", "colour", "done", "panic"}
  /\ pc = "live"  => i = 1 /\ G = {}
  /\ pc = "graph" => b \in Nat \ {0} /\ i \in Nat \ {0}

GraphInv ==
  /\ IsFiniteSet(G)
  /\ Reg \in [G -> Nat \cup {-1}] /\ Order \in [G -> Int]
  /\ Conflict \in [G -> SUBSET G] /\ Moves \in [G -> SUBSET G]
  /\ InUse \in [G -> SUBSET Nat]
  /\ \A n \in G : IsFiniteSet(InUse[n])

ConflictInv ==
  /\ \A m, n \in G : m \in Conflict[n] => n \in Conflict[m]
  /\ \A n \in G : n \notin Conflict[n]

\* What an instruction that has been met put into the graph.
NodesInv == \A p \in Met : \A d \in dest(At(p)) : Allocatable(d) => d \in G

EdgesInv ==
  \A p \in Met : \A d \in dest(At(p)), v \in LiveAfter(p) \cap DefinedBy(p) :
    Apart(p, d, v) => v \in Conflict[d]

CallsInv ==
  \A p \in Met : \A v \in LiveAfter(p) \cap DefinedBy(p) :
    At(p).tag = "call" /\ isVar(v) =>
      /\ Banned(v) \subseteq InUse[v]
      /\ Reg[v] # -1 => Reg[v] \notin Banned(v)

\* Nodes that conflict know each other's register, and a variable got one
\* that its neighbours do not have.
ColourInv ==
  /\ pc = "graph" => \A n \in G : isVar(n) => Reg[n] = -1
  /\ pc \in {"colour", "done"} =>
       \A m, n \in G : m \in Conflict[n] /\ Reg[m] # -1 =>
         Reg[m] \in InUse[n] /\ (isVar(n) => Reg[m] # Reg[n])
  /\ pc = "done" => S = {}

\* A machine register among the nodes is the register it is.
PrecolouredInv == \A n \in G : ~isVar(n) => Reg[n] \in Colour(n[2])

AllocInv ==
  /\ PositionInv /\ GraphInv /\ ConflictInv /\ ColourInv
  /\ Made => NodesInv /\ EdgesInv /\ CallsInv
-----------------------------------------------------------------------------
(* What the pass over the blocks has done, from the last block to the      *)
(* first; module RegAllocLiveProof proves that every step keeps it.        *)

\* True of every string literal, but the provers have to be told.
ASSUME LiteralAssumption == "rdx" \in STRING

\* What is live when block j ends, as far as its successors have live sets.
LiveOut(j) == UNION {L[s][1] : s \in succ(j)}

\* Block j has its live sets, and so have its successors, which come later:
\* what is live before an instruction is what is live after it, without what
\* it writes, and what it reads.
Settled(j) ==
  /\ DOMAIN L[j] = 1..(Len(code(j)) + 1) /\ L[j][Len(code(j)) + 1] = {}
  /\ \A k \in 1..Len(code(j)) :
       L[j][k] = ((IF k = Len(code(j)) THEN LiveOut(j) ELSE L[j][k + 1])
                    \ dest(code(j)[k])) \cup src(code(j)[k])
  /\ \A s \in succ(j) : s > j /\ L[s] # nil

\* The blocks that have live sets are those after b, in the end all, and
\* theirs are what the live sets of their successors make them.
LiveInv ==
  /\ DOMAIN L = DOMAIN f.blocks
  /\ b \in 0..(Len(f.blocks) + 1) /\ i \in Nat \ {0}
  /\ pc = "live" => b <= Len(f.blocks) /\ \A j \in DOMAIN L : L[j] # nil <=> j > b
  /\ \A j \in DOMAIN L : (Made \/ L[j] # nil) => L[j] # nil /\ Settled(j)
  /\ G \subseteq Operand

-----------------------------------------------------------------------------
(* What three of the theorems ask of the programs.  SelectInstructions     *)
(* gives the first and the last: a block ends in a jump or a return, and   *)
(* the portable code defines what it uses.  The second, that a block comes *)
(* before its successors, is what AnyOrder says regalloc can do without.   *)

NoEmptyBlock(p) == \A j \in DOMAIN p.blocks : p.blocks[j].code # <<>>

Forward(p) ==
  \A j \in DOMAIN p.blocks :
    \A k \in DOMAIN p.blocks[j].succ : p.blocks[j].succ[k] > j

Instrs(p) == UNION {{p.blocks[j].code[k] : k \in DOMAIN p.blocks[j].code} :
                      j \in DOMAIN p.blocks}

WritesAll(p) ==
  LET written == UNION {dest(op) : op \in Instrs(p)} IN
  \A op \in Instrs(p) : \A v \in Args(op) : isVar(v) => v \in written
=============================================================================
