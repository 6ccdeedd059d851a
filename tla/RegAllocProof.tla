--------------------------- MODULE RegAllocProof ---------------------------
(***************************************************************************)
(* Theorems about the register allocator, for every program and every      *)
(* list of registers: no register is given away while it is needed, and    *)
(* what is needed after a call survives it.  Liveness itself is taken as   *)
(* L has it: nothing here depends on how the live sets were computed,      *)
(* which is the subject of module RegAllocLiveProof.                       *)
(***************************************************************************)
EXTENDS RegAllocInv, FiniteSetTheorems, TLAPS

(* Registers have numbers from 0 on, and there are finitely many. *)
LEMMA Numbers ==
  /\ Colours \subseteq Nat /\ IsFiniteSet(Colours)
  /\ \A r : Colour(r) \subseteq Colours
  /\ callerSave \subseteq Colours
<1>1. Len(Registers) \in Nat
  BY RegistersAssumption
<1>2. Colours \subseteq Nat
  BY <1>1 DEF Colours
<1>3. IsFiniteSet(Colours)
  BY <1>1, FS_Interval DEF Colours
<1>4. \A r : Colour(r) \subseteq Colours
  BY DEF Colour
<1>5. callerSave \subseteq Colours
  BY <1>4 DEF callerSave
<1> QED
  BY <1>2, <1>3, <1>4, <1>5

(* An instruction writes at most one variable or register. *)
LEMMA OneDest == \A x : \A d, e \in dest(x) : d = e
  BY DEF dest, Named

LEMMA SeqElement ==
  ASSUME NEW T, NEW s \in Seq(T), NEW j \in DOMAIN s
  PROVE  s[j] \in T /\ j \in Nat \ {0}
  OBVIOUS

LEMMA Blocks ==
  ASSUME IsProgram(f), NEW j \in DOMAIN f.blocks
  PROVE  code(j) \in Seq(Instr) /\ j \in Nat \ {0}
<1> DEFINE T == [code : Seq(Instr), succ : Seq(Nat)]
<1>1. f.blocks \in Seq(T)
  BY DEF IsProgram
<1>2. f.blocks[j] \in T /\ j \in Nat \ {0}
  BY <1>1, SeqElement
<1> QED
  BY <1>2 DEF code

(***************************************************************************)
(* Places and what is at them depend on the program and L only, which do   *)
(* not change once the graph is being made.                                *)
(***************************************************************************)
LEMMA SameProgram ==
  ASSUME f' = f, L' = L
  PROVE  /\ Places' = Places
         /\ \A p : /\ At(p)' = At(p) /\ LiveAfter(p)' = LiveAfter(p)
                   /\ DefinedBy(p)' = DefinedBy(p)
         /\ \A v : Banned(v)' = Banned(v)
         /\ \A p, d, v : Apart(p, d, v)' <=> Apart(p, d, v)
         /\ IsProgram(f)' <=> IsProgram(f)
<1>1. Places' = Places /\ \A p : At(p)' = At(p) /\ LiveAfter(p)' = LiveAfter(p)
  BY DEF Places, At, LiveAfter, code
<1>2. \A p : DefinedBy(p)' = DefinedBy(p)
  BY <1>1 DEF DefinedBy
<1>3. \A v : Banned(v)' = Banned(v)
  BY DEF Banned
<1>4. \A p, d, v : Apart(p, d, v)' <=> Apart(p, d, v)
  BY <1>1 DEF Apart
<1>5. IsProgram(f)' <=> IsProgram(f)
  BY DEF IsProgram
<1> QED
  BY <1>1, <1>2, <1>3, <1>4, <1>5

LEMMA PlaceFacts ==
  ASSUME IsProgram(f), NEW p \in Places
  PROVE  /\ p = <<p[1], p[2]>> /\ p[1] \in Nat \ {0} /\ p[2] \in Nat \ {0}
         /\ p[1] \in DOMAIN f.blocks /\ p[2] \in DOMAIN code(p[1])
<1>1. PICK j \in DOMAIN f.blocks : p \in {j} \X DOMAIN code(j)
  BY DEF Places
<1>2. code(j) \in Seq(Instr) /\ j \in Nat \ {0}
  BY Blocks
<1> QED
  BY <1>1, <1>2, SeqElement

----------------------------------------------------------------------------
(* Adding edges between d and a set of nodes. *)
LEMMA Joined ==
  ASSUME NEW N, NEW E \in [N -> SUBSET N], NEW d \in N, NEW nodes \in SUBSET N
  PROVE  /\ Join(E, d, nodes) \in [N -> SUBSET N]
         /\ \A m, n \in N :
              m \in Join(E, d, nodes)[n] <=>
                \/ m \in E[n]
                \/ n = d /\ m \in nodes
                \/ n \in nodes /\ m = d
<1>1. Join(E, d, nodes) =
        [n \in N |-> E[n] \cup (IF n = d THEN nodes ELSE {})
                          \cup (IF n \in nodes THEN {d} ELSE {})]
  BY DEF Join
<1> QED
  BY <1>1

(***************************************************************************)
(* Before the graph: nothing is in it, and nothing has been met when it    *)
(* begins.                                                                 *)
(***************************************************************************)
LEMMA AllocInit == Init => AllocInv
<1> SUFFICES ASSUME Init PROVE AllocInv
  OBVIOUS
<1> USE DEF Init, Start
<1>1. PositionInv
  BY ProgramsAssumption DEF PositionInv
<1>2. GraphInv
  BY FS_EmptySet DEF GraphInv
<1>3. ConflictInv /\ ColourInv /\ ~Made
  BY DEF ConflictInv, ColourInv, Made
<1> QED
  BY <1>1, <1>2, <1>3 DEF AllocInv

LEMMA SameGraph ==
  ASSUME GraphInv, ConflictInv, UNCHANGED graph
  PROVE  GraphInv' /\ ConflictInv'
  BY DEF GraphInv, ConflictInv, graph

LEMMA LiveStep ==
  AllocInv /\ (LiveBlock \/ LivePanic \/ LiveDone) => AllocInv'
<1> SUFFICES ASSUME AllocInv, LiveBlock \/ LivePanic \/ LiveDone PROVE AllocInv'
  OBVIOUS
<1>1. pc = "live" /\ f' = f /\ i' = i /\ UNCHANGED graph
  BY DEF LiveBlock, LivePanic, LiveDone
<1>2. pc' \in {"live", "panic"} \/ (pc' = "graph" /\ b' = 1 /\ L' = L)
  BY DEF LiveBlock, LivePanic, LiveDone
<1>3. i = 1 /\ G = {} /\ IsProgram(f)
  BY <1>1 DEF AllocInv, PositionInv
<1>4. G' = {} /\ IsProgram(f')
  BY <1>1, <1>3 DEF graph
<1>5. IsProgram(f)'
  BY <1>4 DEF IsProgram
<1>6. PositionInv'
  BY <1>1, <1>2, <1>3, <1>4, <1>5 DEF PositionInv
<1>7. GraphInv' /\ ConflictInv'
  BY <1>1, SameGraph DEF AllocInv
<1>8. ColourInv'
  BY <1>2, <1>4 DEF ColourInv
<1>9. ASSUME Made' PROVE Met' = {}
  <2>1. pc' = "graph" /\ b' = 1 /\ i' = 1 /\ L' = L
    BY <1>1, <1>2, <1>3, <1>9 DEF Made
  <2>2. Places' = Places
    BY <1>1, <2>1, SameProgram
  <2>3. \A p \in Places : ~Before(p, <<1, 1>>)
    <3> TAKE p \in Places
    <3>1. p[1] \in Nat \ {0} /\ p[2] \in Nat \ {0}
      BY <1>3, PlaceFacts
    <3> QED
      BY <3>1 DEF Before
  <2> QED
    BY <2>1, <2>2, <2>3 DEF Met, Before
<1>10. Made' => NodesInv' /\ EdgesInv' /\ CallsInv'
  BY <1>9 DEF NodesInv, EdgesInv, CallsInv
<1> QED
  BY <1>6, <1>7, <1>8, <1>10 DEF AllocInv

----------------------------------------------------------------------------
(* A variable that some instruction met so far defines is a node. *)
LEMMA Known ==
  ASSUME AllocInv, Made, NEW p \in Met, NEW v \in DefinedBy(p), isVar(v)
  PROVE  v \in G
<1>1. PICK q \in Places : (q = p \/ Before(q, p)) /\ v \in dest(At(q))
  BY DEF DefinedBy
<1>2. p \in Places /\ IsProgram(f)
  BY DEF Met, AllocInv, PositionInv
<1>3. /\ p[1] \in Nat /\ p[2] \in Nat /\ q[1] \in Nat /\ q[2] \in Nat
      /\ pc = "graph" => b \in Nat /\ i \in Nat
  BY <1>2, PlaceFacts DEF AllocInv, PositionInv
<1>4. pc = "graph" => Before(p, <<b, i>>)
  BY DEF Met
<1>5. pc = "graph" => Before(q, <<b, i>>)
  BY <1>1, <1>3, <1>4 DEF Before
<1>6. q \in Met
  BY <1>5 DEF Met
<1> QED
  BY <1>1, <1>6 DEF AllocInv, NodesInv, Allocatable

(* The place the graph loop is at, and what is met when it goes on. *)
LEMMA NextPlace ==
  ASSUME AllocInv, AtInstr, f' = f, L' = L, pc' = pc, b' = b, i' = i + 1
  PROVE  /\ Met' \subseteq Met \cup {<<b, i>>}
         /\ <<b, i>> \in Places
         /\ At(<<b, i>>) = l /\ LiveAfter(<<b, i>>) = after
         /\ \A v \in DefinedBy(<<b, i>>) : isVar(v) => v \in dest(l) \/ v \in G
<1>1. pc = "graph" /\ Made /\ b \in DOMAIN f.blocks /\ i \in DOMAIN code(b)
  BY DEF AtInstr, Made
<1>2. b \in Nat /\ i \in Nat /\ IsProgram(f)
  BY <1>1 DEF AllocInv, PositionInv
<1>3. <<b, i>> \in Places
  BY <1>1 DEF Places
<1>4. At(<<b, i>>) = l /\ LiveAfter(<<b, i>>) = after
  BY DEF At, LiveAfter, l, after
<1>5. ASSUME NEW p \in Met' PROVE p \in Met \cup {<<b, i>>}
  <2>1. p \in Places /\ Before(p, <<b, i + 1>>)
    BY <1>1, <1>5, SameProgram DEF Met, Before
  <2>2. p = <<p[1], p[2]>> /\ p[1] \in Nat /\ p[2] \in Nat
    BY <1>2, <2>1, PlaceFacts
  <2>3. Before(p, <<b, i>>) \/ p = <<b, i>>
    BY <1>2, <2>1, <2>2 DEF Before
  <2> QED
    BY <2>1, <2>3 DEF Met
<1>6. ASSUME NEW v \in DefinedBy(<<b, i>>), isVar(v) PROVE v \in dest(l) \/ v \in G
  <2>1. PICK q \in Places : (q = <<b, i>> \/ Before(q, <<b, i>>)) /\ v \in dest(At(q))
    BY DEF DefinedBy
  <2>2. CASE q = <<b, i>>
    BY <1>4, <2>1, <2>2
  <2>3. CASE Before(q, <<b, i>>)
    <3>1. q \in Met
      BY <2>3 DEF Met
    <3> QED
      BY <1>1, <1>6, <2>1, <3>1 DEF AllocInv, NodesInv, Allocatable
  <2> QED
    BY <2>1, <2>2, <2>3
<1> QED
  BY <1>3, <1>4, <1>5, <1>6

(* What has been met stays true if nodes, edges, bans and registers do. *)
LEMMA OldPlaces ==
  ASSUME AllocInv, Made, f' = f, L' = L,
         G \subseteq G',
         \A n \in G : /\ Conflict[n] \subseteq Conflict'[n]
                      /\ InUse[n] \subseteq InUse'[n]
                      /\ Reg'[n] = Reg[n] \/ Reg'[n] \notin InUse[n],
         NEW p \in Met
  PROVE  /\ \A d \in dest(At(p))' : Allocatable(d)' => d \in G'
         /\ \A d \in dest(At(p))', v \in (LiveAfter(p) \cap DefinedBy(p))' :
              Apart(p, d, v)' => v \in Conflict'[d]
         /\ \A v \in (LiveAfter(p) \cap DefinedBy(p))' :
              At(p).tag' = "call" /\ isVar(v)' =>
                /\ Banned(v)' \subseteq InUse'[v]
                /\ Reg'[v] # -1 => Reg'[v] \notin Banned(v)'
<1>1. /\ At(p)' = At(p) /\ LiveAfter(p)' = LiveAfter(p) /\ DefinedBy(p)' = DefinedBy(p)
      /\ \A v : Banned(v)' = Banned(v)
      /\ \A d, v : Apart(p, d, v)' <=> Apart(p, d, v)
  BY SameProgram
<1>2. dest(At(p))' = dest(At(p))
  BY <1>1 DEF dest, rdx, Reg64, Named, isVar, isReg
<1>3. NodesInv /\ EdgesInv /\ CallsInv
  BY DEF AllocInv
<1>4. \A d \in dest(At(p)) : Allocatable(d) => d \in G
  BY <1>3 DEF NodesInv
<1>5. \A d \in dest(At(p)), v \in LiveAfter(p) \cap DefinedBy(p) :
        Apart(p, d, v) => d \in G /\ v \in Conflict[d]
  BY <1>3, <1>4 DEF EdgesInv, Apart
<1>6. \A v \in LiveAfter(p) \cap DefinedBy(p) :
        At(p).tag = "call" /\ isVar(v) =>
          /\ v \in G
          /\ Banned(v) \subseteq InUse[v]
          /\ Reg[v] # -1 => Reg[v] \notin Banned(v)
  BY <1>3, Known DEF CallsInv
<1>7. \A d : Allocatable(d)' <=> Allocatable(d)
  BY DEF Allocatable, Colour, Colours, isVar, isReg
<1>8. \A v : isVar(v)' <=> isVar(v)
  BY DEF isVar
<1> QED
  BY <1>1, <1>2, <1>4, <1>5, <1>6, <1>7, <1>8

(* Control goes on to no new place, and the graph only grows. *)
LEMMA QuietStep ==
  ASSUME AllocInv, Made, f' = f, L' = L,
         G \subseteq G',
         \A n \in G : /\ Conflict[n] \subseteq Conflict'[n]
                      /\ InUse[n] \subseteq InUse'[n]
                      /\ Reg'[n] = Reg[n] \/ Reg'[n] \notin InUse[n],
         Met' \subseteq Met
  PROVE  NodesInv' /\ EdgesInv' /\ CallsInv'
<1>1. NodesInv'
  BY OldPlaces DEF NodesInv
<1>2. EdgesInv'
  BY OldPlaces DEF EdgesInv
<1>3. CallsInv'
  BY OldPlaces DEF CallsInv
<1> QED
  BY <1>1, <1>2, <1>3

(***************************************************************************)
(* An instruction has been dealt with: the graph only grew, and it says    *)
(* what it must of that instruction.                                       *)
(***************************************************************************)
LEMMA InstrStep ==
  ASSUME AllocInv, AtInstr, f' = f, L' = L, pc' = pc, b' = b, i' = i + 1,
         G \subseteq G',
         \A n \in G : /\ Conflict[n] \subseteq Conflict'[n]
                      /\ InUse[n] \subseteq InUse'[n]
                      /\ Reg'[n] = Reg[n],
         \A d \in dest(l) : Allocatable(d) => d \in G',
         \A d \in dest(l), v \in after \cap (dest(l) \cup G) :
           Apart(<<b, i>>, d, v) => v \in Conflict'[d],
         l.tag = "call" =>
           \A v \in after \cap (dest(l) \cup G) : isVar(v) =>
             /\ Banned(v) \subseteq InUse'[v]
             /\ Reg'[v] # -1 => Reg'[v] \notin Banned(v)
  PROVE  PositionInv' /\ NodesInv' /\ EdgesInv' /\ CallsInv'
<1>0. PICK now : now = <<b, i>>
  OBVIOUS
<1>1. pc = "graph" /\ Made /\ b \in Nat \ {0} /\ i \in Nat \ {0} /\ IsProgram(f)
  BY DEF AtInstr, Made, AllocInv, PositionInv
<1>2. PositionInv'
  BY <1>1, SameProgram DEF PositionInv
<1>3. /\ Met' \subseteq Met \cup {now}
      /\ At(now) = l /\ LiveAfter(now) = after
      /\ \A v \in DefinedBy(now) : isVar(v) => v \in dest(l) \/ v \in G
  BY <1>0, NextPlace
<1>4. /\ At(now)' = l /\ LiveAfter(now)' = after /\ DefinedBy(now)' = DefinedBy(now)
      /\ \A v : Banned(v)' = Banned(v)
      /\ \A d, v : Apart(now, d, v)' <=> Apart(now, d, v)
  BY <1>3, SameProgram
<1>5. dest(At(now))' = dest(l)
  BY <1>4 DEF dest, rdx, Reg64, Named, isVar, isReg
<1>6. \A d : Allocatable(d)' <=> Allocatable(d)
  BY DEF Allocatable, Colour, Colours, isVar, isReg
<1>7. \A v : isVar(v)' <=> isVar(v)
  BY DEF isVar
<1>8. NodesInv'
  <2>1. \A d \in dest(At(now))' : Allocatable(d)' => d \in G'
    BY <1>5, <1>6
  <2> QED
    BY <1>1, <1>3, <2>1, OldPlaces DEF NodesInv
<1>9. EdgesInv'
  <2>1. \A d \in dest(At(now))', v \in (LiveAfter(now) \cap DefinedBy(now))' :
          Apart(now, d, v)' => v \in Conflict'[d]
    BY <1>0, <1>3, <1>4, <1>5 DEF Apart
  <2> QED
    BY <1>1, <1>3, <2>1, OldPlaces DEF EdgesInv
<1>10. CallsInv'
  <2>1. \A v \in (LiveAfter(now) \cap DefinedBy(now))' :
          At(now).tag' = "call" /\ isVar(v)' =>
            /\ Banned(v)' \subseteq InUse'[v]
            /\ Reg'[v] # -1 => Reg'[v] \notin Banned(v)'
    BY <1>3, <1>4, <1>7
  <2> QED
    BY <1>1, <1>3, <2>1, OldPlaces DEF CallsInv
<1> QED
  BY <1>2, <1>8, <1>9, <1>10

(* An instruction that names no node leaves the graph as it is. *)
LEMMA NoNodeStep == AllocInv /\ NoNode => AllocInv'
<1> SUFFICES ASSUME AllocInv, NoNode PROVE AllocInv'
  OBVIOUS
<1>1. /\ AtInstr /\ f' = f /\ L' = L /\ pc' = pc /\ b' = b /\ i' = i + 1
      /\ UNCHANGED graph
      /\ l.tag # "call" /\ \A a \in dest(l) : ~Allocatable(a)
  BY DEF NoNode
<1>2. GraphInv' /\ ConflictInv'
  BY <1>1, SameGraph DEF AllocInv
<1>3. /\ G \subseteq G'
      /\ \A n \in G : /\ Conflict[n] \subseteq Conflict'[n]
                      /\ InUse[n] \subseteq InUse'[n]
                      /\ Reg'[n] = Reg[n]
  BY <1>1 DEF graph
<1>4. PositionInv' /\ NodesInv' /\ EdgesInv' /\ CallsInv'
  BY <1>1, <1>3, InstrStep DEF Apart
<1>5. ColourInv'
  BY <1>1 DEF AllocInv, ColourInv, AtInstr, graph, isVar
<1> QED
  BY <1>2, <1>4, <1>5 DEF AllocInv

(* After the last instruction of a block the loop goes on to the next. *)
LEMMA NextBlockStep == AllocInv /\ NextBlock => AllocInv'
<1> SUFFICES ASSUME AllocInv, NextBlock PROVE AllocInv'
  OBVIOUS
<1>1. /\ pc = "graph" /\ b \in DOMAIN f.blocks /\ i \notin DOMAIN code(b)
      /\ b' = b + 1 /\ i' = 1 /\ UNCHANGED <<f, pc, L, graph>>
  BY DEF NextBlock
<1>2. /\ Made /\ IsProgram(f)
      /\ b \in Nat \ {0} /\ i \in Nat \ {0}
  BY <1>1 DEF Made, AllocInv, PositionInv
<1>3. PositionInv'
  BY <1>1, <1>2, SameProgram DEF PositionInv
<1>4. GraphInv' /\ ConflictInv'
  BY <1>1, SameGraph DEF AllocInv
<1>5. ColourInv'
  BY <1>1 DEF AllocInv, ColourInv, graph, isVar
<1>6. ASSUME NEW p \in Met' PROVE p \in Met
  <2>1. p \in Places /\ Before(p, <<b + 1, 1>>)
    BY <1>1, <1>6, SameProgram DEF Met, Before
  <2>2. /\ p[1] \in Nat /\ p[2] \in Nat \ {0}
        /\ p[1] \in DOMAIN f.blocks /\ p[2] \in DOMAIN code(p[1])
    BY <1>2, <2>1, PlaceFacts
  <2>3. p[1] < b \/ p[1] = b
    BY <1>2, <2>1, <2>2 DEF Before
  <2>4. p[1] = b => p[2] < i
    <3> SUFFICES ASSUME p[1] = b PROVE p[2] < i
      OBVIOUS
    <3>1. code(b) \in Seq(Instr)
      BY <1>1, <1>2, Blocks
    <3>2. p[2] \in DOMAIN code(b)
      BY <2>2
    <3> QED
      BY <1>1, <1>2, <3>1, <3>2
  <2> QED
    BY <2>1, <2>3, <2>4 DEF Met, Before
<1>7. NodesInv' /\ EdgesInv' /\ CallsInv'
  BY <1>1, <1>2, <1>6, QuietStep DEF graph
<1> QED
  BY <1>3, <1>4, <1>5, <1>7 DEF AllocInv

(* A call bans the registers it may write, and adds no node. *)
LEMMA CallStep == AllocInv /\ Call => AllocInv'
<1> SUFFICES ASSUME AllocInv, Call PROVE AllocInv'
  OBVIOUS
<1> DEFINE Bans(n) == CASE n \notin after -> {}
                         [] n \in after /\ n \in f.gcable -> Colours
                         [] n \in after /\ n \notin f.gcable -> callerSave
<1>1. /\ AtInstr /\ l.tag = "call" /\ pc = "graph"
      /\ InUse' = [n \in G |-> InUse[n] \cup Bans(n)]
      /\ f' = f /\ L' = L /\ pc' = pc /\ b' = b /\ i' = i + 1
      /\ UNCHANGED <<G, Reg, Conflict, Moves, Order>>
  BY DEF Call, AtInstr
<1>2. \A n : Bans(n) \subseteq Colours /\ (n \in after => Bans(n) = Banned(n))
  BY Numbers DEF Banned
<1>3. \A n : Bans(n) \subseteq Nat /\ IsFiniteSet(Bans(n))
  BY <1>2, Numbers, FS_Subset
<1> HIDE DEF Bans
<1>4. GraphInv
  BY DEF AllocInv
<1>5. GraphInv'
  <2>1. InUse' \in [G -> SUBSET Nat]
    BY <1>1, <1>3, <1>4 DEF GraphInv
  <2>2. \A n \in G : IsFiniteSet(InUse'[n])
    BY <1>1, <1>3, <1>4, FS_Union DEF GraphInv
  <2> QED
    BY <1>1, <1>4, <2>1, <2>2 DEF GraphInv
<1>6. ConflictInv'
  BY <1>1 DEF AllocInv, ConflictInv
<1>7. ColourInv'
  BY <1>1 DEF AllocInv, ColourInv, isVar
<1>8. dest(l) = {}
  BY <1>1 DEF dest
<1>9. \A v \in after \cap (dest(l) \cup G) : isVar(v) =>
        /\ Banned(v) \subseteq InUse'[v]
        /\ Reg'[v] # -1 => Reg'[v] \notin Banned(v)
  BY <1>1, <1>2, <1>8 DEF AllocInv, ColourInv
<1>10. PositionInv' /\ NodesInv' /\ EdgesInv' /\ CallsInv'
  BY <1>1, <1>8, <1>9, InstrStep
<1> QED
  BY <1>5, <1>6, <1>7, <1>10 DEF AllocInv

(* A destination becomes a node, with edges to what is live after it. *)
LEMMA DefineStep ==
  ASSUME AllocInv, AtInstr, NEW dst \in dest(l), Define(dst)
  PROVE  AllocInv'
<1>1. PICK r \in IF isVar(dst) THEN {-1} ELSE Colour(dst[2]) :
        /\ Reg' = Insert(Reg, dst, r)
        /\ Order' = Insert(Order, dst, IF isVar(dst) THEN Cardinality(V) ELSE -r)
  BY DEF Define
<1>2. /\ Allocatable(dst) /\ pc = "graph" /\ G' = G \cup {dst}
      /\ InUse' = Insert(InUse, dst, {})
      /\ Moves' = Join(Insert(Moves, dst, {}), dst, {n \in moved \cap G' : isVar(n)})
      /\ Conflict' = Join(Insert(Conflict, dst, {}), dst, Neighbours(dst))
      /\ f' = f /\ L' = L /\ pc' = pc /\ b' = b /\ i' = i + 1
  BY DEF Define, AtInstr
<1>3. GraphInv /\ ConflictInv /\ ColourInv
  BY DEF AllocInv
<1>4. Neighbours(dst) \subseteq G' /\ dst \notin Neighbours(dst)
  BY <1>2 DEF Neighbours
<1>5. /\ Reg' \in [G' -> Nat \cup {-1}]
      /\ \A n \in G : Reg'[n] = Reg[n]
      /\ dst \notin G => Reg'[dst] = r
  <2>1. r \in Nat \cup {-1}
    BY <1>1, Numbers
  <2> QED
    BY <1>1, <1>2, <1>3, <2>1 DEF GraphInv, Insert
<1>6. Order' \in [G' -> Int]
  <2>1. Cardinality(V) \in Nat
    BY <1>3, FS_Subset, FS_CardinalityType DEF V, GraphInv
  <2>2. (IF isVar(dst) THEN Cardinality(V) ELSE -r) \in Int
    <3>1. ~isVar(dst) => r \in Nat
      BY <1>1, Numbers
    <3> QED
      BY <2>1, <3>1
  <2> QED
    BY <1>1, <1>2, <1>3, <2>2 DEF GraphInv, Insert
<1>7. /\ InUse' \in [G' -> SUBSET Nat]
      /\ \A n \in G : InUse'[n] = InUse[n]
      /\ dst \notin G => InUse'[dst] = {}
  BY <1>2, <1>3 DEF GraphInv, Insert
<1>8. /\ Conflict' \in [G' -> SUBSET G']
      /\ \A m, n \in G' :
           m \in Conflict'[n] <=>
             \/ n \in G /\ m \in Conflict[n]
             \/ n = dst /\ m \in Neighbours(dst)
             \/ n \in Neighbours(dst) /\ m = dst
  <2> DEFINE E == Insert(Conflict, dst, {})
  <2>1. Conflict \in [G -> SUBSET G']
    BY <1>2, <1>3 DEF GraphInv
  <2>2. /\ E \in [G' -> SUBSET G']
        /\ \A n \in G : E[n] = Conflict[n]
        /\ dst \notin G => E[dst] = {}
    BY <1>2, <2>1 DEF Insert
  <2>3. Conflict' = Join(E, dst, Neighbours(dst)) /\ dst \in G'
    BY <1>2
  <2> HIDE DEF E
  <2> QED
    BY <1>2, <1>4, <2>2, <2>3, Joined
<1>9. Moves' \in [G' -> SUBSET G']
  <2> DEFINE E == Insert(Moves, dst, {})
             nodes == {n \in moved \cap G' : isVar(n)}
  <2>1. Moves \in [G -> SUBSET G']
    BY <1>2, <1>3 DEF GraphInv
  <2>2. E \in [G' -> SUBSET G']
    BY <1>2, <2>1 DEF Insert
  <2>3. Moves' = Join(E, dst, nodes) /\ dst \in G' /\ nodes \in SUBSET G'
    BY <1>2
  <2> HIDE DEF E, nodes
  <2> QED
    BY <2>2, <2>3, Joined
<1>10. GraphInv'
  <2>1. IsFiniteSet(G')
    BY <1>2, <1>3, FS_AddElement DEF GraphInv
  <2>2. \A n \in G' : IsFiniteSet(InUse'[n])
    BY <1>2, <1>3, <1>7, FS_EmptySet DEF GraphInv
  <2> QED
    BY <1>5, <1>6, <1>7, <1>8, <1>9, <2>1, <2>2 DEF GraphInv
<1>11. ConflictInv'
  <2>1. \A m, n \in G' : m \in Conflict'[n] => n \in Conflict'[m]
    <3> TAKE m, n \in G'
    <3>1. n \in G /\ m \in Conflict[n] => m \in G /\ n \in Conflict[m]
      BY <1>3 DEF GraphInv, ConflictInv
    <3> QED
      BY <1>8, <3>1
  <2>2. \A n \in G' : n \notin Conflict'[n]
    BY <1>3, <1>4, <1>8 DEF ConflictInv
  <2> QED
    BY <2>1, <2>2 DEF ConflictInv
<1>12. ColourInv'
  <2>1. \A n \in G' : isVar(n) => Reg'[n] = -1
    BY <1>1, <1>2, <1>3, <1>5 DEF ColourInv
  <2> QED
    BY <1>2, <2>1 DEF ColourInv, isVar
<1>13. PositionInv' /\ NodesInv' /\ EdgesInv' /\ CallsInv'
  <2>1. \A d \in dest(l) : d = dst
    BY OneDest
  <2>2. l.tag # "call"
    BY DEF dest
  <2>3. \A n \in G : /\ Conflict[n] \subseteq Conflict'[n]
                     /\ InUse[n] \subseteq InUse'[n]
                     /\ Reg'[n] = Reg[n]
    BY <1>2, <1>3, <1>5, <1>7, <1>8 DEF GraphInv
  <2>4. \A d \in dest(l), v \in after \cap (dest(l) \cup G) :
          Apart(<<b, i>>, d, v) => v \in Conflict'[d]
    <3> SUFFICES ASSUME NEW v \in after \cap (dest(l) \cup G), Apart(<<b, i>>, dst, v)
                 PROVE  v \in Conflict'[dst]
      BY <2>1
    <3>1. v # dst /\ v \in G
      BY <2>1 DEF Apart
    <3>2. At(<<b, i>>) = l
      BY DEF At, l
    <3>3. v \notin moved
      BY <3>2 DEF Apart, moved
    <3>4. v \in Neighbours(dst)
      BY <3>1, <3>3 DEF Neighbours
    <3> QED
      BY <1>2, <1>8, <3>1, <3>4
  <2> QED
    BY <1>2, <2>1, <2>2, <2>3, <2>4, InstrStep
<1> QED
  BY <1>10, <1>11, <1>12, <1>13 DEF AllocInv

----------------------------------------------------------------------------
(* The graph is made: everything has been met, and the neighbours of the   *)
(* registers among the nodes are told.                                     *)
LEMMA PrecolourStep == AllocInv /\ Precolour => AllocInv'
<1> SUFFICES ASSUME AllocInv, Precolour PROVE AllocInv'
  OBVIOUS
<1> DEFINE Told(n) == {Reg[m] : m \in {k \in G : Reg[k] # -1 /\ n \in Conflict[k]}}
<1>1. /\ pc = "graph" /\ b \notin DOMAIN f.blocks /\ pc' = "colour"
      /\ InUse' = [n \in G |-> InUse[n] \cup Told(n)]
      /\ UNCHANGED <<f, b, i, L, G, Reg, Conflict, Moves, Order>>
  BY DEF Precolour
<1>2. /\ Made /\ IsProgram(f) /\ b \in Nat \ {0}
      /\ GraphInv /\ ConflictInv /\ ColourInv
  BY <1>1 DEF Made, AllocInv, PositionInv
<1>3. PositionInv'
  BY <1>1, <1>2, SameProgram DEF PositionInv
<1>4. \A n : Told(n) \subseteq Nat /\ IsFiniteSet(Told(n))
  <2> TAKE n
  <2> DEFINE K == {k \in G : Reg[k] # -1 /\ n \in Conflict[k]}
  <2>1. IsFiniteSet(K)
    BY <1>2, FS_Subset DEF GraphInv
  <2>2. \A m \in K : Reg[m] \in Nat
    BY <1>2 DEF GraphInv
  <2>3. [m \in K |-> Reg[m]] \in Surjection(K, Told(n))
    BY DEF Surjection
  <2>4. IsFiniteSet(Told(n))
    BY <2>1, <2>3, FS_Surjection
  <2> QED
    BY <2>2, <2>4
<1>5. GraphInv'
  <2> HIDE DEF Told
  <2>1. InUse' \in [G -> SUBSET Nat]
    BY <1>1, <1>2, <1>4 DEF GraphInv
  <2>2. \A n \in G : IsFiniteSet(InUse'[n])
    BY <1>1, <1>2, <1>4, FS_Union DEF GraphInv
  <2> QED
    BY <1>1, <1>2, <2>1, <2>2 DEF GraphInv
<1>6. ConflictInv'
  BY <1>1, <1>2 DEF ConflictInv
<1>7. ColourInv'
  <2>1. ASSUME NEW m \in G, NEW n \in G, m \in Conflict[n], Reg[m] # -1
        PROVE  Reg[m] \in InUse'[n] /\ (isVar(n) => Reg[m] # Reg[n])
    <3>1. n \in Conflict[m]
      BY <1>2, <2>1 DEF ConflictInv
    <3> QED
      BY <1>1, <1>2, <2>1, <3>1 DEF ColourInv
  <2> QED
    BY <1>1, <2>1 DEF ColourInv, isVar
<1>8. Met' \subseteq Met
  <2>1. \A p \in Places : Before(p, <<b, i>>)
    <3> TAKE p \in Places
    <3>1. p[1] \in Nat \ {0} /\ p[1] \in DOMAIN f.blocks
      BY <1>2, PlaceFacts
    <3>2. f.blocks \in Seq([code : Seq(Instr), succ : Seq(Nat)])
      BY <1>2 DEF IsProgram
    <3>3. p[1] < b
      BY <1>1, <1>2, <3>1, <3>2
    <3> QED
      BY <3>3 DEF Before
  <2> QED
    BY <1>1, <2>1, SameProgram DEF Met
<1>9. /\ G \subseteq G'
      /\ \A n \in G : /\ Conflict[n] \subseteq Conflict'[n]
                      /\ InUse[n] \subseteq InUse'[n]
                      /\ Reg'[n] = Reg[n] \/ Reg'[n] \notin InUse[n]
  BY <1>1
<1>10. NodesInv' /\ EdgesInv' /\ CallsInv'
  BY <1>1, <1>2, <1>8, <1>9, QuietStep
<1> QED
  BY <1>3, <1>5, <1>6, <1>7, <1>10 DEF AllocInv

(* A node gets a register that no neighbour has and that it may have.      *)
LEMMA ColourStep ==
  ASSUME AllocInv, NEW x \in G, Colour1(x)
  PROVE  AllocInv'
<1>1. PICK r \in Free(x) :
        /\ Reg' = [Reg EXCEPT ![x] = r]
        /\ InUse' = [m \in G |-> InUse[m] \cup (IF m \in Conflict[x] THEN {r} ELSE {})]
  BY DEF Colour1
<1>2. /\ pc = "colour" /\ x \in S
      /\ UNCHANGED <<f, pc, b, i, L, G, Conflict, Moves, Order>>
  BY DEF Colour1
<1>3. /\ Made /\ IsProgram(f) /\ Reg[x] = -1
      /\ GraphInv /\ ConflictInv /\ ColourInv
  BY <1>2 DEF Made, AllocInv, PositionInv, S
<1>4. r \in Nat /\ r \notin InUse[x]
  <2>1. Cardinality(InUse[x]) \in Nat
    BY <1>3, FS_CardinalityType DEF GraphInv
  <2> QED
    BY <1>1, <2>1 DEF Free
<1>5. PositionInv'
  BY <1>2, <1>3, SameProgram DEF AllocInv, PositionInv
<1>6. GraphInv'
  <2>1. Reg' \in [G -> Nat \cup {-1}] /\ InUse' \in [G -> SUBSET Nat]
    BY <1>1, <1>3, <1>4 DEF GraphInv
  <2>2. \A m \in G : IsFiniteSet(InUse'[m])
    BY <1>1, <1>3, FS_Union, FS_Singleton, FS_EmptySet DEF GraphInv
  <2> QED
    BY <1>2, <1>3, <2>1, <2>2 DEF GraphInv
<1>7. ConflictInv'
  BY <1>2, <1>3 DEF ConflictInv
<1>8. ColourInv'
  <2>1. \A n \in G : Reg'[n] = IF n = x THEN r ELSE Reg[n]
    BY <1>1, <1>3 DEF GraphInv
  <2>2. ASSUME NEW m \in G, NEW n \in G, m \in Conflict[n], Reg'[m] # -1
        PROVE  Reg'[m] \in InUse'[n] /\ (isVar(n) => Reg'[m] # Reg'[n])
    <3>1. n \in Conflict[m] /\ m # n
      BY <1>3, <2>2 DEF ConflictInv
    <3>2. CASE m = x
      BY <1>1, <1>2, <1>3, <1>4, <2>1, <3>1, <3>2 DEF ColourInv
    <3>3. CASE m # x
      <4>1. Reg[m] \in InUse[n] /\ (isVar(n) => Reg[m] # Reg[n])
        BY <1>2, <1>3, <2>1, <2>2, <3>3 DEF ColourInv
      <4> QED
        BY <1>1, <1>4, <2>1, <3>3, <4>1
    <3> QED
      BY <3>2, <3>3
  <2> QED
    BY <1>2, <2>2 DEF ColourInv, isVar
<1>9. Met' \subseteq Met
  BY <1>2, SameProgram DEF Met
<1>10. \A n \in G : /\ Conflict[n] \subseteq Conflict'[n]
                    /\ InUse[n] \subseteq InUse'[n]
                    /\ Reg'[n] = Reg[n] \/ Reg'[n] \notin InUse[n]
  BY <1>1, <1>2, <1>3, <1>4 DEF GraphInv
<1>11. NodesInv' /\ EdgesInv' /\ CallsInv'
  <2>1. Made /\ f' = f /\ L' = L /\ G \subseteq G'
    BY <1>2, <1>3
  <2> QED
    BY <1>9, <1>10, <2>1, QuietStep
<1> QED
  BY <1>5, <1>6, <1>7, <1>8, <1>11 DEF AllocInv

(* Every node has a register, or nothing happens. *)
LEMMA DoneStep == AllocInv /\ (Done \/ UNCHANGED vars) => AllocInv'
<1> SUFFICES ASSUME AllocInv, Done \/ UNCHANGED vars PROVE AllocInv'
  OBVIOUS
<1>1. /\ UNCHANGED <<f, b, i, L, graph>>
      /\ pc' = pc \/ (pc = "colour" /\ pc' = "done" /\ S = {})
  BY DEF Done, vars, graph
<1>2. PositionInv'
  BY <1>1, SameProgram DEF AllocInv, PositionInv, graph
<1>3. GraphInv' /\ ConflictInv'
  BY <1>1, SameGraph DEF AllocInv
<1>4. ColourInv'
  <2>1. S' = S
    BY <1>1 DEF S, graph
  <2> QED
    BY <1>1, <2>1 DEF AllocInv, ColourInv, graph, isVar
<1>5. ASSUME Made' PROVE NodesInv' /\ EdgesInv' /\ CallsInv'
  <2>1. Made
    BY <1>1, <1>5 DEF Made
  <2>2. Met' \subseteq Met
    BY <1>1, SameProgram DEF Met
  <2> QED
    BY <1>1, <2>1, <2>2, QuietStep DEF graph
<1> QED
  BY <1>2, <1>3, <1>4, <1>5 DEF AllocInv

LEMMA AllocStep == AllocInv /\ [Next]_vars => AllocInv'
<1> SUFFICES ASSUME AllocInv, [Next]_vars PROVE AllocInv'
  OBVIOUS
<1>1. CASE LiveBlock \/ LivePanic \/ LiveDone
  BY <1>1, LiveStep
<1>2. CASE AtInstr /\ \E dst \in dest(l) : Define(dst)
  BY <1>2, DefineStep
<1>3. CASE NoNode
  BY <1>3, NoNodeStep
<1>4. CASE Call
  BY <1>4, CallStep
<1>5. CASE NextBlock
  BY <1>5, NextBlockStep
<1>6. CASE Precolour
  BY <1>6, PrecolourStep
<1>7. CASE \E n \in G : Colour1(n)
  BY <1>7, ColourStep
<1>8. CASE Done \/ UNCHANGED vars
  BY <1>8, DoneStep
<1> QED
  BY <1>1, <1>2, <1>3, <1>4, <1>5, <1>6, <1>7, <1>8 DEF Next

(***************************************************************************)
(* Whatever the program: the conflict graph is symmetric and holds an edge *)
(* for every variable that a met instruction must not overwrite, calls     *)
(* have banned what they must, and the registers given respect both        *)
(* (reg.go:94-244).                                                        *)
(***************************************************************************)
THEOREM AllocInvariant == Spec => []AllocInv
<1>1. Init => AllocInv
  BY AllocInit
<1>2. AllocInv /\ [Next]_vars => AllocInv'
  BY AllocStep
<1> QED
  BY <1>1, <1>2, PTL DEF Spec

LEMMA AllocNoClobber == AllocInv => NoClobber
<1> SUFFICES ASSUME AllocInv, pc = "done", NEW p \in Places,
                    NEW d \in dest(At(p)), NEW v \in LiveAfter(p) \cap DefinedBy(p),
                    Apart(p, d, v)
             PROVE  Reg[d] # Reg[v]
  BY DEF NoClobber, Apart
<1>1. Made /\ p \in Met
  BY DEF Made, Met
<1>2. d \in G /\ v \in G
  BY <1>1, Known DEF AllocInv, NodesInv, Apart
<1>3. v \in Conflict[d] /\ d \in Conflict[v]
  BY <1>1, <1>2 DEF AllocInv, EdgesInv, ConflictInv
<1>4. Reg[d] # -1 /\ isVar(v)
  BY <1>2 DEF AllocInv, ColourInv, S, Apart
<1> QED
  BY <1>2, <1>3, <1>4 DEF AllocInv, ColourInv

(***************************************************************************)
(* For every program, no instruction writes the register of a variable     *)
(* that is needed after it and that it does not copy: colouring honours    *)
(* every conflict (reg.go:226-237).                                        *)
(***************************************************************************)
THEOREM NoClobberHolds == Spec => []NoClobber
  BY AllocNoClobber, AllocInvariant, PTL

(***************************************************************************)
(* For every program, a variable that is needed after a call is in no      *)
(* register the callee may write, and a tuple in no register at all        *)
(* (reg.go:145-181).                                                       *)
(***************************************************************************)
THEOREM SurvivesCallsHolds == Spec => []SurvivesCalls
<1>1. AllocInv => SurvivesCalls
  <2> SUFFICES ASSUME AllocInv, pc = "done", NEW p \in Places,
                      NEW v \in LiveAfter(p) \cap DefinedBy(p),
                      At(p).tag = "call", isVar(v)
               PROVE  Reg[v] \notin Banned(v)
    BY DEF SurvivesCalls, Banned
  <2>1. Made /\ p \in Met
    BY DEF Made, Met
  <2>2. v \in G /\ Reg[v] # -1
    BY <2>1, Known DEF AllocInv, ColourInv, S
  <2> QED
    BY <2>1, <2>2 DEF AllocInv, CallsInv
<1> QED
  BY <1>1, AllocInvariant, PTL
=============================================================================
