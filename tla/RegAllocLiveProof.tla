-------------------------- MODULE RegAllocLiveProof --------------------------
(***************************************************************************)
(* Theorems about the live sets: for every program without empty blocks    *)
(* the one pass over the blocks finds exactly what is live.  Here things   *)
(* are defined by recursion, along a block and along the graph of blocks,  *)
(* and what is said of them is proved by taking the least counterexample.  *)
(***************************************************************************)
EXTENDS RegAllocProof, WellFoundedInduction

LEMMA Least ==
  ASSUME NEW T \in SUBSET Nat, T # {}
  PROVE  \E x \in T : \A y \in T : x <= y
<1> DEFINE R == {ss \in Nat \X Nat : ss[1] < ss[2]}
<1>1. IsWellFoundedOn(R, Nat)
  BY NatLessThanWellFounded DEF OpToRel
<1> HIDE DEF R
<1>2. \E x \in T : \A y \in T : <<y, x>> \notin R
  BY <1>1, WFMin
<1>3. \A x, y \in Nat : <<y, x>> \notin R => x <= y
  BY DEF R
<1> QED
  BY <1>2, <1>3

-----------------------------------------------------------------------------
(* Along a block                                                           *)

\* What live[k] is in computeLiveSets(c, init), and that g is live on the
\* last m instructions of c.
LiveAt(c, init, g, k) ==
  IF k = Len(c) + 1 THEN init ELSE (g[k + 1] \ dest(c[k])) \cup src(c[k])

IsLive(c, init, g, m) ==
  g = [k \in (Len(c) + 1 - m)..(Len(c) + 1) |-> LiveAt(c, init, g, k)]

LEMMA LiveExtends ==
  ASSUME NEW c, Len(c) \in Nat, NEW init, NEW m \in Nat, m < Len(c),
         NEW g, IsLive(c, init, g, m)
  PROVE  \E h : IsLive(c, init, h, m + 1)
<1> DEFINE N == Len(c)
           x == N - m
           h == [k \in x..(N + 1) |-> IF k = x THEN (g[x + 1] \ dest(c[x])) \cup src(c[x])
                                               ELSE g[k]]
<1>1. x \in Nat \ {0} /\ x < N + 1 /\ x = N + 1 - (m + 1) /\ x + 1 = N + 1 - m
  OBVIOUS
<1>2. \A k \in (x + 1)..(N + 1) : g[k] = LiveAt(c, init, g, k)
  BY <1>1 DEF IsLive
<1> HIDE DEF x
<1>3. \A k \in (x + 1)..(N + 1) : h[k] = g[k]
  BY <1>1
<1>4. \A k \in x..(N + 1) : h[k] = LiveAt(c, init, h, k)
  <2> SUFFICES ASSUME NEW k \in x..(N + 1) PROVE h[k] = LiveAt(c, init, h, k)
    OBVIOUS
  <2>1. CASE k = x
    <3>1. h[k] = (g[x + 1] \ dest(c[x])) \cup src(c[x])
      BY <2>1
    <3>2. h[x + 1] = g[x + 1] /\ k # N + 1
      BY <1>1, <1>3, <2>1
    <3> QED
      BY <2>1, <3>1, <3>2 DEF LiveAt
  <2>2. CASE k # x
    <3>1. k \in (x + 1)..(N + 1) /\ (k # N + 1 => k + 1 \in (x + 1)..(N + 1))
      BY <1>1, <2>2
    <3>2. h[k] = LiveAt(c, init, g, k) /\ (k # N + 1 => h[k + 1] = g[k + 1])
      BY <1>2, <1>3, <3>1
    <3> QED
      BY <3>2 DEF LiveAt
  <2> QED
    BY <2>1, <2>2
<1>5. h = [k \in x..(N + 1) |-> h[k]]
  OBVIOUS
<1> HIDE DEF h
<1>6. h = [k \in x..(N + 1) |-> LiveAt(c, init, h, k)]
  BY <1>4, <1>5
<1> QED
  BY <1>1, <1>6 DEF IsLive

LEMMA LiveExists ==
  ASSUME NEW c, Len(c) \in Nat, NEW init
  PROVE  \E g : IsLive(c, init, g, Len(c))
<1> DEFINE T == {m \in Nat : m <= Len(c) /\ ~\E g : IsLive(c, init, g, m)}
<1>1. ASSUME T # {} PROVE FALSE
  <2>1. PICK m \in T : \A y \in T : m <= y
    BY <1>1, Least
  <2>2. m # 0
    <3> DEFINE g == [k \in {Len(c) + 1} |-> init]
    <3>1. g[Len(c) + 1] = LiveAt(c, init, g, Len(c) + 1)
      BY DEF LiveAt
    <3>2. (Len(c) + 1 - 0)..(Len(c) + 1) = {Len(c) + 1}
      OBVIOUS
    <3>3. g = [k \in {Len(c) + 1} |-> g[k]]
      OBVIOUS
    <3> HIDE DEF g
    <3>4. IsLive(c, init, g, 0)
      BY <3>1, <3>2, <3>3 DEF IsLive
    <3> QED
      BY <2>1, <3>4
  <2>3. m - 1 \in Nat /\ m - 1 < Len(c) /\ m - 1 \notin T /\ (m - 1) + 1 = m
    BY <2>1, <2>2
  <2>4. PICK g : IsLive(c, init, g, m - 1)
    BY <2>3
  <2>5. \E h : IsLive(c, init, h, (m - 1) + 1)
    BY <2>3, <2>4, LiveExtends
  <2> QED
    BY <2>1, <2>3, <2>5
<1>2. Len(c) \in Nat /\ Len(c) <= Len(c)
  OBVIOUS
<1> QED
  BY <1>1, <1>2

LEMMA LiveSets ==
  ASSUME NEW c, Len(c) \in Nat, NEW init, NEW live, live = computeLiveSets(c, init)
  PROVE  /\ live = [k \in 1..(Len(c) + 1) |-> live[k]]
         /\ DOMAIN live = 1..(Len(c) + 1) /\ live[Len(c) + 1] = {}
         /\ \A k \in 1..Len(c) :
              live[k] = ((IF k = Len(c) THEN init ELSE live[k + 1]) \ dest(c[k]))
                          \cup src(c[k])
<1> DEFINE N == Len(c)
           g == CHOOSE g : g = [k \in 1..(N + 1) |->
                                  IF k = N + 1 THEN init
                                  ELSE (g[k + 1] \ dest(c[k])) \cup src(c[k])]
<1>1. live = [k \in 1..(N + 1) |-> IF k = N + 1 THEN {} ELSE g[k]]
  BY Zenon DEF computeLiveSets
<1>2. (N + 1 - N)..(N + 1) = 1..(N + 1)
  OBVIOUS
<1>3. g = [k \in 1..(N + 1) |-> IF k = N + 1 THEN init
                                ELSE (g[k + 1] \ dest(c[k])) \cup src(c[k])]
  <2>1. PICK h : IsLive(c, init, h, N)
    BY LiveExists
  <2>2. h = [k \in 1..(N + 1) |-> LiveAt(c, init, h, k)]
    BY <1>2, <2>1 DEF IsLive
  <2>3. h = [k \in 1..(N + 1) |-> IF k = N + 1 THEN init
                                  ELSE (h[k + 1] \ dest(c[k])) \cup src(c[k])]
    BY <2>2, Zenon DEF LiveAt
  <2> QED
    BY <2>3, Zenon
<1> HIDE DEF g
<1>4. \A k \in 1..(N + 1) : g[k] = LiveAt(c, init, g, k)
  BY <1>3 DEF LiveAt
<1>5. \A k \in 1..N : live[k] = g[k] /\ k # N + 1 /\ k \in 1..(N + 1)
  BY <1>1
<1>6. g[N + 1] = init
  <2>1. N + 1 \in 1..(N + 1)
    OBVIOUS
  <2> QED
    BY <1>4, <2>1 DEF LiveAt
<1>7. \A k \in 1..N : live[k] = ((IF k = N THEN init ELSE live[k + 1]) \ dest(c[k]))
                                  \cup src(c[k])
  <2> SUFFICES ASSUME NEW k \in 1..N
               PROVE  live[k] = ((IF k = N THEN init ELSE live[k + 1]) \ dest(c[k]))
                                  \cup src(c[k])
    OBVIOUS
  <2>1. live[k] = (g[k + 1] \ dest(c[k])) \cup src(c[k])
    BY <1>4, <1>5 DEF LiveAt
  <2>2. g[k + 1] = IF k = N THEN init ELSE live[k + 1]
    <3>1. k # N => k + 1 \in 1..N
      OBVIOUS
    <3> QED
      BY <1>5, <1>6, <3>1
  <2> QED
    BY <2>1, <2>2
<1>8. DOMAIN live = 1..(N + 1) /\ live[N + 1] = {}
  <2>1. N + 1 \in 1..(N + 1)
    OBVIOUS
  <2> QED
    BY <1>1, <2>1, Zenon
<1>9. live = [k \in 1..(N + 1) |-> live[k]]
  BY <1>1
<1> QED
  BY <1>7, <1>8, <1>9

(* What is live is an operand, if the instructions have operands only. *)
LEMMA LiveSetsType ==
  ASSUME NEW c, Len(c) \in Nat, NEW init \in SUBSET Operand,
         NEW live, live = computeLiveSets(c, init),
         \A k \in 1..Len(c) : src(c[k]) \subseteq Operand
  PROVE  live \in [1..(Len(c) + 1) -> SUBSET Operand]
<1> DEFINE N == Len(c)
           T == {m \in Nat : m <= N /\ ~(live[N + 1 - m] \subseteq Operand)}
<1>1. /\ DOMAIN live = 1..(N + 1) /\ live[N + 1] = {}
      /\ \A k \in 1..N :
           live[k] = ((IF k = N THEN init ELSE live[k + 1]) \ dest(c[k])) \cup src(c[k])
  BY LiveSets
<1>2. ASSUME T # {} PROVE FALSE
  <2>1. PICK m \in T : \A y \in T : m <= y
    BY <1>2, Least
  <2>2. m # 0
    BY <1>1, <2>1
  <2> DEFINE x == N + 1 - m
  <2>3. x \in 1..N /\ m - 1 \in Nat /\ m - 1 <= N /\ ~(m <= m - 1) /\ x + 1 = N + 1 - (m - 1)
    BY <2>1, <2>2
  <2>4. live[x + 1] \subseteq Operand
    BY <2>1, <2>3
  <2>5. live[x] = ((IF x = N THEN init ELSE live[x + 1]) \ dest(c[x])) \cup src(c[x])
    BY <1>1, <2>3
  <2>6. live[x] \subseteq Operand
    BY <2>3, <2>4, <2>5
  <2> QED
    BY <2>1, <2>6
<1>3. \A k \in 1..(N + 1) : live[k] \subseteq Operand
  <2> TAKE k \in 1..(N + 1)
  <2>1. N + 1 - k \in Nat /\ N + 1 - k <= N /\ N + 1 - (N + 1 - k) = k
    OBVIOUS
  <2> QED
    BY <1>2, <2>1
<1>4. live = [k \in 1..(N + 1) |-> live[k]]
  BY LiveSets
<1> QED
  BY <1>3, <1>4

-----------------------------------------------------------------------------
(* What a program is made of *)

LEMMA ProgramParts ==
  ASSUME IsProgram(f)
  PROVE  /\ Len(f.blocks) \in Nat /\ DOMAIN f.blocks = 1..Len(f.blocks)
         /\ \A j \in DOMAIN f.blocks :
              /\ Len(code(j)) \in Nat /\ DOMAIN code(j) = 1..Len(code(j))
              /\ succ(j) \subseteq DOMAIN f.blocks
              /\ \A k \in 1..Len(code(j)) :
                   /\ Args(code(j)[k]) \subseteq Operand
                   /\ src(code(j)[k]) \subseteq Operand
                   /\ dest(code(j)[k]) \subseteq Operand
<1> DEFINE T == [code : Seq(Instr), succ : Seq(Nat)]
<1>1. f.blocks \in Seq(T)
  BY DEF IsProgram
<1>2. Len(f.blocks) \in Nat /\ DOMAIN f.blocks = 1..Len(f.blocks)
  <2> HIDE DEF T
  <2> QED
    BY <1>1
<1>3. ASSUME NEW j \in DOMAIN f.blocks
      PROVE  /\ Len(code(j)) \in Nat /\ DOMAIN code(j) = 1..Len(code(j))
             /\ succ(j) \subseteq DOMAIN f.blocks
             /\ \A k \in 1..Len(code(j)) :
                  /\ Args(code(j)[k]) \subseteq Operand
                  /\ src(code(j)[k]) \subseteq Operand
                  /\ dest(code(j)[k]) \subseteq Operand
  <2>1. code(j) \in Seq(Instr)
    BY <1>3, Blocks
  <2>2. Len(code(j)) \in Nat /\ DOMAIN code(j) = 1..Len(code(j))
    BY <2>1
  <2>3. succ(j) \subseteq DOMAIN f.blocks
    BY <1>3 DEF succ, IsProgram
  <2>4. ASSUME NEW k \in 1..Len(code(j))
        PROVE  /\ Args(code(j)[k]) \subseteq Operand
               /\ src(code(j)[k]) \subseteq Operand
               /\ dest(code(j)[k]) \subseteq Operand
    <3>1. PICK op : op = code(j)[k]
      OBVIOUS
    <3>2. op \in Instr
      BY <2>1, <2>2, <2>4, <3>1, SeqElement
    <3>3. op.args \in Seq(Operand)
      BY <3>2 DEF Instr
    <3>4. Args(op) \subseteq Operand
      BY <3>3, SeqElement DEF Args
    <3>5. src(op) \subseteq Args(op)
      BY DEF src, Named, Args
    <3>6. op.tag = "instr" => op.args # <<>> \/ op.variant = "cqto"
      <4>1. k \in DOMAIN f.blocks[j].code /\ op = f.blocks[j].code[k]
        BY <2>2, <3>1 DEF code
      <4> QED
        BY <1>3, <4>1 DEF IsProgram
    <3>7. rdx \in Operand
      <4>1. rdx \in {"var", "reg"} \X STRING
        <5>1. \A x \in {"var", "reg"}, y \in STRING : <<x, y>> \in {"var", "reg"} \X STRING
          OBVIOUS
        <5>2. "reg" \in {"var", "reg"}
          OBVIOUS
        <5> QED
          BY <5>1, <5>2, LiteralAssumption, Zenon DEF rdx, Reg64
      <4> QED
        BY <4>1 DEF Operand
    <3>8. op.args # <<>> => op.args[1] \in Operand
      BY <3>3
    <3>9. dest(op) \subseteq Operand
      BY <3>6, <3>7, <3>8 DEF dest, Named
    <3> QED
      BY <3>1, <3>4, <3>5, <3>9
  <2> QED
    BY <2>2, <2>3, <2>4
<1> QED
  BY <1>2, <1>3

LEMMA SameSettled ==
  ASSUME f' = f, NEW j, L'[j] = L[j], \A s \in succ(j) : L'[s] = L[s]
  PROVE  /\ code(j)' = code(j) /\ succ(j)' = succ(j)
         /\ LiveOut(j)' = LiveOut(j) /\ (Settled(j)' <=> Settled(j))
<1>1. code(j)' = code(j) /\ succ(j)' = succ(j)
  BY DEF code, succ
<1>2. LiveOut(j)' = LiveOut(j)
  BY <1>1 DEF LiveOut
<1>3. \A k : /\ dest(code(j)[k])' = dest(code(j)[k])
             /\ src(code(j)[k])' = src(code(j)[k])
  BY <1>1 DEF code, dest, src, Named, Args, rdx, Reg64, isVar, isReg
<1>4. (\A s \in succ(j) : s > j /\ L[s] # nil)' <=> \A s \in succ(j) : s > j /\ L[s] # nil
  BY <1>1 DEF nil
<1> QED
  BY <1>1, <1>2, <1>3, <1>4 DEF Settled

-----------------------------------------------------------------------------
(* The pass over the blocks                                                *)

LEMMA LiveInit == Init => LiveInv
<1> SUFFICES ASSUME Init PROVE LiveInv
  OBVIOUS
<1>1. IsProgram(f)
  BY ProgramsAssumption DEF Init
<1>2. Len(f.blocks) \in Nat /\ DOMAIN f.blocks = 1..Len(f.blocks)
  BY <1>1, ProgramParts
<1>3. /\ pc = "live" /\ b = Len(f.blocks) /\ i = 1 /\ G = {}
      /\ L = [j \in DOMAIN f.blocks |-> nil]
  BY DEF Init, Start
<1> QED
  BY <1>2, <1>3 DEF LiveInv, Made

\* A block gets its live sets, and the loop goes on to the one before it.
LEMMA LiveBlockStep == IsProgram(f) /\ LiveInv /\ LiveBlock => LiveInv'
<1> SUFFICES ASSUME IsProgram(f), LiveInv, LiveBlock PROVE LiveInv'
  OBVIOUS
<1> DEFINE live == computeLiveSets(code(b), LiveOut(b))
<1>1. /\ pc = "live" /\ b >= 1 /\ \A s \in succ(b) : L[s] # nil
      /\ L' = [L EXCEPT ![b] = live] /\ b' = b - 1
      /\ f' = f /\ pc' = pc /\ i' = i /\ G' = G
  BY DEF LiveBlock, LiveOut, graph
<1>2. /\ DOMAIN L = DOMAIN f.blocks /\ b \in 1..Len(f.blocks) /\ Len(f.blocks) \in Nat
      /\ \A j \in DOMAIN L : L[j] # nil <=> j > b
      /\ \A j \in DOMAIN L : L[j] # nil => Settled(j)
      /\ i \in Nat \ {0} /\ G \subseteq Operand
  BY <1>1, ProgramParts DEF LiveInv, Made
<1>3. /\ DOMAIN f.blocks = 1..Len(f.blocks) /\ b \in DOMAIN L
      /\ \A j \in DOMAIN f.blocks : Len(code(j)) \in Nat /\ succ(j) \subseteq DOMAIN f.blocks
  BY <1>2, ProgramParts
<1>4. /\ DOMAIN live = 1..(Len(code(b)) + 1) /\ live[Len(code(b)) + 1] = {}
      /\ \A k \in 1..Len(code(b)) :
           live[k] = ((IF k = Len(code(b)) THEN LiveOut(b) ELSE live[k + 1])
                        \ dest(code(b)[k])) \cup src(code(b)[k])
  BY <1>2, <1>3, LiveSets
<1>5. live # nil
  BY <1>3, <1>4 DEF nil
<1> HIDE DEF live
<1>6. \A s \in succ(b) : s \in DOMAIN L /\ s > b
  BY <1>1, <1>2, <1>3
<1>7. L'[b] = live /\ DOMAIN L' = DOMAIN L /\ \A j \in DOMAIN L : j # b => L'[j] = L[j]
  BY <1>1, <1>3
<1>8. ASSUME NEW j, j = b PROVE Settled(j)'
  <2>1. code(j)' = code(j) /\ succ(j)' = succ(j)
    BY <1>1 DEF code, succ
  <2>2. \A s \in succ(j) : L'[s] = L[s] /\ s > j /\ L[s] # nil
    BY <1>1, <1>6, <1>7, <1>8, <1>2, <1>3
  <2>3. LiveOut(j)' = LiveOut(b)
    BY <1>8, <2>1, <2>2 DEF LiveOut
  <2>4. \A k : /\ dest(code(j)[k])' = dest(code(j)[k])
               /\ src(code(j)[k])' = src(code(j)[k])
    BY <2>1 DEF code, dest, src, Named, Args, rdx, Reg64, isVar, isReg
  <2>5. (\A s \in succ(j) : s > j /\ L[s] # nil)'
    BY <2>1, <2>2 DEF nil
  <2>6. L'[j] = live
    BY <1>7, <1>8
  <2> QED
    BY <1>4, <1>8, <2>1, <2>3, <2>4, <2>5, <2>6 DEF Settled
<1>9. ASSUME NEW j \in DOMAIN L, j # b, L[j] # nil PROVE L'[j] # nil /\ Settled(j)'
  <2>1. Settled(j) /\ j > b
    BY <1>2, <1>9
  <2>2. \A s \in succ(j) : s # b /\ s \in DOMAIN L
    BY <1>2, <1>3, <2>1 DEF Settled
  <2> QED
    BY <1>1, <1>7, <1>9, <2>1, <2>2, SameSettled
<1>10. \A j \in DOMAIN L : L'[j] # nil <=> j > b - 1
  <2> TAKE j \in DOMAIN L
  <2>1. j \in Nat /\ b \in Nat
    BY <1>2, <1>3
  <2> QED
    BY <1>2, <1>5, <1>7, <2>1
<1>11. \A j \in DOMAIN L : L'[j] # nil => Settled(j)'
  BY <1>7, <1>8, <1>9
<1>12. nil' = nil /\ ~Made' /\ b - 1 \in 0..(Len(f.blocks) + 1) /\ b - 1 <= Len(f.blocks)
  BY <1>1, <1>2 DEF nil, Made
<1> QED
  BY <1>1, <1>2, <1>7, <1>10, <1>11, <1>12 DEF LiveInv

\* Later steps change no live set, and come to no block that is not there.
LEMMA LiveKept ==
  ASSUME LiveInv, f' = f, L' = L, pc' # "live", Made' => Made,
         b' \in 0..(Len(f.blocks) + 1), i' \in Nat \ {0}, G' \subseteq Operand
  PROVE  LiveInv'
<1>1. \A j : Settled(j)' <=> Settled(j)
  BY SameSettled
<1>2. nil' = nil
  BY DEF nil
<1> QED
  BY <1>1, <1>2 DEF LiveInv

LEMMA LiveRest ==
  ASSUME IsProgram(f), LiveInv,
         \/ LivePanic \/ NoNode \/ Call \/ NextBlock \/ Precolour
         \/ \E n \in G : Colour1(n)
         \/ Done
  PROVE  LiveInv'
<1>1. /\ f' = f /\ L' = L /\ pc' # "live" /\ (Made' => Made) /\ G' = G
      /\ i' \in {i, i + 1, 1}
      /\ b' = b \/ (b \in DOMAIN f.blocks /\ b' = b + 1)
  BY DEF LivePanic, NoNode, Call, NextBlock, Precolour, Colour1, Done, AtInstr, Made, graph
<1>2. /\ DOMAIN f.blocks = 1..Len(f.blocks) /\ Len(f.blocks) \in Nat
      /\ b \in 0..(Len(f.blocks) + 1) /\ i \in Nat \ {0} /\ G \subseteq Operand
  BY ProgramParts DEF LiveInv
<1>3. b' \in 0..(Len(f.blocks) + 1) /\ i' \in Nat \ {0}
  BY <1>1, <1>2
<1> QED
  BY <1>1, <1>2, <1>3, LiveKept

LEMMA LiveDefine ==
  ASSUME IsProgram(f), LiveInv, AtInstr, NEW dst \in dest(l), Define(dst)
  PROVE  LiveInv'
<1>1. /\ f' = f /\ L' = L /\ pc' = pc /\ pc = "graph" /\ b' = b /\ i' = i + 1
      /\ G' = G \cup {dst} /\ b \in DOMAIN f.blocks /\ i \in DOMAIN code(b)
  BY DEF Define, AtInstr
<1>2. dst \in Operand
  BY <1>1, ProgramParts DEF l
<1>3. b \in 0..(Len(f.blocks) + 1) /\ i \in Nat \ {0} /\ G \subseteq Operand
  BY DEF LiveInv
<1>4. pc' # "live" /\ (Made' => Made) /\ i' \in Nat \ {0} /\ G' \subseteq Operand
  BY <1>1, <1>2, <1>3 DEF Made
<1> QED
  BY <1>1, <1>3, <1>4, LiveKept

\* The pass is over: every block has its live sets.
LEMMA LiveDoneStep == IsProgram(f) /\ LiveInv /\ LiveDone => LiveInv'
<1> SUFFICES ASSUME IsProgram(f), LiveInv, LiveDone PROVE LiveInv'
  OBVIOUS
<1>1. /\ pc = "live" /\ b = 0 /\ pc' = "graph" /\ b' = 1
      /\ f' = f /\ L' = L /\ i' = i /\ G' = G
  BY DEF LiveDone, graph
<1>2. /\ DOMAIN f.blocks = 1..Len(f.blocks) /\ Len(f.blocks) \in Nat
      /\ DOMAIN L = DOMAIN f.blocks /\ i \in Nat \ {0} /\ G \subseteq Operand
      /\ \A j \in DOMAIN L : L[j] # nil <=> j > 0
      /\ \A j \in DOMAIN L : L[j] # nil => Settled(j)
  BY <1>1, ProgramParts DEF LiveInv
<1>3. \A j \in DOMAIN L : L[j] # nil /\ Settled(j)
  BY <1>2
<1>4. \A j : Settled(j)' <=> Settled(j)
  BY <1>1, SameSettled
<1>5. nil' = nil
  BY DEF nil
<1> QED
  BY <1>1, <1>2, <1>3, <1>4, <1>5 DEF LiveInv

LEMMA LiveStepKeeps == IsProgram(f) /\ LiveInv /\ [Next]_vars => LiveInv'
<1> SUFFICES ASSUME IsProgram(f), LiveInv, [Next]_vars PROVE LiveInv'
  OBVIOUS
<1>1. CASE LiveBlock
  BY <1>1, LiveBlockStep
<1>2. CASE LiveDone
  BY <1>2, LiveDoneStep
<1>3. CASE AtInstr /\ \E dst \in dest(l) : Define(dst)
  BY <1>3, LiveDefine
<1>4. CASE \/ LivePanic \/ NoNode \/ Call \/ NextBlock \/ Precolour
           \/ \E n \in G : Colour1(n)
           \/ Done
  BY <1>4, LiveRest
<1>5. CASE UNCHANGED vars
  <2>1. \A j : Settled(j)' <=> Settled(j)
    BY <1>5, SameSettled DEF vars
  <2>2. nil' = nil
    BY DEF nil
  <2> QED
    BY <1>5, <2>1, <2>2 DEF LiveInv, vars, Made
<1> QED
  BY <1>1, <1>2, <1>3, <1>4, <1>5 DEF Next

(***************************************************************************)
(* Whatever the program: the pass goes over the blocks from the last to    *)
(* the first, gives a block live sets only when every successor has them,  *)
(* and what it gave agrees with them from then on (reg.go:69-81,           *)
(* 280-308).                                                               *)
(***************************************************************************)
THEOREM LiveInvariant == Spec => []LiveInv
<1>1. Init => LiveInv
  BY LiveInit
<1>2. AllocInv => IsProgram(f)
  BY DEF AllocInv, PositionInv
<1>3. IsProgram(f) /\ LiveInv /\ [Next]_vars => LiveInv'
  BY LiveStepKeeps
<1> QED
  BY <1>1, <1>2, <1>3, AllocInvariant, PTL DEF Spec

(***************************************************************************)
(* When every block comes before its successors, whatever else the order   *)
(* lower lists them in, each successor has its live sets in time and       *)
(* regalloc never indexes an empty list (reg.go:75-79).                    *)
(***************************************************************************)
THEOREM AnyOrderThatIsForward ==
  ASSUME \A p \in Programs : Forward(p)
  PROVE  Spec => []AnyOrder
<1> DEFINE Safe == Forward(f) /\ AnyOrder
<1>1. Init => Safe
  BY DEF Init, Start, AnyOrder
<1>2. ASSUME IsProgram(f), LiveInv, Safe, [Next]_vars PROVE Safe'
  <2>1. f' = f
    BY <1>2 DEF Next, LiveBlock, LivePanic, LiveDone, Define, NoNode, Call, NextBlock,
                Precolour, Colour1, Done, vars
  <2>2. Forward(f)'
    BY <1>2, <2>1 DEF Forward
  <2>3. ~LivePanic
    <3> SUFFICES ASSUME LivePanic PROVE FALSE
      OBVIOUS
    <3>1. pc = "live" /\ b >= 1 /\ \E s \in succ(b) : L[s] = nil
      BY DEF LivePanic
    <3>2. /\ DOMAIN f.blocks = 1..Len(f.blocks) /\ Len(f.blocks) \in Nat
          /\ \A j \in DOMAIN f.blocks : succ(j) \subseteq DOMAIN f.blocks
      BY <1>2, ProgramParts
    <3>3. /\ DOMAIN L = DOMAIN f.blocks /\ b \in DOMAIN f.blocks
          /\ \A j \in DOMAIN L : L[j] # nil <=> j > b
      BY <1>2, <3>1, <3>2 DEF LiveInv
    <3>4. \A s \in succ(b) : s > b
      BY <1>2, <3>3 DEF Forward, succ
    <3> QED
      BY <3>1, <3>2, <3>3, <3>4
  <2>4. pc' # "panic"
    BY <1>2, <2>3 DEF Next, LiveBlock, LiveDone, Define, NoNode, Call, NextBlock,
                Precolour, Colour1, Done, vars, AnyOrder, AtInstr
  <2> QED
    BY <2>2, <2>4 DEF AnyOrder
<1>3. AllocInv => IsProgram(f)
  BY DEF AllocInv, PositionInv
<1>4. Safe => AnyOrder
  OBVIOUS
<1> HIDE DEF Safe
<1> QED
  BY <1>1, <1>2, <1>3, <1>4, AllocInvariant, LiveInvariant, PTL DEF Spec

-----------------------------------------------------------------------------
(* The shape of the state                                                  *)

LiveTyped ==
  \A j \in DOMAIN L : L[j] = nil \/ L[j] \in [1..(Len(code(j)) + 1) -> SUBSET Operand]

LEMMA LiveTypedStep == IsProgram(f) /\ LiveInv /\ LiveTyped /\ [Next]_vars => LiveTyped'
<1> SUFFICES ASSUME IsProgram(f), LiveInv, LiveTyped, [Next]_vars PROVE LiveTyped'
  OBVIOUS
<1>1. \A j : f' = f => code(j)' = code(j)
  BY DEF code
<1>2. nil' = nil
  BY DEF nil
<1>3. CASE f' = f /\ L' = L
  BY <1>1, <1>2, <1>3 DEF LiveTyped
<1>4. CASE LiveBlock
  <2> DEFINE live == computeLiveSets(code(b), LiveOut(b))
  <2>1. /\ pc = "live" /\ b >= 1 /\ \A s \in succ(b) : L[s] # nil
        /\ L' = [L EXCEPT ![b] = live] /\ f' = f
    BY <1>4 DEF LiveBlock, LiveOut
  <2>2. /\ DOMAIN f.blocks = 1..Len(f.blocks) /\ Len(f.blocks) \in Nat
        /\ DOMAIN L = DOMAIN f.blocks /\ b \in DOMAIN L
    BY <2>1, ProgramParts DEF LiveInv
  <2>3. /\ Len(code(b)) \in Nat /\ succ(b) \subseteq DOMAIN L
        /\ \A s \in succ(b) : Len(code(s)) \in Nat
        /\ \A k \in 1..Len(code(b)) : src(code(b)[k]) \subseteq Operand
    BY <2>2, ProgramParts
  <2>4. LiveOut(b) \in SUBSET Operand
    <3> SUFFICES ASSUME NEW s \in succ(b) PROVE L[s][1] \subseteq Operand
      BY DEF LiveOut
    <3>1. L[s] \in [1..(Len(code(s)) + 1) -> SUBSET Operand]
      BY <2>1, <2>3 DEF LiveTyped
    <3>2. 1 \in 1..(Len(code(s)) + 1)
      BY <2>3
    <3> QED
      BY <3>1, <3>2
  <2>5. live \in [1..(Len(code(b)) + 1) -> SUBSET Operand]
    BY <2>3, <2>4, LiveSetsType
  <2> HIDE DEF live
  <2> QED
    BY <1>1, <1>2, <2>1, <2>2, <2>5 DEF LiveTyped
<1> QED
  BY <1>3, <1>4 DEF Next, LivePanic, LiveDone, Define, NoNode, Call, NextBlock,
                    Precolour, Colour1, Done, vars

(***************************************************************************)
(* The state of regalloc has its shape, for every program: a block's live  *)
(* sets are one more than its instructions and hold operands, and every    *)
(* colorNode refers to nodes only (reg.go:15-28, 69-244).                  *)
(***************************************************************************)
THEOREM TypeOKHolds == Spec => []TypeOK
<1>1. Init => LiveTyped
  BY DEF Init, Start, LiveTyped
<1>2. AllocInv => IsProgram(f)
  BY DEF AllocInv, PositionInv
<1>3. Spec => []LiveTyped
  BY <1>1, <1>2, LiveTypedStep, AllocInvariant, LiveInvariant, PTL DEF Spec
<1>4. AllocInv /\ LiveInv /\ LiveTyped => TypeOK
  <2> SUFFICES ASSUME AllocInv, LiveInv, LiveTyped PROVE TypeOK
    OBVIOUS
  <2>1. PositionInv /\ GraphInv
    BY DEF AllocInv
  <2> QED
    BY <2>1 DEF TypeOK, LiveInv, LiveTyped, PositionInv, GraphInv
<1> QED
  BY <1>3, <1>4, AllocInvariant, LiveInvariant, PTL

-----------------------------------------------------------------------------
(* Within a block: live is what is read before it is written, and what is  *)
(* live at the end and written nowhere                                     *)

LEMMA ReadOrKept ==
  ASSUME NEW j, Len(code(j)) \in Nat, NEW v, NEW k \in 1..Len(code(j))
  PROVE  /\ ReadFrom(v, j, k) <=> \/ v \in src(code(j)[k])
                                  \/ v \notin dest(code(j)[k]) /\ ReadFrom(v, j, k + 1)
         /\ KeptFrom(v, j, k) <=> v \notin dest(code(j)[k]) /\ KeptFrom(v, j, k + 1)
         /\ ~ReadFrom(v, j, Len(code(j)) + 1) /\ KeptFrom(v, j, Len(code(j)) + 1)
<1> DEFINE N == Len(code(j))
<1>1. k..N = {k} \cup (k + 1)..N /\ k \in Nat /\ (N + 1)..N = {}
  OBVIOUS
<1>2. ASSUME ReadFrom(v, j, k)
      PROVE  v \in src(code(j)[k]) \/ (v \notin dest(code(j)[k]) /\ ReadFrom(v, j, k + 1))
  <2>1. PICK q \in k..N : /\ v \in src(code(j)[q])
                          /\ \A m \in k..(q - 1) : v \notin dest(code(j)[m])
    BY <1>2 DEF ReadFrom
  <2>2. CASE q = k
    BY <2>1, <2>2
  <2>3. CASE q # k
    <3>1. q \in (k + 1)..N /\ k \in k..(q - 1) /\ (k + 1)..(q - 1) \subseteq k..(q - 1)
      BY <1>1, <2>3
    <3>2. v \notin dest(code(j)[k]) /\ \A m \in (k + 1)..(q - 1) : v \notin dest(code(j)[m])
      BY <2>1, <3>1
    <3> QED
      BY <2>1, <3>1, <3>2 DEF ReadFrom
  <2> QED
    BY <2>2, <2>3
<1>3. ASSUME v \in src(code(j)[k]) PROVE ReadFrom(v, j, k)
  <2>1. k \in k..N /\ k..(k - 1) = {}
    BY <1>1
  <2> QED
    BY <1>3, <2>1 DEF ReadFrom
<1>4. ASSUME v \notin dest(code(j)[k]), ReadFrom(v, j, k + 1) PROVE ReadFrom(v, j, k)
  <2>1. PICK q \in (k + 1)..N : /\ v \in src(code(j)[q])
                                /\ \A m \in (k + 1)..(q - 1) : v \notin dest(code(j)[m])
    BY <1>4 DEF ReadFrom
  <2>2. q \in k..N /\ k..(q - 1) = {k} \cup (k + 1)..(q - 1)
    BY <1>1
  <2>3. \A m \in k..(q - 1) : v \notin dest(code(j)[m])
    BY <1>4, <2>1, <2>2
  <2> QED
    BY <2>1, <2>2, <2>3 DEF ReadFrom
<1>5. KeptFrom(v, j, k) <=> v \notin dest(code(j)[k]) /\ KeptFrom(v, j, k + 1)
  BY <1>1 DEF KeptFrom
<1>6. ~ReadFrom(v, j, N + 1) /\ KeptFrom(v, j, N + 1)
  BY <1>1 DEF ReadFrom, KeptFrom
<1> QED
  BY <1>2, <1>3, <1>4, <1>5, <1>6

LEMMA WithinBlock ==
  ASSUME NEW j, Len(code(j)) \in Nat, Settled(j), NEW v, NEW k \in 1..Len(code(j))
  PROVE  v \in L[j][k] <=> \/ ReadFrom(v, j, k)
                           \/ KeptFrom(v, j, k) /\ v \in LiveOut(j)
<1> DEFINE N == Len(code(j))
           P(x) == v \in L[j][x] <=> \/ ReadFrom(v, j, x)
                                     \/ KeptFrom(v, j, x) /\ v \in LiveOut(j)
           T == {m \in Nat : m < N /\ ~P(N - m)}
<1>1. ASSUME T # {} PROVE FALSE
  <2>1. PICK m \in T : \A y \in T : m <= y
    BY <1>1, Least
  <2>2. PICK x \in 1..N : x = N - m
    BY <2>1
  <2>3. L[j][x] = ((IF x = N THEN LiveOut(j) ELSE L[j][x + 1])
                     \ dest(code(j)[x])) \cup src(code(j)[x])
    BY DEF Settled
  <2>4. /\ ReadFrom(v, j, x) <=> \/ v \in src(code(j)[x])
                                 \/ v \notin dest(code(j)[x]) /\ ReadFrom(v, j, x + 1)
        /\ KeptFrom(v, j, x) <=> v \notin dest(code(j)[x]) /\ KeptFrom(v, j, x + 1)
        /\ ~ReadFrom(v, j, N + 1) /\ KeptFrom(v, j, N + 1)
    BY ReadOrKept
  <2>5. CASE x = N
    <3>1. P(x)
      BY <2>3, <2>4, <2>5
    <3> QED
      BY <2>1, <2>2, <3>1
  <2>6. CASE x # N
    <3>1. m - 1 \in Nat /\ m - 1 < N /\ ~(m <= m - 1) /\ N - (m - 1) = x + 1
      BY <2>1, <2>2, <2>6
    <3>2. P(x + 1)
      BY <2>1, <3>1
    <3>3. P(x)
      BY <2>3, <2>4, <2>6, <3>2
    <3> QED
      BY <2>1, <2>2, <3>3
  <2> QED
    BY <2>5, <2>6
<1>2. N - k \in Nat /\ N - k < N /\ N - (N - k) = k
  OBVIOUS
<1>3. P(k)
  BY <1>1, <1>2
<1> QED
  BY <1>3

-----------------------------------------------------------------------------
(* Along the graph of blocks                                               *)

\* What within[n] is in Needing(v), and that g is within up to m.
WithinAt(v, g, n) ==
  IF n = 0 THEN {j \in DOMAIN f.blocks : ReadFrom(v, j, 1)}
  ELSE g[n - 1] \cup {j \in DOMAIN f.blocks : KeptFrom(v, j, 1) /\ succ(j) \cap g[n - 1] # {}}

IsWithin(v, g, m) == g = [n \in 0..m |-> WithinAt(v, g, n)]

LEMMA WithinExtends ==
  ASSUME NEW v, NEW m \in Nat, NEW g, IsWithin(v, g, m)
  PROVE  \E h : IsWithin(v, h, m + 1)
<1> DEFINE h == [n \in 0..(m + 1) |-> IF n = m + 1 THEN WithinAt(v, g, m + 1) ELSE g[n]]
<1>1. \A n \in 0..m : g[n] = WithinAt(v, g, n)
  BY DEF IsWithin
<1>2. \A n \in 0..m : n \in 0..(m + 1) /\ n # m + 1 /\ (n # 0 => n - 1 \in 0..m)
  OBVIOUS
<1>3. \A n \in 0..m : h[n] = g[n]
  BY <1>2
<1>4. \A n \in 0..(m + 1) : h[n] = WithinAt(v, h, n)
  <2> SUFFICES ASSUME NEW n \in 0..(m + 1) PROVE h[n] = WithinAt(v, h, n)
    OBVIOUS
  <2>1. h[n] = WithinAt(v, g, n)
    <3>1. n = m + 1 \/ n \in 0..m
      OBVIOUS
    <3>2. n = m + 1 => h[n] = WithinAt(v, g, n)
      OBVIOUS
    <3> QED
      BY <1>1, <1>3, <3>1, <3>2
  <2>2. n # 0 => h[n - 1] = g[n - 1]
    <3>1. n # 0 => n - 1 \in 0..m
      OBVIOUS
    <3> QED
      BY <1>3, <3>1
  <2> HIDE DEF h
  <2> QED
    BY <2>1, <2>2 DEF WithinAt
<1>5. h = [n \in 0..(m + 1) |-> h[n]]
  OBVIOUS
<1> HIDE DEF h
<1>6. h = [n \in 0..(m + 1) |-> WithinAt(v, h, n)]
  BY <1>4, <1>5
<1> QED
  BY <1>6 DEF IsWithin

LEMMA WithinExists == ASSUME NEW v, NEW m \in Nat PROVE \E g : IsWithin(v, g, m)
<1> DEFINE T == {n \in Nat : ~\E g : IsWithin(v, g, n)}
<1>1. ASSUME T # {} PROVE FALSE
  <2>1. PICK n \in T : \A y \in T : n <= y
    BY <1>1, Least
  <2>2. n # 0
    <3> DEFINE A == WithinAt(v, <<>>, 0)
               g == [x \in 0..0 |-> A]
    <3>1. \A h : WithinAt(v, h, 0) = A
      BY DEF WithinAt
    <3>2. \A x \in 0..0 : x = 0
      OBVIOUS
    <3> HIDE DEF A
    <3>3. \A x \in 0..0 : A = WithinAt(v, g, x)
      BY <3>1, <3>2
    <3>4. g = [x \in 0..0 |-> WithinAt(v, g, x)]
      BY <3>3
    <3> HIDE DEF g
    <3>5. IsWithin(v, g, 0)
      BY <3>4 DEF IsWithin
    <3> QED
      BY <2>1, <3>5
  <2>3. n - 1 \in Nat /\ n - 1 \notin T /\ (n - 1) + 1 = n
    BY <2>1, <2>2
  <2>4. PICK g : IsWithin(v, g, n - 1)
    BY <2>3
  <2>5. \E h : IsWithin(v, h, (n - 1) + 1)
    BY <2>3, <2>4, WithinExtends
  <2> QED
    BY <2>1, <2>3, <2>5
<1> QED
  BY <1>1

LEMMA NeedingIs ==
  ASSUME NEW v, Len(f.blocks) \in Nat
  PROVE  \E g : IsWithin(v, g, Len(f.blocks)) /\ Needing(v) = g[Len(f.blocks)]
<1> DEFINE M == Len(f.blocks)
           Fits(g) == g = [n \in 0..M |->
                             IF n = 0 THEN {j \in DOMAIN f.blocks : ReadFrom(v, j, 1)}
                             ELSE g[n - 1] \cup {j \in DOMAIN f.blocks :
                                      KeptFrom(v, j, 1) /\ succ(j) \cap g[n - 1] # {}}]
           g == CHOOSE g : Fits(g)
<1>1. \A h : IsWithin(v, h, M) <=> Fits(h)
  BY Zenon DEF IsWithin, WithinAt
<1>2. \E h : Fits(h)
  <2> HIDE DEF Fits
  <2>1. \E h : IsWithin(v, h, M)
    BY WithinExists
  <2> QED
    BY <1>1, <2>1, Zenon
<1>3. Needing(v) = g[M]
  BY Zenon DEF Needing
<1>4. Fits(g)
  <2> HIDE DEF Fits
  <2> QED
    BY <1>2, Zenon
<1> HIDE DEF Fits, g
<1> QED
  BY <1>1, <1>3, <1>4

\* A block needs v when it begins exactly if its first live set has v: a way
\* to a read visits later and later blocks, so that there are enough steps.
LEMMA NeedingLive ==
  ASSUME IsProgram(f), NoEmptyBlock(f), DOMAIN L = DOMAIN f.blocks,
         \A j \in DOMAIN f.blocks : Settled(j), NEW v
  PROVE  Needing(v) = {j \in DOMAIN f.blocks : v \in L[j][1]}
<1> DEFINE M == Len(f.blocks)
           blocks == DOMAIN f.blocks
<1>1. /\ M \in Nat /\ blocks = 1..M
      /\ \A j \in blocks : Len(code(j)) \in Nat /\ succ(j) \subseteq blocks
  BY ProgramParts
<1>2. \A j \in blocks : 1 \in 1..Len(code(j))
  <2> TAKE j \in blocks
  <2>1. code(j) \in Seq(Instr) /\ code(j) # <<>>
    BY Blocks DEF NoEmptyBlock, code
  <2> QED
    BY <2>1
<1>3. PICK g : IsWithin(v, g, M) /\ Needing(v) = g[M]
  BY <1>1, NeedingIs
<1>4. \A n \in 0..M : g[n] = WithinAt(v, g, n)
  BY <1>3 DEF IsWithin
<1>5. \A j \in blocks : v \in L[j][1] <=> \/ ReadFrom(v, j, 1)
                                          \/ KeptFrom(v, j, 1) /\ v \in LiveOut(j)
  <2> TAKE j \in blocks
  <2>1. Len(code(j)) \in Nat /\ Settled(j) /\ 1 \in 1..Len(code(j))
    BY <1>1, <1>2
  <2> QED
    BY <2>1, WithinBlock
<1>6. /\ g[0] = {j \in blocks : ReadFrom(v, j, 1)}
      /\ \A n \in 1..M :
           g[n] = g[n - 1] \cup {j \in blocks : KeptFrom(v, j, 1) /\ succ(j) \cap g[n - 1] # {}}
  <2>1. 0 \in 0..M /\ \A n \in 1..M : n \in 0..M /\ n # 0
    BY <1>1
  <2> QED
    BY <1>4, <2>1 DEF WithinAt
<1> HIDE DEF M, blocks
<1>7. \A n \in 0..M : g[n] \subseteq {j \in blocks : v \in L[j][1]}
  <2> DEFINE T == {n \in Nat : n <= M /\ ~(g[n] \subseteq {j \in blocks : v \in L[j][1]})}
  <2>1. ASSUME T # {} PROVE FALSE
    <3>1. PICK n \in T : \A y \in T : n <= y
      BY <2>1, Least
    <3>2. n # 0
      <4>1. g[0] \subseteq {j \in blocks : v \in L[j][1]}
        BY <1>5, <1>6
      <4> QED
        BY <3>1, <4>1
    <3>3. n \in 1..M /\ n - 1 \in Nat /\ n - 1 <= M /\ ~(n <= n - 1)
      BY <1>1, <3>1, <3>2
    <3>4. g[n - 1] \subseteq {j \in blocks : v \in L[j][1]}
      BY <3>1, <3>3
    <3>5. ASSUME NEW j \in g[n] PROVE j \in blocks /\ v \in L[j][1]
      <4>1. j \in g[n - 1] \/ (j \in blocks /\ KeptFrom(v, j, 1) /\ succ(j) \cap g[n - 1] # {})
        BY <1>6, <3>3, <3>5
      <4>2. ASSUME j \in blocks, KeptFrom(v, j, 1), NEW s \in succ(j) \cap g[n - 1]
            PROVE  v \in L[j][1]
        BY <1>5, <3>4, <4>2 DEF LiveOut
      <4> QED
        BY <3>4, <4>1, <4>2
    <3> QED
      BY <3>1, <3>5
  <2> QED
    BY <1>1, <2>1
<1>8. \A n \in 0..M : \A a \in 0..n : g[a] \subseteq g[n]
  <2> DEFINE T == {n \in Nat : n <= M /\ ~\A a \in 0..n : g[a] \subseteq g[n]}
  <2>1. ASSUME T # {} PROVE FALSE
    <3>1. PICK n \in T : \A y \in T : n <= y
      BY <2>1, Least
    <3>2. PICK a \in 0..n : ~(g[a] \subseteq g[n])
      BY <3>1
    <3>3. /\ n \in 1..M /\ n - 1 \in Nat /\ n - 1 <= M /\ ~(n <= n - 1)
          /\ a \in 0..(n - 1)
      BY <1>1, <3>1, <3>2
    <3>4. g[a] \subseteq g[n - 1]
      BY <3>1, <3>3
    <3>5. g[n - 1] \subseteq g[n]
      BY <1>6, <3>3
    <3> QED
      BY <3>2, <3>4, <3>5
  <2> QED
    BY <1>1, <2>1
<1>9. \A j \in blocks : v \in L[j][1] => j \in g[M - j]
  <2> DEFINE T == {m \in Nat : m < M /\ v \in L[M - m][1] /\ M - m \notin g[m]}
  <2>1. ASSUME T # {} PROVE FALSE
    <3>1. PICK m \in T : \A y \in T : m <= y
      BY <2>1, Least
    <3>2. PICK j \in blocks : j = M - m
      BY <1>1, <3>1
    <3>3. m \in 0..M /\ M - j = m /\ j \in Nat
      BY <1>1, <3>1, <3>2
    <3>4. ~ReadFrom(v, j, 1)
      <4>1. g[0] \subseteq g[m]
        BY <1>8, <3>3
      <4> QED
        BY <1>6, <3>1, <3>2, <4>1
    <3>5. KeptFrom(v, j, 1) /\ v \in LiveOut(j)
      BY <1>5, <3>1, <3>2, <3>4
    <3>6. PICK s \in succ(j) : v \in L[s][1]
      BY <3>5 DEF LiveOut
    <3>7. s \in blocks /\ s > j
      BY <1>1, <3>2, <3>6 DEF Settled, blocks
    <3>8. /\ M - s \in Nat /\ M - s < M /\ ~(m <= M - s) /\ M - (M - s) = s
          /\ m - 1 \in 0..M /\ M - s \in 0..(m - 1) /\ m \in 1..M
      BY <1>1, <3>2, <3>3, <3>7
    <3>9. s \in g[M - s]
      BY <3>1, <3>6, <3>8
    <3>10. s \in g[m - 1]
      BY <1>8, <3>8, <3>9
    <3>11. j \in g[m]
      BY <1>6, <3>5, <3>6, <3>8, <3>10
    <3> QED
      BY <3>1, <3>2, <3>11
  <2>2. ASSUME NEW j \in blocks, v \in L[j][1] PROVE j \in g[M - j]
    <3>1. M - j \in Nat /\ M - j < M /\ M - (M - j) = j
      BY <1>1, <2>2
    <3> QED
      BY <2>1, <2>2, <3>1
  <2> QED
    BY <2>2
<1>10. \A j \in blocks : v \in L[j][1] => j \in g[M]
  <2> TAKE j \in blocks
  <2>1. M \in 0..M /\ M - j \in 0..M
    BY <1>1
  <2> QED
    BY <1>8, <1>9, <2>1
<1>11. M \in 0..M
  BY <1>1
<1>12. g[M] = {j \in blocks : v \in L[j][1]}
  BY <1>7, <1>10, <1>11
<1> QED
  BY <1>3, <1>12 DEF M, blocks

-----------------------------------------------------------------------------
(* The theorems                                                            *)

LEMMA ProgramsKept == Spec => [](f \in Programs)
<1> DEFINE I == f \in Programs
<1>1. Init => I
  BY DEF Init
<1>2. I /\ [Next]_vars => I'
  BY DEF Next, LiveBlock, LivePanic, LiveDone, Define, NoNode, Call, NextBlock,
         Precolour, Colour1, Done, vars
<1>3. Spec => []I
  <2> HIDE DEF I
  <2> QED
    BY <1>1, <1>2, PTL DEF Spec
<1> QED
  BY <1>3

(***************************************************************************)
(* For every program without empty blocks, one pass over the blocks finds  *)
(* exactly what is live: a variable is live after an instruction if and    *)
(* only if some way through the program reads it before it writes it       *)
(* (reg.go:69-81, 280-308).                                                *)
(***************************************************************************)
THEOREM LivenessExactHolds ==
  ASSUME \A p \in Programs : NoEmptyBlock(p)
  PROVE  Spec => []LivenessExact
<1>1. ASSUME AllocInv, LiveInv, f \in Programs PROVE LivenessExact
  <2> SUFFICES ASSUME pc = "graph", NEW v, NEW p \in Places, p[2] < Len(code(p[1]))
               PROVE  v \in LiveAfter(p) <=>
                        \/ ReadFrom(v, p[1], p[2] + 1)
                        \/ /\ KeptFrom(v, p[1], p[2] + 1)
                           /\ succ(p[1]) \cap Needing(v) # {}
    BY DEF LivenessExact
  <2>1. IsProgram(f) /\ NoEmptyBlock(f)
    BY <1>1 DEF AllocInv, PositionInv
  <2>2. DOMAIN L = DOMAIN f.blocks /\ \A j \in DOMAIN f.blocks : Settled(j)
    BY <1>1 DEF LiveInv, Made
  <2>3. Needing(v) = {j \in DOMAIN f.blocks : v \in L[j][1]}
    BY <2>1, <2>2, NeedingLive
  <2>4. /\ p[1] \in DOMAIN f.blocks /\ p[2] \in Nat \ {0}
        /\ Len(code(p[1])) \in Nat /\ succ(p[1]) \subseteq DOMAIN f.blocks
    BY <2>1, PlaceFacts, ProgramParts
  <2>5. v \in LiveOut(p[1]) <=> succ(p[1]) \cap Needing(v) # {}
    BY <2>3, <2>4 DEF LiveOut
  <2>6. p[2] + 1 \in 1..Len(code(p[1]))
    BY <2>4
  <2> QED
    BY <2>2, <2>4, <2>5, <2>6, WithinBlock DEF LiveAfter
<1> QED
  BY <1>1, AllocInvariant, LiveInvariant, ProgramsKept, PTL

LEMMA AllHome ==
  ASSUME AllocInv, f \in Programs, \A p \in Programs : WritesAll(p)
  PROVE  EveryVarHasHome
<1> SUFFICES ASSUME pc = "done", NEW p \in Places, NEW v \in Args(At(p)), isVar(v)
             PROVE  v \in G /\ Reg[v] >= 0
  BY DEF EveryVarHasHome
<1>1. At(p) \in Instrs(f)
  BY DEF Places, At, Instrs, code
<1>2. WritesAll(f)
  OBVIOUS
<1>3. PICK op \in Instrs(f) : v \in dest(op)
  BY <1>1, <1>2 DEF WritesAll
<1>4. PICK q \in Places : op = At(q)
  <2>1. PICK j \in DOMAIN f.blocks : \E k \in DOMAIN f.blocks[j].code : op = f.blocks[j].code[k]
    BY DEF Instrs
  <2>2. PICK k \in DOMAIN f.blocks[j].code : op = f.blocks[j].code[k]
    BY <2>1
  <2>3. <<j, k>> \in Places /\ At(<<j, k>>) = op
    BY <2>2 DEF Places, At, code
  <2> QED
    BY <2>3
<1>5. Made /\ q \in Met
  BY DEF Made, Met
<1>6. v \in G
  BY <1>3, <1>4, <1>5 DEF AllocInv, NodesInv, Allocatable
<1>7. Reg[v] # -1 /\ Reg[v] \in Nat \cup {-1}
  BY <1>6 DEF AllocInv, ColourInv, S, GraphInv
<1> QED
  BY <1>6, <1>7

(***************************************************************************)
(* For every program that writes each variable it names, every variable    *)
(* it names has a register or a spill number when regalloc returns         *)
(* (reg.go:97-123, 217-244), so that gethome never falls back on 0.        *)
(***************************************************************************)
THEOREM EveryVarHasHomeHolds ==
  ASSUME \A p \in Programs : WritesAll(p)
  PROVE  Spec => []EveryVarHasHome
<1>1. AllocInv /\ f \in Programs => EveryVarHasHome
  BY AllHome
<1> QED
  BY <1>1, AllocInvariant, ProgramsKept, PTL
=============================================================================
