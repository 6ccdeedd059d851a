---------------------------- MODULE BackendProof ----------------------------
(***************************************************************************)
(* Theorems about assignHomes: whatever the program and however many       *)
(* registers there are, no instruction writes where a variable lives that  *)
(* is still needed, and every slot is in the frame.  Slots are numbered in *)
(* the order the code comes to them, so that the numbering is one to one   *)
(* because a place of the code comes before, after or is another.          *)
(*                                                                         *)
(* Then, of what addStackFrameInstructions and patchInstructions make of   *)
(* the code: what its instructions are (lemmas AssignCode, FrameCode and   *)
(* PatchCode), which module FrameProof rests on.                           *)
(***************************************************************************)
EXTENDS ExecuteInv, RegAllocLiveProof, SequenceTheorems

\* The registers of sysvRegisters are not none: 0, which is its own negative,
\* is never the number of a slot.
SomeRegisters == Registers # <<>>

-----------------------------------------------------------------------------
(* A register among the nodes                                              *)

LEMMA PrecolouredStep ==
  ASSUME AllocInv, PrecolouredInv, [Next]_vars
  PROVE  PrecolouredInv'
<1>1. \A n : Colour(n[2])' = Colour(n[2]) /\ (isVar(n)' <=> isVar(n))
  BY DEF Colour, Colours, isVar
<1>2. CASE G' = G /\ Reg' = Reg
  BY <1>1, <1>2 DEF PrecolouredInv
<1>3. CASE AtInstr /\ \E dst \in dest(l) : Define(dst)
  <2>1. PICK dst \in dest(l) : Define(dst)
    BY <1>3
  <2>2. PICK r \in IF isVar(dst) THEN {-1} ELSE Colour(dst[2]) : Reg' = Insert(Reg, dst, r)
    BY <2>1 DEF Define
  <2>3. G' = G \cup {dst}
    BY <2>1 DEF Define
  <2>4. \A n \in G' : Reg'[n] = IF n \in G THEN Reg[n] ELSE r
    BY <2>2, <2>3 DEF Insert
  <2>5. \A n \in G' : n \in G \/ n = dst
    BY <2>3
  <2> QED
    BY <1>1, <2>2, <2>4, <2>5 DEF PrecolouredInv
<1>4. CASE \E x \in G : Colour1(x)
  <2>1. PICK x \in G : Colour1(x)
    BY <1>4
  <2>2. PICK r \in Free(x) : Reg' = [Reg EXCEPT ![x] = r]
    BY <2>1 DEF Colour1
  <2>3. G' = G /\ Reg[x] = -1 /\ Reg \in [G -> Nat \cup {-1}]
    BY <2>1 DEF Colour1, S, AllocInv, GraphInv
  <2>4. \A n \in G : n # x => Reg'[n] = Reg[n]
    BY <2>2, <2>3
  <2>5. isVar(x)
    BY <2>3, Numbers DEF PrecolouredInv
  <2> QED
    BY <1>1, <2>3, <2>4, <2>5 DEF PrecolouredInv
<1> QED
  BY <1>2, <1>3, <1>4 DEF Next, LiveBlock, LivePanic, LiveDone, NoNode, Call, NextBlock,
                          Precolour, Done, vars, graph

-----------------------------------------------------------------------------
(* The order of the code                                                   *)

LEMMA MentionFacts ==
  ASSUME IsProgram(f), NEW m \in Mentions
  PROVE  /\ m = <<m[1], m[2]>> /\ m[1] = <<m[1][1], m[1][2]>>
         /\ m[1] \in Places /\ m[2] \in DOMAIN At(m[1]).args
         /\ m[1][1] \in Nat /\ m[1][2] \in Nat /\ m[2] \in Nat
         /\ isVar(At(m[1]).args[m[2]]) /\ Spilled(At(m[1]).args[m[2]])
         /\ KeyAt(m) \in Keys
<1>1. PICK p \in Places : \E n \in DOMAIN At(p).args :
        m = <<p, n>> /\ isVar(At(p).args[n]) /\ Spilled(At(p).args[n])
  BY DEF Mentions
<1>2. PICK n \in DOMAIN At(p).args :
        m = <<p, n>> /\ isVar(At(p).args[n]) /\ Spilled(At(p).args[n])
  BY <1>1
<1>3. p = <<p[1], p[2]>> /\ p[1] \in Nat /\ p[2] \in Nat
      /\ p[1] \in DOMAIN f.blocks /\ p[2] \in DOMAIN code(p[1])
  BY PlaceFacts
<1>4. At(p) \in Instr
  BY <1>3, Blocks, SeqElement DEF At
<1>5. At(p).args \in Seq(Operand)
  BY <1>4 DEF Instr
<1>6. n \in Nat
  BY <1>2, <1>5, SeqElement
<1>7. m[1] = p /\ m[2] = n
  BY <1>2
<1> QED
  BY <1>2, <1>3, <1>6, <1>7 DEF Keys

LEMMA EarlierOrders ==
  ASSUME IsProgram(f)
  PROVE  /\ \A m, o \in Mentions : m = o \/ Earlier(m, o) \/ Earlier(o, m)
         /\ \A m, o \in Mentions : Earlier(m, o) => ~Earlier(o, m) /\ m # o
         /\ \A m, o, q \in Mentions : Earlier(m, o) /\ Earlier(o, q) => Earlier(m, q)
<1>1. ASSUME NEW m \in Mentions, NEW o \in Mentions
      PROVE  m = o \/ Earlier(m, o) \/ Earlier(o, m)
  BY MentionFacts DEF Earlier, Before
<1>2. ASSUME NEW m \in Mentions, NEW o \in Mentions, Earlier(m, o)
      PROVE  ~Earlier(o, m) /\ m # o
  BY <1>2, MentionFacts DEF Earlier, Before
<1>3. ASSUME NEW m \in Mentions, NEW o \in Mentions, NEW q \in Mentions,
             Earlier(m, o), Earlier(o, q)
      PROVE  Earlier(m, q)
  BY <1>3, MentionFacts DEF Earlier, Before
<1> QED
  BY <1>1, <1>2, <1>3

\* The code comes to every key a first time.
LEMMA First ==
  ASSUME IsProgram(f), NEW key \in Keys
  PROVE  \E m \in Mentions : /\ KeyAt(m) = key
                             /\ \A o \in Mentions : KeyAt(o) = key => o = m \/ Earlier(m, o)
<1> DEFINE M == {m \in Mentions : KeyAt(m) = key}
<1>1. M # {} /\ \A m \in M : /\ m[1][1] \in Nat /\ m[1][2] \in Nat /\ m[2] \in Nat
  BY MentionFacts DEF Keys
<1>2. PICK j \in Nat : (\E m \in M : m[1][1] = j) /\ \A m \in M : j <= m[1][1]
  <2> DEFINE T == {m[1][1] : m \in M}
  <2>1. T \in SUBSET Nat /\ T # {}
    BY <1>1
  <2> HIDE DEF T
  <2>2. PICK j \in T : \A y \in T : j <= y
    BY <2>1, Least
  <2> QED
    BY <2>1, <2>2 DEF T
<1> DEFINE MJ == {m \in M : m[1][1] = j}
<1>3. MJ # {} /\ \A m \in MJ : m[1][2] \in Nat
  BY <1>1, <1>2
<1>4. PICK k \in Nat : (\E m \in MJ : m[1][2] = k) /\ \A m \in MJ : k <= m[1][2]
  <2> DEFINE T == {m[1][2] : m \in MJ}
  <2>1. T \in SUBSET Nat /\ T # {}
    BY <1>3
  <2> HIDE DEF T
  <2>2. PICK k \in T : \A y \in T : k <= y
    BY <2>1, Least
  <2> QED
    BY <2>1, <2>2 DEF T
<1> DEFINE MK == {m \in MJ : m[1][2] = k}
<1>5. MK # {} /\ \A m \in MK : m[2] \in Nat
  BY <1>1, <1>4
<1>6. PICK n \in Nat : (\E m \in MK : m[2] = n) /\ \A m \in MK : n <= m[2]
  <2> DEFINE T == {m[2] : m \in MK}
  <2>1. T \in SUBSET Nat /\ T # {}
    BY <1>5
  <2> HIDE DEF T
  <2>2. PICK n \in T : \A y \in T : n <= y
    BY <2>1, Least
  <2> QED
    BY <2>1, <2>2 DEF T
<1>7. PICK x \in MK : x[2] = n
  BY <1>6
<1>8. x \in Mentions /\ KeyAt(x) = key /\ x[1][1] = j /\ x[1][2] = k
  BY <1>7
<1>9. ASSUME NEW o \in Mentions, KeyAt(o) = key PROVE ~Earlier(o, x)
  <2>1. o[1][1] \in Nat /\ o[1][2] \in Nat /\ o[2] \in Nat
        /\ x[1][1] \in Nat /\ x[1][2] \in Nat /\ x[2] \in Nat
    BY <1>8, MentionFacts
  <2>2. j <= o[1][1]
    BY <1>2, <1>9
  <2>3. o[1][1] = j => k <= o[1][2]
    BY <1>4, <1>9
  <2>4. o[1][1] = j /\ o[1][2] = k => n <= o[2]
    BY <1>6, <1>9
  <2> QED
    BY <1>7, <1>8, <2>1, <2>2, <2>3, <2>4 DEF Earlier, Before
<1> QED
  BY <1>8, <1>9, EarlierOrders

-----------------------------------------------------------------------------
(* Keys and slots                                                          *)

\* When every node has its number, what spills is a node with a number past
\* the registers, and its key says on which stack it goes.
LEMMA SpillFacts ==
  ASSUME AllocInv, pc = "done", SomeRegisters, NEW v, Spilled(v)
  PROVE  /\ v \in G /\ R(v) = Reg[v] /\ Reg[v] \in Nat \ {0}
         /\ Key(v) = IF v \in f.gcable THEN -Reg[v] ELSE Reg[v]
         /\ Key(v) \in Int /\ Key(v) # 0 /\ (Key(v) < 0 <=> v \in f.gcable)
<1>1. Len(Registers) \in Nat \ {0}
  BY RegistersAssumption DEF SomeRegisters
<1>2. v \in G
  BY <1>1 DEF Spilled, R
<1>3. Reg[v] \in Nat \cup {-1} /\ Reg[v] # -1
  BY <1>2 DEF AllocInv, GraphInv, ColourInv, S
<1>4. R(v) = Reg[v] /\ Reg[v] >= Len(Registers)
  BY <1>2 DEF Spilled, R
<1>5. Reg[v] \in Nat \ {0}
  BY <1>1, <1>3, <1>4
<1> QED
  BY <1>2, <1>4, <1>5 DEF Key

LEMMA KeyFacts ==
  ASSUME AllocInv, pc = "done", SomeRegisters
  PROVE  /\ IsFiniteSet(Keys) /\ IsFiniteSet(RootKeys) /\ IsFiniteSet(StackKeys)
         /\ \A k \in Keys : k \in Int /\ k # 0
<1>1. IsProgram(f) /\ IsFiniteSet(G)
  BY DEF AllocInv, PositionInv, GraphInv
<1>2. ASSUME NEW k \in Keys
      PROVE  k \in Int /\ k # 0 /\ k \in {Key(v) : v \in G}
  <2>1. PICK m \in Mentions : k = KeyAt(m)
    BY DEF Keys
  <2>2. Spilled(At(m[1]).args[m[2]])
    BY <1>1, <2>1, MentionFacts
  <2> QED
    BY <2>1, <2>2, SpillFacts DEF KeyAt
<1>3. [v \in G |-> Key(v)] \in Surjection(G, {Key(v) : v \in G})
  BY DEF Surjection
<1>4. IsFiniteSet({Key(v) : v \in G})
  BY <1>1, <1>3, FS_Surjection
<1>5. IsFiniteSet(Keys)
  BY <1>2, <1>4, FS_Subset
<1>6. IsFiniteSet(RootKeys) /\ IsFiniteSet(StackKeys)
  BY <1>5, FS_Subset DEF RootKeys, StackKeys
<1> QED
  BY <1>2, <1>5, <1>6

\* The keys that have a slot on the stack of this one.
Rank(key) == UpTo(key) \cap (IF key < 0 THEN RootKeys ELSE StackKeys)

LEMMA SlotBounds ==
  ASSUME AllocInv, pc = "done", SomeRegisters, NEW key \in Keys
  PROVE  /\ key \in Rank(key) /\ IsFiniteSet(Rank(key))
         /\ Nth(key) = Cardinality(Rank(key))
         /\ Nth(key) \in Nat /\ Nth(key) >= 1
         /\ Nth(key) <= Cardinality(IF key < 0 THEN RootKeys ELSE StackKeys)
<1>1. IsProgram(f)
  BY DEF AllocInv, PositionInv
<1>2. PICK m \in Mentions :
        /\ KeyAt(m) = key
        /\ \A o \in Mentions : KeyAt(o) = key => o = m \/ Earlier(m, o)
  BY <1>1, First
<1>3. key \in UpTo(key)
  <2>1. \A o \in Mentions : KeyAt(o) = key => ~Earlier(o, m)
    BY <1>1, <1>2, EarlierOrders
  <2> QED
    BY <1>2, <2>1 DEF UpTo
<1>4. key \in Int /\ key # 0
  BY KeyFacts
<1>5. key \in Rank(key)
  BY <1>3, <1>4 DEF Rank, RootKeys, StackKeys
<1> DEFINE Stack == IF key < 0 THEN RootKeys ELSE StackKeys
<1>6. IsFiniteSet(Stack) /\ Rank(key) \subseteq Stack
  BY KeyFacts DEF Rank
<1> HIDE DEF Stack
<1>7. IsFiniteSet(Rank(key)) /\ Cardinality(Rank(key)) <= Cardinality(Stack)
  BY <1>6, FS_Subset
<1>8. Cardinality(Rank(key)) \in Nat /\ Cardinality(Rank(key)) # 0
  BY <1>5, <1>7, FS_CardinalityType, FS_EmptySet
<1>9. Nth(key) = Cardinality(Rank(key))
  BY DEF Nth, Rank
<1> QED
  BY <1>5, <1>7, <1>8, <1>9 DEF Stack

LEMMA SlotsDiffer ==
  ASSUME AllocInv, pc = "done", SomeRegisters,
         NEW k1 \in Keys, NEW k2 \in Keys, k1 # k2, k1 < 0 <=> k2 < 0
  PROVE  Nth(k1) # Nth(k2)
<1>1. IsProgram(f)
  BY DEF AllocInv, PositionInv
<1> DEFINE IsFirst(m, k) ==
             /\ KeyAt(m) = k
             /\ \A o \in Mentions : KeyAt(o) = k => o = m \/ Earlier(m, o)
<1>2. ASSUME NEW k \in Keys PROVE \E m \in Mentions : IsFirst(m, k)
  BY <1>1, First
<1>3. PICK m1 \in Mentions : IsFirst(m1, k1)
  BY <1>2
<1>4. PICK m2 \in Mentions : IsFirst(m2, k2)
  BY <1>2
\* The one the code comes to first has the smaller number.
<1>5. ASSUME NEW a \in Keys, NEW c \in Keys, a < 0 <=> c < 0,
             NEW ma \in Mentions, IsFirst(ma, a), NEW mc \in Mentions, IsFirst(mc, c),
             Earlier(ma, mc)
      PROVE  Nth(a) # Nth(c)
  <2>1. c \notin UpTo(a)
    <3> SUFFICES ASSUME NEW m \in Mentions, KeyAt(m) = c,
                        \A o \in Mentions : KeyAt(o) = a => ~Earlier(o, m)
                 PROVE  FALSE
      BY DEF UpTo
    <3>1. m = mc \/ Earlier(mc, m)
      BY <1>5
    <3>2. Earlier(ma, m)
      BY <1>1, <1>5, <3>1, EarlierOrders
    <3> QED
      BY <1>5, <3>2
  <2>2. UpTo(a) \subseteq UpTo(c)
    <3> SUFFICES ASSUME NEW k \in UpTo(a) PROVE k \in UpTo(c)
      OBVIOUS
    <3>1. PICK m \in Mentions :
            KeyAt(m) = k /\ \A o \in Mentions : KeyAt(o) = a => ~Earlier(o, m)
      BY DEF UpTo
    <3>2. ~Earlier(ma, m)
      BY <1>5, <3>1
    <3>3. m = ma \/ Earlier(m, ma)
      BY <1>1, <3>2, EarlierOrders
    <3>4. Earlier(m, mc)
      BY <1>1, <1>5, <3>3, EarlierOrders
    <3>5. ASSUME NEW o \in Mentions, KeyAt(o) = c PROVE ~Earlier(o, m)
      <4>1. o = mc \/ Earlier(mc, o)
        BY <1>5, <3>5
      <4>2. Earlier(m, o)
        BY <1>1, <3>4, <4>1, EarlierOrders
      <4> QED
        BY <1>1, <4>2, EarlierOrders
    <3>6. k \in Keys
      BY DEF UpTo
    <3> QED
      BY <3>1, <3>5, <3>6 DEF UpTo
  <2>3. Rank(a) \subseteq Rank(c) /\ Rank(a) # Rank(c)
    <3>1. c \in Rank(c)
      BY SlotBounds
    <3>2. c \notin Rank(a)
      BY <2>1 DEF Rank
    <3>3. Rank(a) \subseteq Rank(c)
      BY <1>5, <2>2 DEF Rank
    <3> QED
      BY <3>1, <3>2, <3>3
  <2>4. Cardinality(Rank(a)) # Cardinality(Rank(c))
    BY <2>3, SlotBounds, FS_Subset
  <2> QED
    BY <2>4, SlotBounds
<1>6. m1 # m2
  BY <1>3, <1>4
<1>7. Earlier(m1, m2) \/ Earlier(m2, m1)
  BY <1>1, <1>6, EarlierOrders
<1> HIDE DEF IsFirst
<1>8. CASE Earlier(m1, m2)
  BY <1>3, <1>4, <1>5, <1>8
<1>9. CASE Earlier(m2, m1)
  BY <1>3, <1>4, <1>5, <1>9
<1> QED
  BY <1>7, <1>8, <1>9

-----------------------------------------------------------------------------
(* Homes                                                                   *)

Slot == [k \in Keys |-> Nth(k)]

LEMMA HomeFacts ==
  ASSUME AllocInv, pc = "done", SomeRegisters, NEW v \in G, Spilled(v) => Key(v) \in Keys
  PROVE  /\ R(v) = Reg[v] /\ Reg[v] \in Nat
         /\ ~Spilled(v) => /\ Reg[v] + 1 \in DOMAIN Registers
                           /\ gethome(Slot, v) = Reg64(Registers[Reg[v] + 1])
         /\ Spilled(v) /\ v \in f.gcable =>
              Key(v) = -Reg[v] /\ Key(v) < 0 /\ gethome(Slot, v) = mkmem("r15", -8 * Nth(Key(v)))
         /\ Spilled(v) /\ v \notin f.gcable =>
              Key(v) = Reg[v] /\ Key(v) > 0 /\ gethome(Slot, v) = mkmem("rsp", 8 * (Nth(Key(v)) - 1))
<1>1. R(v) = Reg[v] /\ Reg[v] \in Nat
  BY DEF R, AllocInv, GraphInv, ColourInv, S
<1>2. ASSUME ~Spilled(v)
      PROVE  /\ Reg[v] + 1 \in DOMAIN Registers
             /\ gethome(Slot, v) = Reg64(Registers[Reg[v] + 1])
  <2>1. Len(Registers) \in Nat /\ DOMAIN Registers = 1..Len(Registers)
    BY RegistersAssumption
  <2>2. Reg[v] < Len(Registers)
    BY <1>1, <1>2, <2>1 DEF Spilled
  <2> QED
    BY <1>1, <1>2, <2>1, <2>2 DEF gethome
<1>3. ASSUME Spilled(v), v \in f.gcable
      PROVE  /\ Key(v) = -Reg[v] /\ Key(v) < 0
             /\ gethome(Slot, v) = mkmem("r15", -8 * Nth(Key(v)))
  <2>1. Key(v) = -Reg[v] /\ Key(v) < 0 /\ ~(Key(v) > 0)
    BY <1>3, SpillFacts
  <2>2. Slot[Key(v)] = Nth(Key(v))
    BY <1>3 DEF Slot
  <2>3. gethome(Slot, v) = mkmem("r15", -8 * Slot[Key(v)])
    BY <1>3, <2>1 DEF gethome
  <2> QED
    BY <2>1, <2>2, <2>3
<1>4. ASSUME Spilled(v), v \notin f.gcable
      PROVE  /\ Key(v) = Reg[v] /\ Key(v) > 0
             /\ gethome(Slot, v) = mkmem("rsp", 8 * (Nth(Key(v)) - 1))
  <2>1. Key(v) = Reg[v] /\ Key(v) > 0 /\ ~(Key(v) < 0)
    BY <1>4, SpillFacts
  <2>2. Slot[Key(v)] = Nth(Key(v))
    BY <1>4 DEF Slot
  <2>3. gethome(Slot, v) = mkmem("rsp", 8 * (Slot[Key(v)] - 1))
    BY <1>4, <2>1 DEF gethome
  <2> QED
    BY <2>1, <2>2, <2>3
<1> QED
  BY <1>1, <1>2, <1>3, <1>4

\* Variables with different numbers have different homes.
LEMMA HomesDiffer ==
  ASSUME AllocInv, pc = "done", SomeRegisters,
         NEW v \in G, Spilled(v) => Key(v) \in Keys,
         NEW w \in G, Spilled(w) => Key(w) \in Keys,
         Reg[v] # Reg[w]
  PROVE  gethome(Slot, v) # gethome(Slot, w)
<1>1. CASE ~Spilled(v) /\ ~Spilled(w)
  <2>1. Reg[v] + 1 # Reg[w] + 1
    BY HomeFacts
  <2>2. Registers[Reg[v] + 1] # Registers[Reg[w] + 1]
    BY <1>1, <2>1, HomeFacts, RegistersAssumption
  <2> QED
    BY <1>1, <2>2, HomeFacts DEF Reg64
<1>2. ASSUME Spilled(v), Spilled(w), v \in f.gcable <=> w \in f.gcable
      PROVE  gethome(Slot, v) # gethome(Slot, w)
  <2>1. Key(v) # Key(w) /\ (Key(v) < 0 <=> Key(w) < 0)
    BY <1>2, HomeFacts
  <2>2. Nth(Key(v)) # Nth(Key(w))
    BY <1>2, <2>1, SlotsDiffer
  <2>3. Nth(Key(v)) \in Nat /\ Nth(Key(w)) \in Nat
    BY <1>2, SlotBounds
  <2>4. /\ -8 * Nth(Key(v)) # -8 * Nth(Key(w))
        /\ 8 * (Nth(Key(v)) - 1) # 8 * (Nth(Key(w)) - 1)
    BY <2>2, <2>3
  <2> QED
    BY <1>2, <2>4, HomeFacts DEF mkmem
<1>3. ASSUME Spilled(v), Spilled(w), ~(v \in f.gcable <=> w \in f.gcable)
      PROVE  gethome(Slot, v)[2] # gethome(Slot, w)[2]
  BY <1>3, HomeFacts DEF mkmem
<1>4. ASSUME ~(Spilled(v) <=> Spilled(w))
      PROVE  gethome(Slot, v)[1] # gethome(Slot, w)[1]
  BY <1>4, HomeFacts DEF mkmem, Reg64
<1> QED
  BY <1>1, <1>2, <1>3, <1>4

\* And a variable does not live in a register that has another number.
LEMMA HomeIsNot ==
  ASSUME AllocInv, PrecolouredInv, pc = "done", SomeRegisters,
         NEW v \in G, Spilled(v) => Key(v) \in Keys,
         NEW d \in G, isReg(d), Reg[v] # Reg[d]
  PROVE  gethome(Slot, v) # d
<1>1. ~isVar(d)
  BY DEF isVar, isReg
<1>2. Reg[d] \in Colours /\ Registers[Reg[d] + 1] = d[2]
  BY <1>1 DEF PrecolouredInv, Colour
<1>3. Reg[d] \in Nat /\ Reg[d] + 1 \in DOMAIN Registers
  BY <1>2, RegistersAssumption DEF Colours
<1>4. CASE Spilled(v)
  <2>1. gethome(Slot, v)[1] = "mem"
    BY <1>4, HomeFacts DEF mkmem
  <2> QED
    BY <2>1 DEF isReg
<1>5. CASE ~Spilled(v)
  <2>1. gethome(Slot, v)[2] = Registers[Reg[v] + 1] /\ Reg[v] + 1 \in DOMAIN Registers
    BY <1>5, HomeFacts DEF Reg64
  <2>2. Reg[v] + 1 # Reg[d] + 1
    BY <1>3, HomeFacts
  <2>3. Registers[Reg[v] + 1] # Registers[Reg[d] + 1]
    BY <1>3, <2>1, <2>2, RegistersAssumption
  <2> QED
    BY <1>2, <2>1, <2>3
<1> QED
  BY <1>4, <1>5

-----------------------------------------------------------------------------
(* assignHomes                                                             *)

Unwritten == pass = "regalloc" => asm = [j \in DOMAIN f.blocks |-> code(j)]

LEMMA Rewriting ==
  ASSUME IsProgram(f), Unwritten, AssignHomes,
         NEW p \in Places, NEW n \in DOMAIN At(p).args
  PROVE  Rewritten(p)'.args[n] = IF isVar(At(p).args[n]) THEN gethome(Slot, At(p).args[n])
                                                         ELSE At(p).args[n]
<1> DEFINE home(a) == IF isVar(a) THEN gethome(Slot, a) ELSE a
           rewrite(old) == [old EXCEPT !.args = [m \in DOMAIN @ |-> home(@[m])]]
<1>1. asm' = [j \in DOMAIN asm |-> [k \in DOMAIN asm[j] |-> rewrite(asm[j][k])]]
  BY DEF AssignHomes, Slot
<1>2. p[1] \in DOMAIN f.blocks /\ p[2] \in DOMAIN code(p[1])
  BY PlaceFacts
<1>3. asm[p[1]] = code(p[1]) /\ p[1] \in DOMAIN asm
  BY <1>2 DEF Unwritten, AssignHomes
<1>4. asm'[p[1]][p[2]] = rewrite(At(p))
  <2> HIDE DEF rewrite
  <2> QED
    BY <1>1, <1>2, <1>3 DEF At
<1>5. At(p) \in Instr
  BY <1>2, Blocks, SeqElement DEF At
<1>6. rewrite(At(p)).args = [m \in DOMAIN At(p).args |-> home(At(p).args[m])]
  BY <1>5 DEF Instr
<1> QED
  BY <1>4, <1>6 DEF Rewritten

\* A variable the code writes is the first operand of its instruction.
LEMMA Written ==
  ASSUME IsProgram(f), NEW p \in Places, NEW d \in dest(At(p))
  PROVE  /\ isVar(d) \/ isReg(d)
         /\ isVar(d) => 1 \in DOMAIN At(p).args /\ At(p).args[1] = d
<1>1. p[1] \in DOMAIN f.blocks /\ p[2] \in DOMAIN code(p[1])
  BY PlaceFacts
<1>2. At(p) \in Instr /\ (At(p).tag = "instr" => At(p).args # <<>> \/ At(p).variant = "cqto")
  <2>1. At(p) \in Instr
    BY <1>1, Blocks, SeqElement DEF At
  <2>2. At(p).tag = "instr" => At(p).args # <<>> \/ At(p).variant = "cqto"
    BY <1>1 DEF IsProgram, At, code
  <2> QED
    BY <2>1, <2>2
<1>3. CASE d = rdx
  BY <1>3 DEF rdx, Reg64, isVar, isReg
<1>4. CASE d # rdx
  <2>1. d \in Named({At(p).args[1]}) /\ At(p).tag = "instr" /\ At(p).variant # "cqto"
    BY <1>4 DEF dest
  <2>2. d = At(p).args[1] /\ (isVar(d) \/ isReg(d))
    BY <2>1 DEF Named
  <2>3. At(p).args \in Seq(Operand) /\ At(p).args # <<>>
    BY <1>2, <2>1 DEF Instr
  <2>4. 1 \in DOMAIN At(p).args
    BY <2>3
  <2> QED
    BY <2>2, <2>4
<1> QED
  BY <1>3, <1>4

LEMMA Mentioned ==
  ASSUME NEW p \in Places, NEW n \in DOMAIN At(p).args, isVar(At(p).args[n]),
         Spilled(At(p).args[n])
  PROVE  Key(At(p).args[n]) \in Keys
<1>1. <<p, n>> \in Mentions
  BY DEF Mentions
<1>2. KeyAt(<<p, n>>) = Key(At(p).args[n])
  BY DEF KeyAt
<1> QED
  BY <1>1, <1>2 DEF Keys

LEMMA ApartStep ==
  ASSUME AllocInv, PrecolouredInv, SomeRegisters, Unwritten, AssignHomes
  PROVE  HomesApart'
<1>1. pc = "done" /\ f' = f /\ L' = L /\ IsProgram(f)
  BY DEF AssignHomes, AllocInv, PositionInv, vars
<1>2. /\ Places' = Places
      /\ \A p : At(p)' = At(p) /\ LiveAfter(p)' = LiveAfter(p) /\ DefinedBy(p)' = DefinedBy(p)
      /\ \A p : dest(At(p))' = dest(At(p))
  <2>1. \A p : dest(At(p))' = dest(At(p))
    BY <1>1, SameProgram DEF dest, rdx, Reg64, Named, isVar, isReg
  <2> QED
    BY <1>1, <2>1, SameProgram
<1>3. ASSUME NEW p \in Places, NEW d \in dest(At(p)), NEW v \in LiveAfter(p) \cap DefinedBy(p),
             Apart(p, d, v),
             NEW q \in Places, NEW n \in DOMAIN At(q).args, At(q).args[n] = v
      PROVE  Rewritten(q)'.args[n] # (IF isVar(d) THEN Rewritten(p)'.args[1] ELSE d)
  <2>1. Reg[d] # Reg[v]
    BY <1>1, <1>3, AllocNoClobber DEF NoClobber, Apart
  <2>2. Made /\ p \in Met /\ isVar(v)
    BY <1>1, <1>3 DEF Made, Met, Apart
  <2>3. d \in G /\ v \in G
    <3>1. d \in G
      BY <1>3, <2>2 DEF AllocInv, NodesInv, Apart
    <3>2. v \in G
      BY <1>3, <2>2, Known
    <3> QED
      BY <3>1, <3>2
  <2>4. Spilled(v) => Key(v) \in Keys
    BY <1>3, <2>2, Mentioned
  <2>5. Rewritten(q)'.args[n] = gethome(Slot, v)
    BY <1>1, <1>3, <2>2, Rewriting
  <2>6. CASE isVar(d)
    <3>1. 1 \in DOMAIN At(p).args /\ At(p).args[1] = d
      BY <1>1, <1>3, <2>6, Written
    <3>2. Spilled(d) => Key(d) \in Keys
      BY <1>3, <2>6, <3>1, Mentioned
    <3>3. Rewritten(p)'.args[1] = gethome(Slot, d)
      BY <1>1, <1>3, <2>6, <3>1, Rewriting
    <3>4. gethome(Slot, v) # gethome(Slot, d)
      BY <1>1, <2>1, <2>3, <2>4, <3>2, HomesDiffer
    <3> QED
      BY <2>5, <2>6, <3>3, <3>4
  <2>7. CASE ~isVar(d)
    <3>1. isReg(d)
      BY <1>1, <1>3, <2>7, Written
    <3>2. gethome(Slot, v) # d
      BY <1>1, <2>1, <2>3, <2>4, <3>1, HomeIsNot
    <3> QED
      BY <2>5, <2>7, <3>2
  <2> QED
    BY <2>6, <2>7
<1> QED
  BY <1>2, <1>3 DEF HomesApart, Apart, Allocatable, isVar, isReg, Colour, Colours

LEMMA InFrameStep ==
  ASSUME AllocInv, SomeRegisters, Unwritten, AssignHomes
  PROVE  SlotsInFrame'
<1>1. pc = "done" /\ f' = f /\ L' = L /\ IsProgram(f)
  BY DEF AssignHomes, AllocInv, PositionInv, vars
<1>2. Places' = Places /\ \A p : At(p)' = At(p)
  BY <1>1, SameProgram
<1> DEFINE root == Cardinality(RootKeys)
           stack == Cardinality(StackKeys)
<1>3. root \in Nat /\ stack \in Nat
  BY <1>1, KeyFacts, FS_CardinalityType
<1>4. rootsize' = 8 * root /\ stacksize' = 8 * stack + ((-(8 * stack)) % 16)
  BY DEF AssignHomes
<1> HIDE DEF root, stack
<1>5. stacksize' \in Int /\ stacksize' >= 8 * stack
  BY <1>3, <1>4
<1>6. ASSUME NEW p \in Places, NEW n \in DOMAIN At(p).args, NEW v, v = At(p).args[n],
             isVar(v), NEW home, home = Rewritten(p)'.args[n], isMem(home)
      PROVE  IF v \in f.gcable
             THEN home[2] = "r15" /\ home[3] <= -8 /\ -home[3] <= rootsize'
             ELSE home[2] = "rsp" /\ home[3] >= 0 /\ home[3] + 8 <= stacksize'
  <2>1. home = gethome(Slot, v)
    BY <1>1, <1>6, Rewriting
  <2>2. Spilled(v)
    BY <1>6, <2>1 DEF gethome, isMem, Reg64
  <2>3. v \in G /\ Key(v) \in Keys
    BY <1>1, <1>6, <2>2, Mentioned, SpillFacts
  <2>4. Nth(Key(v)) \in Nat /\ Nth(Key(v)) >= 1
        /\ Nth(Key(v)) <= (IF Key(v) < 0 THEN root ELSE stack)
    BY <1>1, <2>3, SlotBounds DEF root, stack
  <2>5. CASE v \in f.gcable
    <3>1. Key(v) < 0 /\ home = mkmem("r15", -8 * Nth(Key(v)))
      BY <1>1, <2>1, <2>2, <2>3, <2>5, HomeFacts
    <3>2. home[2] = "r15" /\ home[3] = -8 * Nth(Key(v))
      BY <3>1 DEF mkmem
    <3>3. -8 * Nth(Key(v)) <= -8 /\ -(-8 * Nth(Key(v))) <= 8 * root
      BY <1>3, <2>4, <3>1
    <3> QED
      BY <1>4, <2>5, <3>2, <3>3
  <2>6. CASE v \notin f.gcable
    <3>1. Key(v) > 0 /\ home = mkmem("rsp", 8 * (Nth(Key(v)) - 1))
      BY <1>1, <2>1, <2>2, <2>3, <2>6, HomeFacts
    <3>2. home[2] = "rsp" /\ home[3] = 8 * (Nth(Key(v)) - 1)
      BY <3>1 DEF mkmem
    <3>3. Key(v) \in Int
      BY <1>1, <2>2, SpillFacts
    <3>4. 8 * (Nth(Key(v)) - 1) >= 0 /\ 8 * (Nth(Key(v)) - 1) + 8 <= 8 * stack
      BY <1>3, <2>4, <3>1, <3>3
    <3> QED
      BY <1>3, <1>5, <2>4, <2>6, <3>2, <3>4
  <2> QED
    BY <2>5, <2>6
<1> QED
  BY <1>1, <1>2, <1>6 DEF SlotsInFrame, isVar, isMem

-----------------------------------------------------------------------------
(* Every step of compile                                                   *)

HomesInv ==
  AllocInv /\ PrecolouredInv /\ Unwritten /\ HomesApart /\ SlotsInFrame

LEMMA HomesInit == CompileInit => HomesInv
<1> SUFFICES ASSUME CompileInit PROVE HomesInv
  OBVIOUS
<1>1. Init
  BY FuncsAssumption DEF CompileInit, Init
<1>2. G = {} /\ pass = "regalloc"
  BY DEF CompileInit, Start
<1> QED
  BY <1>1, <1>2, AllocInit
     DEF HomesInv, PrecolouredInv, Unwritten, CompileInit, HomesApart, SlotsInFrame

\* Steps that leave asm alone, or come before or after what is stated of it.
LEMMA SameHomes ==
  ASSUME HomesApart, SlotsInFrame, UNCHANGED <<vars, code_vars>>
  PROVE  HomesApart' /\ SlotsInFrame'
<1>1. f' = f /\ L' = L /\ UNCHANGED <<pass, asm, stacksize, rootsize>>
  BY DEF vars, code_vars
<1>2. /\ Places' = Places
      /\ \A p : At(p)' = At(p) /\ LiveAfter(p)' = LiveAfter(p) /\ DefinedBy(p)' = DefinedBy(p)
      /\ \A p : dest(At(p))' = dest(At(p)) /\ Rewritten(p)' = Rewritten(p)
  <2>1. \A p : dest(At(p))' = dest(At(p)) /\ Rewritten(p)' = Rewritten(p)
    BY <1>1, SameProgram DEF Rewritten, dest, rdx, Reg64, Named, isVar, isReg
  <2> QED
    BY <1>1, <2>1, SameProgram
<1>3. HomesApart'
  BY <1>1, <1>2 DEF HomesApart, Allocatable, isVar, isReg, Colour, Colours
<1>4. SlotsInFrame'
  BY <1>1, <1>2 DEF SlotsInFrame, isVar, isMem
<1> QED
  BY <1>3, <1>4

LEMMA SameAlloc ==
  ASSUME AllocInv, PrecolouredInv, UNCHANGED vars
  PROVE  AllocInv' /\ PrecolouredInv'
  BY AllocStep, PrecolouredStep

LEMMA HomesStep ==
  ASSUME SomeRegisters, HomesInv, [Compile]_<<vars, code_vars>>
  PROVE  HomesInv'
<1> USE DEF HomesInv
<1>1. CASE RegAlloc
  <2>1. pass = "regalloc" /\ pass' = pass /\ asm' = asm /\ Next
    BY <1>1 DEF RegAlloc, code_vars
  <2>2. AllocInv' /\ PrecolouredInv'
    BY <2>1, AllocStep, PrecolouredStep
  <2>3. f' = f
    BY <2>1 DEF Next, LiveBlock, LivePanic, LiveDone, Define, NoNode, Call, NextBlock,
                Precolour, Colour1, Done
  <2>4. Unwritten'
    BY <2>1, <2>3 DEF Unwritten, code
  <2> QED
    BY <2>1, <2>2, <2>4 DEF HomesApart, SlotsInFrame
<1>2. CASE AssignHomes
  <2>1. UNCHANGED vars /\ pass' = "frame"
    BY <1>2 DEF AssignHomes
  <2> QED
    BY <1>2, <2>1, SameAlloc, ApartStep, InFrameStep DEF Unwritten
<1>3. CASE AddStackFrame \/ PatchInstructions
  <2>1. UNCHANGED vars /\ pass' \in {"patch", "compiled"}
    BY <1>3 DEF AddStackFrame, PatchInstructions
  <2> QED
    BY <2>1, SameAlloc DEF Unwritten, HomesApart, SlotsInFrame
<1>4. CASE UNCHANGED <<vars, code_vars>>
  <2>1. UNCHANGED vars /\ f' = f /\ pass' = pass /\ asm' = asm
    BY <1>4 DEF vars, code_vars
  <2>2. Unwritten'
    BY <2>1 DEF Unwritten, code
  <2> QED
    BY <1>4, <2>1, <2>2, SameAlloc, SameHomes
<1> QED
  BY <1>1, <1>2, <1>3, <1>4 DEF Compile

\* The variables of regalloc and those of the passes around it.
LEMMA HomesInvariant ==
  ASSUME SomeRegisters
  PROVE  CompileSpec => []HomesInv
<1>1. CompileInit => HomesInv
  BY HomesInit
<1>2. HomesInv /\ [Compile]_<<vars, code_vars>> => HomesInv'
  BY HomesStep
<1> QED
  BY <1>1, <1>2, PTL DEF CompileSpec

(***************************************************************************)
(* For every program, and however many registers there are as long as      *)
(* there is one, no instruction that assignHomes has rewritten writes to   *)
(* the home of a variable that is needed after it (asm.go:226-309).        *)
(***************************************************************************)
THEOREM HomesApartHolds ==
  ASSUME SomeRegisters
  PROVE  CompileSpec => []HomesApart
<1>1. HomesInv => HomesApart
  BY DEF HomesInv
<1> QED
  BY <1>1, HomesInvariant, PTL

(***************************************************************************)
(* And every slot assignHomes has handed out is inside the frame that      *)
(* addStackFrameInstructions will make, a tuple's on the root stack and    *)
(* everything else's on the machine's (asm.go:226-241, 310-315).           *)
(***************************************************************************)
THEOREM SlotsInFrameHolds ==
  ASSUME SomeRegisters
  PROVE  CompileSpec => []SlotsInFrame
<1>1. HomesInv => SlotsInFrame
  BY DEF HomesInv
<1> QED
  BY <1>1, HomesInvariant, PTL

-----------------------------------------------------------------------------
(* Sequences                                                               *)

IsSeq(s) == \E T : s \in Seq(T)

LEMMA SeqParts ==
  ASSUME NEW s, IsSeq(s)
  PROVE  Len(s) \in Nat /\ DOMAIN s = 1..Len(s) /\ (s = <<>> <=> Len(s) = 0)
  BY DEF IsSeq

LEMMA SeqMade ==
  ASSUME NEW n \in Nat, NEW s, s = [k \in 1..n |-> s[k]]
  PROVE  IsSeq(s) /\ Len(s) = n /\ DOMAIN s = 1..n
<1> DEFINE T == {s[k] : k \in 1..n}
<1>1. s \in [1..n -> T]
  OBVIOUS
<1>2. s \in Seq(T)
  BY <1>1, SeqDef
<1>3. DOMAIN s = 1..n
  BY <1>1
<1>4. Len(s) = n
  BY <1>2, <1>3
<1> QED
  BY <1>2, <1>3, <1>4 DEF IsSeq

LEMMA Cat ==
  ASSUME NEW s, NEW t, IsSeq(s), IsSeq(t)
  PROVE  /\ IsSeq(s \o t) /\ Len(s \o t) = Len(s) + Len(t)
         /\ \A k \in 1..Len(s) : (s \o t)[k] = s[k]
         /\ \A k \in 1..Len(t) : (s \o t)[Len(s) + k] = t[k]
<1>1. PICK T1 : s \in Seq(T1)
  BY DEF IsSeq
<1>2. PICK T2 : t \in Seq(T2)
  BY DEF IsSeq
<1> DEFINE T == T1 \cup T2
<1>3. s \in Seq(T) /\ t \in Seq(T)
  BY <1>1, <1>2, SeqMonotonic
<1> HIDE DEF T
<1>4. /\ s \o t \in Seq(T) /\ Len(s \o t) = Len(s) + Len(t)
      /\ \A k \in 1..(Len(s) + Len(t)) :
           (s \o t)[k] = IF k <= Len(s) THEN s[k] ELSE t[k - Len(s)]
  BY <1>3, ConcatProperties
<1>5. Len(s) \in Nat /\ Len(t) \in Nat
  BY <1>3
<1> QED
  BY <1>4, <1>5 DEF IsSeq

\* A function on an interval that is defined by what comes before exists.
Steps(g, lo, hi, a, step) ==
  g = [n \in lo..hi |-> IF n = lo THEN a ELSE step[<<n, g[n - 1]>>]]

LEMMA Recursion ==
  ASSUME NEW lo \in Nat, NEW hi \in Nat, lo <= hi, NEW D, NEW a \in D,
         NEW step \in [((lo + 1)..hi) \X D -> D]
  PROVE  \E g \in [lo..hi -> D] : Steps(g, lo, hi, a, step)
<1> DEFINE Upto(m) == \E g \in [lo..m -> D] : Steps(g, lo, m, a, step)
           T == {m \in lo..hi : ~Upto(m)}
<1>1. ASSUME T # {} PROVE FALSE
  <2>1. T \in SUBSET Nat
    OBVIOUS
  <2> HIDE DEF T
  <2>2. PICK m \in T : \A y \in T : m <= y
    BY <1>1, <2>1, Least
  <2>3. m \in lo..hi /\ ~Upto(m)
    BY <2>2 DEF T
  <2>4. m # lo
    <3> DEFINE g == [n \in lo..lo |-> a]
    <3>1. g \in [lo..lo -> D]
      OBVIOUS
    <3>2. g = [n \in lo..lo |-> IF n = lo THEN a ELSE step[<<n, g[n - 1]>>]]
      OBVIOUS
    <3>3. Upto(lo)
      BY <3>1, <3>2 DEF Steps
    <3> QED
      BY <2>3, <3>3
  <2>5. m - 1 \in lo..hi /\ m - 1 \notin T
    BY <2>1, <2>2, <2>3, <2>4
  <2>6. Upto(m - 1)
    BY <2>5 DEF T
  <2>7. PICK g \in [lo..(m - 1) -> D] :
          g = [n \in lo..(m - 1) |-> IF n = lo THEN a ELSE step[<<n, g[n - 1]>>]]
    BY <2>6 DEF Steps
  <2> DEFINE h == [n \in lo..m |-> IF n = m THEN step[<<m, g[m - 1]>>] ELSE g[n]]
  <2>8. h \in [lo..m -> D]
    <3>1. step[<<m, g[m - 1]>>] \in D
      BY <2>3, <2>4
    <3> QED
      BY <2>3, <3>1
  <2> HIDE DEF h
  <2>9. \A n \in lo..m : h[n] = IF n = lo THEN a ELSE step[<<n, h[n - 1]>>]
    <3>0. \A n \in lo..m : h[n] = IF n = m THEN step[<<m, g[m - 1]>>] ELSE g[n]
      BY DEF h
    <3>1. ASSUME NEW n \in lo..m, n # m
          PROVE  h[n] = IF n = lo THEN a ELSE step[<<n, h[n - 1]>>]
      <4>1. n \in lo..(m - 1) /\ h[n] = g[n]
        BY <2>3, <3>0, <3>1
      <4>2. g[n] = IF n = lo THEN a ELSE step[<<n, g[n - 1]>>]
        BY <2>7, <4>1
      <4>3. ASSUME n # lo PROVE h[n - 1] = g[n - 1]
        <5>1. n - 1 \in lo..m /\ n - 1 # m
          BY <2>3, <4>1, <4>3
        <5> QED
          BY <3>0, <5>1
      <4> QED
        BY <4>1, <4>2, <4>3
    <3>2. h[m] = step[<<m, h[m - 1]>>]
      <4>1. m \in lo..m /\ m - 1 \in lo..m /\ m - 1 # m
        BY <2>3, <2>4
      <4>2. h[m] = step[<<m, g[m - 1]>>] /\ h[m - 1] = g[m - 1]
        BY <3>0, <4>1
      <4> QED
        BY <4>2
    <3> QED
      BY <2>4, <3>1, <3>2
  <2>10. Upto(m)
    <3>1. h = [n \in lo..m |-> IF n = lo THEN a ELSE step[<<n, h[n - 1]>>]]
      BY <2>8, <2>9
    <3> QED
      BY <2>8, <3>1 DEF Steps
  <2> QED
    BY <2>3, <2>10
<1>2. Upto(hi)
  BY <1>1
<1> QED
  BY <1>2

LEMMA OnlyFacts ==
  ASSUME NEW A, NEW s \in Seq(A), NEW T
  PROVE  Only(s, T) \in Seq(A) /\ ToSet(Only(s, T)) = ToSet(s) \cap T
<1> DEFINE N == Len(s)
           Fits(g) == g = [n \in 0..N |-> IF n = 0 THEN <<>>
                                          ELSE IF s[n] \in T THEN Append(g[n - 1], s[n])
                                               ELSE g[n - 1]]
           step == [x \in ((0 + 1)..N) \X Seq(A) |->
                      IF s[x[1]] \in T THEN Append(x[2], s[x[1]]) ELSE x[2]]
           kept == CHOOSE g : Fits(g)
<1>1. N \in Nat /\ DOMAIN s = 1..N /\ \A n \in 1..N : s[n] \in A
  OBVIOUS
<1>2. \E g : Fits(g)
  <2>1. step \in [((0 + 1)..N) \X Seq(A) -> Seq(A)]
    <3>1. ASSUME NEW x \in ((0 + 1)..N) \X Seq(A)
          PROVE  (IF s[x[1]] \in T THEN Append(x[2], s[x[1]]) ELSE x[2]) \in Seq(A)
      <4>1. x[1] \in 1..N /\ x[2] \in Seq(A)
        BY <1>1
      <4>2. s[x[1]] \in A
        BY <1>1, <4>1
      <4> QED
        BY <4>1, <4>2
    <3> QED
      BY <3>1
  <2>2. \A n \in 1..N : \A q \in Seq(A) :
          step[<<n, q>>] = IF s[n] \in T THEN Append(q, s[n]) ELSE q
    BY <1>1
  <2> HIDE DEF step, N
  <2>3. <<>> \in Seq(A)
    OBVIOUS
  <2>4. PICK g \in [0..N -> Seq(A)] :
          g = [n \in 0..N |-> IF n = 0 THEN <<>> ELSE step[<<n, g[n - 1]>>]]
    <3>0. 0 \in Nat /\ 0 <= N
      BY <1>1
    <3> DEFINE D == Seq(A)
    <3>2. <<>> \in D /\ step \in [((0 + 1)..N) \X D -> D]
      BY <2>1, <2>3
    <3> HIDE DEF D
    <3>3. \E g \in [0..N -> D] : Steps(g, 0, N, <<>>, step)
      BY <1>1, <3>0, <3>2, Recursion
    <3>1. \E g \in [0..N -> Seq(A)] : Steps(g, 0, N, <<>>, step)
      BY <3>3 DEF D
    <3> QED
      BY <3>1 DEF Steps
  <2>5. \A n \in 0..N : g[n] = IF n = 0 THEN <<>> ELSE IF s[n] \in T THEN Append(g[n - 1], s[n])
                                                    ELSE g[n - 1]
    <3> SUFFICES ASSUME NEW n \in 0..N, n # 0
                 PROVE  g[n] = IF s[n] \in T THEN Append(g[n - 1], s[n]) ELSE g[n - 1]
      BY <2>4
    <3>1. n \in 1..N /\ n - 1 \in 0..N
      BY <1>1
    <3>2. g[n] = step[<<n, g[n - 1]>>] /\ g[n - 1] \in Seq(A)
      BY <2>4, <3>1
    <3> QED
      BY <2>2, <3>1, <3>2
  <2>6. Fits(g)
    BY <2>4, <2>5
  <2> QED
    BY <2>6
<1>3. Fits(kept)
  BY <1>2
<1>4. Only(s, T) = kept[N]
  BY DEF Only
<1> HIDE DEF kept, N
<1>5. \A n \in 0..N : kept[n] = IF n = 0 THEN <<>>
                                ELSE IF s[n] \in T THEN Append(kept[n - 1], s[n])
                                     ELSE kept[n - 1]
  BY <1>3
<1> DEFINE P(n) == kept[n] \in Seq(A) /\ ToSet(kept[n]) = {s[k] : k \in 1..n} \cap T
           B == {n \in 0..N : ~P(n)}
<1>6. ASSUME B # {} PROVE FALSE
  <2>1. B \in SUBSET Nat
    BY <1>1
  <2> HIDE DEF B
  <2>2. PICK m \in B : \A y \in B : m <= y
    BY <1>6, <2>1, Least
  <2>3. m \in 0..N /\ ~P(m)
    BY <2>2 DEF B
  <2>4. P(0)
    <3>1. kept[0] = <<>>
      BY <1>1, <1>5
    <3> QED
      BY <3>1 DEF ToSet
  <2>5. m # 0 /\ m \in 1..N /\ m - 1 \in 0..N
    BY <1>1, <2>3, <2>4
  <2>6. m - 1 \notin B
    BY <1>1, <2>1, <2>2, <2>5
  <2>7. P(m - 1)
    BY <2>5, <2>6 DEF B
  <2> DEFINE q == kept[m - 1]
  <2>8. q \in Seq(A) /\ ToSet(q) = {s[k] : k \in 1..(m - 1)} \cap T /\ s[m] \in A
    BY <1>1, <2>5, <2>7
  <2>9. kept[m] = IF s[m] \in T THEN Append(q, s[m]) ELSE q
    BY <1>5, <2>3, <2>5
  <2> HIDE DEF q
  <2>10. {s[k] : k \in 1..m} = {s[k] : k \in 1..(m - 1)} \cup {s[m]}
    BY <1>1, <2>5
  <2>11. ToSet(Append(q, s[m])) = ToSet(q) \cup {s[m]} /\ Append(q, s[m]) \in Seq(A)
    BY <2>8, AppendProperties DEF ToSet
  <2> QED
    BY <2>3, <2>8, <2>9, <2>10, <2>11
<1>7. P(N)
  <2> HIDE DEF P
  <2>1. N \in 0..N
    BY <1>1
  <2>2. {n \in 0..N : ~P(n)} = {}
    BY <1>6 DEF B
  <2> QED
    BY <2>1, <2>2
<1> QED
  BY <1>1, <1>4, <1>7 DEF ToSet

\* A sequence that starts with d elements of E, ends with t of X, and has
\* only elements of Good between them.
Cased(c, A, Good, d, t, E, X) ==
  /\ c \in Seq(A) /\ d + t <= Len(c)
  /\ \A k \in 1..d : c[k] = E[k]
  /\ \A k \in 1..t : c[Len(c) - t + k] = X[k]
  /\ \A k \in (d + 1)..(Len(c) - t) : c[k] \in Good

\* A sequence that is as many elements of E, and no more.
Opening(q, A, Good, d, E, X) == Cased(q, A, Good, d, 0, E, X) /\ Len(q) = d

LEMMA GrowFront ==
  ASSUME NEW A, NEW Good, NEW d \in Nat, NEW E, NEW X, NEW q, NEW s \in Seq(A),
         Opening(q, A, Good, d, E, X), s = <<E[d + 1]>>
  PROVE  Opening(q \o s, A, Good, d + 1, E, X)
<1>0. Len(q) = d
  BY DEF Opening
<1>1. q \in Seq(A) /\ Len(s) = 1 /\ s[1] = E[d + 1] /\ \A k \in 1..d : q[k] = E[k]
  BY DEF Opening, Cased
<1>2. IsSeq(q) /\ IsSeq(s) /\ q \o s \in Seq(A)
  BY <1>1, ConcatProperties DEF IsSeq
<1> DEFINE c == q \o s
<1>3. Len(c) = d + 1 /\ (\A k \in 1..d : c[k] = q[k]) /\ c[d + 1] = E[d + 1]
  <2>1. \A k \in 1..Len(s) : c[Len(q) + k] = s[k]
    BY <1>2, Cat
  <2>2. 1 \in 1..Len(s)
    BY <1>1
  <2> QED
    BY <1>0, <1>1, <1>2, <2>1, <2>2, Cat
<1>4. c \in Seq(A)
  BY <1>2
<1> HIDE DEF c
<1>5. \A k \in 1..(d + 1) : c[k] = E[k]
  <2> SUFFICES ASSUME NEW k \in 1..(d + 1) PROVE c[k] = E[k]
    OBVIOUS
  <2>1. k \in 1..d \/ k = d + 1
    BY <1>0
  <2> QED
    BY <1>1, <1>3, <2>1
<1>6. Cased(c, A, Good, d + 1, 0, E, X)
  BY <1>0, <1>3, <1>4, <1>5 DEF Cased
<1> QED
  BY <1>3, <1>6 DEF Opening, c

LEMMA GrowGood ==
  ASSUME NEW A, NEW Good, NEW d \in Nat, NEW E, NEW X, NEW q, NEW s \in Seq(A),
         Cased(q, A, Good, d, 0, E, X), s \in Seq(Good)
  PROVE  Cased(q \o s, A, Good, d, 0, E, X)
<1>1. /\ q \in Seq(A) /\ d <= Len(q) /\ \A k \in 1..d : q[k] = E[k]
      /\ \A k \in (d + 1)..Len(q) : q[k] \in Good
  BY DEF Cased
<1>2. IsSeq(q) /\ IsSeq(s) /\ q \o s \in Seq(A) /\ Len(q) \in Nat /\ Len(s) \in Nat
  BY <1>1, ConcatProperties DEF IsSeq
<1> DEFINE c == q \o s
<1>3. /\ Len(c) = Len(q) + Len(s) /\ (\A k \in 1..Len(q) : c[k] = q[k])
      /\ \A k \in 1..Len(s) : c[Len(q) + k] = s[k]
  BY <1>2, Cat
<1>4. c \in Seq(A) /\ \A k \in 1..Len(s) : s[k] \in Good
  BY <1>2
<1> HIDE DEF c
<1>5. \A k \in 1..d : c[k] = E[k]
  <2> SUFFICES ASSUME NEW k \in 1..d PROVE c[k] = E[k]
    OBVIOUS
  <2>1. k \in 1..Len(q)
    BY <1>1, <1>2
  <2> QED
    BY <1>1, <1>3, <2>1
<1>6. ASSUME NEW k \in (d + 1)..Len(c) PROVE c[k] \in Good
  <2>1. CASE k <= Len(q)
    <3>1. k \in 1..Len(q) /\ k \in (d + 1)..Len(q)
      BY <1>1, <1>2, <1>6, <2>1
    <3> QED
      BY <1>1, <1>3, <3>1
  <2>2. CASE k > Len(q)
    <3> DEFINE u == k - Len(q)
    <3>1. u \in 1..Len(s) /\ Len(q) + u = k
      BY <1>1, <1>2, <1>3, <1>6, <2>2
    <3> QED
      BY <1>3, <1>4, <3>1
  <2> QED
    BY <1>2, <2>1, <2>2
<1>7. Cased(c, A, Good, d, 0, E, X)
  BY <1>1, <1>2, <1>3, <1>4, <1>5, <1>6 DEF Cased
<1> QED
  BY <1>7 DEF c

LEMMA GrowLast ==
  ASSUME NEW A, NEW Good, NEW d \in Nat, NEW t \in Nat, NEW E, NEW X, NEW q, NEW s \in Seq(A),
         Cased(q, A, Good, d, t, E, X), s = <<X[t + 1]>>
  PROVE  Cased(q \o s, A, Good, d, t + 1, E, X)
<1>1. /\ q \in Seq(A) /\ d + t <= Len(q) /\ \A k \in 1..d : q[k] = E[k]
      /\ \A k \in 1..t : q[Len(q) - t + k] = X[k]
      /\ \A k \in (d + 1)..(Len(q) - t) : q[k] \in Good
  BY DEF Cased
<1>2. IsSeq(q) /\ IsSeq(s) /\ q \o s \in Seq(A) /\ Len(q) \in Nat /\ Len(s) = 1 /\ s[1] = X[t + 1]
  BY <1>1, ConcatProperties DEF IsSeq
<1> DEFINE c == q \o s
           z == Len(q)
<1>3. Len(c) = z + 1 /\ (\A k \in 1..z : c[k] = q[k]) /\ c[z + 1] = X[t + 1]
  <2>1. \A k \in 1..Len(s) : c[Len(q) + k] = s[k]
    BY <1>2, Cat
  <2>2. 1 \in 1..Len(s)
    BY <1>2
  <2> QED
    BY <1>2, <2>1, <2>2, Cat
<1>4. c \in Seq(A) /\ z \in Nat
  BY <1>2
<1>5. /\ d + t <= z /\ \A k \in 1..t : q[z - t + k] = X[k]
      /\ \A k \in (d + 1)..(z - t) : q[k] \in Good
  BY <1>1
<1> HIDE DEF c, z
<1>6. \A k \in 1..d : c[k] = E[k]
  <2> SUFFICES ASSUME NEW k \in 1..d PROVE c[k] = E[k]
    OBVIOUS
  <2>1. k \in 1..z
    BY <1>4, <1>5
  <2> QED
    BY <1>1, <1>3, <2>1
<1>7. ASSUME NEW k \in 1..(t + 1) PROVE c[Len(c) - (t + 1) + k] = X[k]
  <2>0. Len(c) - (t + 1) + k = z - t + k
    BY <1>3, <1>4
  <2>1. CASE k = t + 1
    <3>1. z - t + k = z + 1
      BY <1>4, <2>1
    <3> QED
      BY <1>3, <2>0, <2>1, <3>1
  <2>2. CASE k # t + 1
    <3>1. k \in 1..t /\ z - t + k \in 1..z
      BY <1>4, <1>5, <1>7, <2>2
    <3> QED
      BY <1>3, <1>5, <2>0, <3>1
  <2> QED
    BY <2>1, <2>2
<1>8. ASSUME NEW k \in (d + 1)..(z - t) PROVE c[k] \in Good
  <2>1. k \in 1..z
    BY <1>4, <1>8
  <2> QED
    BY <1>3, <1>5, <2>1
<1>9. Len(c) - (t + 1) = z - t /\ d + (t + 1) <= Len(c)
  <2>1. Len(c) = z + 1 /\ d + t <= z
    BY <1>3, <1>5
  <2> QED
    BY <1>4, <2>1
<1>10. Cased(c, A, Good, d, t + 1, E, X)
  BY <1>4, <1>6, <1>7, <1>8, <1>9 DEF Cased
<1> QED
  BY <1>10 DEF c

\* ss is e times one element of E, then sequences of good elements, then x
\* times one element of X.
Pieces(ss, Good, e, x, E, X) ==
  /\ e + x <= Len(ss)
  /\ \A k \in 1..e : ss[k] = <<E[k]>>
  /\ \A k \in 1..x : ss[Len(ss) - x + k] = <<X[k]>>
  /\ \A k \in (e + 1)..(Len(ss) - x) : ss[k] \in Seq(Good)

Flattens(g, ss, A) ==
  /\ g \in [1..Len(ss) -> Seq(A)]
  /\ g[1] = ss[1] /\ g[Len(ss)] = FlattenSeq(ss)
  /\ \A n \in 2..Len(ss) : g[n] = g[n - 1] \o ss[n]

LEMMA FlatSteps ==
  ASSUME NEW A, NEW ss \in Seq(Seq(A)), Len(ss) # 0
  PROVE  \E g : Flattens(g, ss, A)
<1> DEFINE N == Len(ss)
<1> DEFINE Fits(g) == g = [n \in 1..N |-> IF n = 1 THEN ss[n] ELSE g[n - 1] \o ss[n]]
           flat == CHOOSE g : Fits(g)
           step == [y \in ((1 + 1)..N) \X Seq(A) |-> y[2] \o ss[y[1]]]
<1>1. N \in Nat /\ DOMAIN ss = 1..N /\ \A n \in 1..N : ss[n] \in Seq(A)
  OBVIOUS
<1>2. 1 <= N /\ 1 \in 1..N /\ 1 \in Nat
  BY <1>1
<1>3. step \in [((1 + 1)..N) \X Seq(A) -> Seq(A)]
  <2>1. ASSUME NEW y \in ((1 + 1)..N) \X Seq(A) PROVE y[2] \o ss[y[1]] \in Seq(A)
    <3>1. y[1] \in 1..N /\ y[2] \in Seq(A)
      BY <1>1
    <3>2. ss[y[1]] \in Seq(A)
      BY <1>1, <3>1
    <3> QED
      BY <3>1, <3>2, ConcatProperties
  <2> QED
    BY <2>1
<1>4. \A n \in 2..N : \A q \in Seq(A) : step[<<n, q>>] = q \o ss[n]
  <2> SUFFICES ASSUME NEW n \in 2..N, NEW q \in Seq(A) PROVE step[<<n, q>>] = q \o ss[n]
    OBVIOUS
  <2> DEFINE y == <<n, q>>
  <2>1. y \in ((1 + 1)..N) \X Seq(A) /\ y[1] = n /\ y[2] = q
    BY <1>1
  <2> HIDE DEF y
  <2>2. step[y] = q \o ss[n]
    BY <2>1
  <2> QED
    BY <2>2 DEF y
<1>5. flat = CHOOSE g : Fits(g)
  OBVIOUS
<1>6. FlattenSeq(ss) = flat[N]
  BY DEF FlattenSeq
<1>0. N = Len(ss)
  OBVIOUS
<1> HIDE DEF step, flat, N
<1>7. PICK g \in [1..N -> Seq(A)] : Steps(g, 1, N, ss[1], step)
  <2> DEFINE D == Seq(A)
  <2>1. ss[1] \in D /\ step \in [((1 + 1)..N) \X D -> D]
    BY <1>1, <1>2, <1>3
  <2> HIDE DEF D
  <2>2. \E g \in [1..N -> D] : Steps(g, 1, N, ss[1], step)
    BY <1>1, <1>2, <2>1, Recursion
  <2> QED
    BY <2>2 DEF D
<1>8. g = [n \in 1..N |-> IF n = 1 THEN ss[1] ELSE step[<<n, g[n - 1]>>]]
  BY <1>7 DEF Steps
<1>9. \A n \in 1..N : g[n] = IF n = 1 THEN ss[n] ELSE g[n - 1] \o ss[n]
  <2> SUFFICES ASSUME NEW n \in 1..N, n # 1 PROVE g[n] = g[n - 1] \o ss[n]
    BY <1>8
  <2>1. n \in 2..N /\ n - 1 \in 1..N
    BY <1>1
  <2>2. g[n] = step[<<n, g[n - 1]>>] /\ g[n - 1] \in Seq(A)
    BY <1>8, <2>1
  <2> QED
    BY <1>4, <2>1, <2>2
<1>10. Fits(g)
  BY <1>9
<1>11. Fits(flat)
  BY <1>5, <1>10
<1>12. \A n \in 1..N : flat[n] = IF n = 1 THEN ss[n] ELSE flat[n - 1] \o ss[n]
  BY <1>11
<1>13. DOMAIN flat = 1..N
  BY <1>11
<1> HIDE DEF Fits
<1> DEFINE B == {n \in 1..N : flat[n] # g[n]}
<1>14. ASSUME B # {} PROVE FALSE
  <2>1. B \in SUBSET Nat
    BY <1>1
  <2> HIDE DEF B
  <2>2. PICK m \in B : \A y \in B : m <= y
    BY <1>14, <2>1, Least
  <2>3. m \in 1..N /\ flat[m] # g[m]
    BY <2>2 DEF B
  <2>4. m # 1
    BY <1>2, <1>9, <1>12, <2>3
  <2>5. m - 1 \in 1..N /\ m - 1 \notin B
    BY <1>1, <2>1, <2>2, <2>3, <2>4
  <2>6. flat[m - 1] = g[m - 1]
    BY <2>5 DEF B
  <2> QED
    BY <1>9, <1>12, <2>3, <2>4, <2>6
<1>15. flat[N] = g[N]
  <2>1. N \in 1..N
    BY <1>1, <1>2
  <2>2. B = {}
    BY <1>14
  <2> QED
    BY <2>1, <2>2
<1>16. \A n \in 2..N : g[n] = g[n - 1] \o ss[n]
  <2> SUFFICES ASSUME NEW n \in 2..N PROVE g[n] = g[n - 1] \o ss[n]
    OBVIOUS
  <2>1. n \in 1..N /\ n # 1
    BY <1>1
  <2> QED
    BY <1>9, <2>1
<1>17. g[1] = ss[1]
  BY <1>2, <1>9
<1>18. Flattens(g, ss, A)
  BY <1>0, <1>6, <1>15, <1>16, <1>17 DEF Flattens
<1> QED
  BY <1>18

LEMMA Flattened ==
  ASSUME NEW A, NEW ss \in Seq(Seq(A)), NEW Good,
         NEW e \in Nat, NEW x \in Nat, NEW E, NEW X, Pieces(ss, Good, e, x, E, X)
  PROVE  Cased(FlattenSeq(ss), A, Good, e, x, E, X)
<1> DEFINE c == FlattenSeq(ss)
<1> DEFINE N == Len(ss)
<1>1. N \in Nat /\ DOMAIN ss = 1..N /\ \A n \in 1..N : ss[n] \in Seq(A)
  OBVIOUS
<1>2. /\ e + x <= N
      /\ \A k \in 1..e : ss[k] = <<E[k]>>
      /\ \A k \in 1..x : ss[N - x + k] = <<X[k]>>
      /\ \A k \in (e + 1)..(N - x) : ss[k] \in Seq(Good)
  BY DEF Pieces
<1>3. CASE N = 0
  <2>1. c = <<>> /\ ss = <<>>
    BY <1>3 DEF FlattenSeq
  <2>2. e = 0 /\ x = 0
    BY <1>2, <1>3
  <2>3. Cased(<<>>, A, Good, 0, 0, E, X)
    BY DEF Cased
  <2> QED
    BY <2>1, <2>2, <2>3
<1>4. CASE N # 0
  <2>0. N = Len(ss)
    OBVIOUS
  <2> HIDE DEF N, c
  <2>1. PICK g \in [1..N -> Seq(A)] :
          /\ g[N] = c
          /\ g[1] = ss[1]
          /\ \A n \in 2..N : g[n] = g[n - 1] \o ss[n]
    <3>1. PICK g : Flattens(g, ss, A)
      BY <1>4, <2>0, FlatSteps
    <3> QED
      BY <2>0, <3>1 DEF Flattens, c
  <2> DEFINE acc == [n \in 0..N |-> IF n = 0 THEN <<>> ELSE g[n]]
             d(n) == IF n < e THEN n ELSE e
             t(n) == IF n > N - x THEN n - (N - x) ELSE 0
             P(n) == /\ Cased(acc[n], A, Good, d(n), t(n), E, X)
                     /\ n <= e => Len(acc[n]) = n
             B == {n \in 0..N : ~P(n)}
  <2>2. acc[0] = <<>> /\ \A n \in 1..N : acc[n] = g[n]
    BY <1>1
  <2>3. ASSUME NEW n \in 1..N PROVE acc[n] = acc[n - 1] \o ss[n]
    <3>1. CASE n = 1
      <4>1. <<>> \o ss[1] = ss[1] /\ n - 1 = 0
        BY <1>1, <2>3, <3>1, ConcatEmptySeq
      <4> QED
        BY <2>1, <2>2, <3>1, <4>1
    <3>2. CASE n # 1
      <4>1. n \in 2..N /\ n - 1 \in 1..N
        BY <1>1, <3>2
      <4> QED
        BY <2>1, <2>2, <4>1
    <3> QED
      BY <3>1, <3>2
  <2>4. P(0)
    <3>1. d(0) = 0 /\ t(0) = 0
      BY <1>1, <1>2
    <3>2. Cased(<<>>, A, Good, 0, 0, E, X) /\ Len(<<>>) = 0
      BY DEF Cased
    <3> QED
      BY <2>2, <3>1, <3>2
  <2> HIDE DEF acc
  <2>5. ASSUME NEW n \in 1..N, P(n - 1) PROVE P(n)
    <3> DEFINE q == acc[n - 1]
    <3>1. acc[n] = q \o ss[n] /\ ss[n] \in Seq(A)
      BY <1>1, <2>3
    <3>2. CASE n <= e
      <4> DEFINE u == n - 1
      <4>1. d(n - 1) = u /\ t(n - 1) = 0 /\ d(n) = n /\ t(n) = 0 /\ u \in Nat /\ u + 1 = n
        BY <1>1, <1>2, <3>2
      <4>2. ss[n] = <<E[u + 1]>>
        BY <1>2, <3>2, <4>1
      <4>3. Cased(q, A, Good, u, 0, E, X) /\ Len(q) = u
        BY <2>5, <3>2, <4>1
      <4> HIDE DEF q, d, t, u
      <4>5. Opening(q, A, Good, u, E, X)
        BY <4>3 DEF Opening
      <4>6. Opening(q \o ss[n], A, Good, u + 1, E, X)
        BY <3>1, <4>1, <4>2, <4>5, GrowFront
      <4>4. Cased(q \o ss[n], A, Good, u + 1, 0, E, X) /\ Len(q \o ss[n]) = u + 1
        BY <4>6 DEF Opening
      <4> QED
        BY <3>1, <4>1, <4>2, <4>4
    <3>3. CASE n > e /\ n <= N - x
      <4>1. d(n - 1) = e /\ t(n - 1) = 0 /\ d(n) = e /\ t(n) = 0 /\ ~(n <= e)
        BY <1>1, <1>2, <3>3
      <4>2. ss[n] \in Seq(Good)
        BY <1>1, <1>2, <3>3
      <4>3. Cased(q, A, Good, e, 0, E, X)
        BY <2>5, <4>1
      <4> HIDE DEF q, d, t
      <4>4. Cased(q \o ss[n], A, Good, e, 0, E, X)
        BY <3>1, <4>2, <4>3, GrowGood
      <4> QED
        BY <3>1, <4>1, <4>4
    <3>4. CASE n > N - x
      <4> DEFINE u == n - (N - x) - 1
      <4>1. /\ u \in Nat /\ u + 1 \in 1..x /\ N - x + (u + 1) = n
            /\ d(n - 1) = e /\ t(n - 1) = u /\ d(n) = e /\ t(n) = u + 1 /\ ~(n <= e)
        BY <1>1, <1>2, <3>4
      <4>2. ss[n] = <<X[u + 1]>>
        BY <1>2, <4>1
      <4>3. Cased(q, A, Good, e, u, E, X)
        BY <2>5, <4>1
      <4> HIDE DEF q, d, t, u
      <4>4. Cased(q \o ss[n], A, Good, e, u + 1, E, X)
        BY <3>1, <4>1, <4>2, <4>3, GrowLast
      <4> QED
        BY <3>1, <4>1, <4>4
    <3> QED
      BY <1>1, <3>2, <3>3, <3>4
  <2> HIDE DEF P
  <2>6. ASSUME B # {} PROVE FALSE
    <3>1. B \in SUBSET Nat
      BY <1>1
    <3> HIDE DEF B
    <3>2. PICK m \in B : \A y \in B : m <= y
      BY <2>6, <3>1, Least
    <3>3. m \in 0..N /\ ~P(m)
      BY <3>2 DEF B
    <3>4. m # 0
      BY <2>4, <3>3
    <3>5. m \in 1..N /\ m - 1 \in 0..N /\ m - 1 \notin B
      BY <1>1, <3>1, <3>2, <3>3, <3>4
    <3>6. P(m - 1)
      BY <3>5 DEF B
    <3> QED
      BY <2>5, <3>3, <3>5, <3>6
  <2>7. P(N)
    BY <1>1, <2>6
  <2>8. d(N) = e /\ t(N) = x
    BY <1>1, <1>2
  <2>9. acc[N] = c
    BY <1>1, <1>4, <2>1, <2>2
  <2>10. Cased(c, A, Good, e, x, E, X)
    <3> HIDE DEF d, t
    <3> QED
      BY <2>7, <2>8, <2>9 DEF P
  <2> QED
    BY <2>10 DEF c
<1> QED
  BY <1>3, <1>4

-----------------------------------------------------------------------------
(* Entry and Exit                                                          *)

Sizes == /\ registers \in Seq(STRING) /\ ToSet(registers) \subseteq ToSet(Registers)
         /\ stacksize \in Nat /\ rootsize \in Nat

LEMMA SavedFacts ==
  ASSUME registers \in Seq(STRING), ToSet(registers) \subseteq ToSet(Registers)
  PROVE  /\ Saved \in Seq(STRING) /\ ToSet(Saved) = ToSet(registers) \cap CalleeSave
         /\ Len(Saved) \in Nat /\ DOMAIN Saved = 1..Len(Saved)
         /\ \A n \in DOMAIN Saved : Saved[n] \in ToSet(Registers) /\ Saved[n] \in CalleeSave
<1>1. Saved \in Seq(STRING) /\ ToSet(Saved) = ToSet(registers) \cap CalleeSave
  BY OnlyFacts DEF Saved
<1>2. \A n \in DOMAIN Saved : Saved[n] \in ToSet(Saved)
  BY DEF ToSet
<1> QED
  BY <1>1, <1>2

\* The parts of the frame in the order Entry makes them.
Pushes == [n \in DOMAIN Saved |-> mkinstr("pushq", <<Reg64(Reverse(Saved)[n])>>)]
Down   == Needed(stacksize, <<mkinstr("subq", <<rsp, Imm(stacksize)>>)>>)
Up     == <<mkinstr("addq", <<r15, Imm(rootsize)>>)>>
Roots  == Needed(rootsize, Up \o ZeroRoots)

LEMMA NeededFacts ==
  ASSUME NEW size, NEW s, IsSeq(s)
  PROVE  /\ IsSeq(Needed(size, s)) /\ (size # 0 => Needed(size, s) = s)
         /\ size = 0 => Len(Needed(size, s)) = 0
<1>1. <<>> \in Seq({}) /\ Len(<<>>) = 0
  OBVIOUS
<1> QED
  BY <1>1 DEF Needed, IsSeq

LEMMA OneFacts ==
  ASSUME NEW a
  PROVE  IsSeq(<<a>>) /\ Len(<<a>>) = 1 /\ <<a>>[1] = a
<1>1. <<a>> \in Seq({a})
  OBVIOUS
<1> QED
  BY <1>1 DEF IsSeq

\* The instructions that zero the roots.
Zeroing == {mkinstr("movq", <<mkmem("r15", -8 * n), Imm(0)>>) : n \in Nat}

LEMMA Rest ==
  ASSUME NEW s, NEW from \in Nat, NEW z \in Nat, NEW T, \A q \in 1..z : s[from + q] \in T
  PROVE  \A k \in (from + 1)..(from + z) : s[k] \in T
<1> SUFFICES ASSUME NEW k \in (from + 1)..(from + z) PROVE s[k] \in T
  OBVIOUS
<1> DEFINE q == k - from
<1>1. q \in 1..z /\ from + q = k
  OBVIOUS
<1> QED
  BY <1>1

LEMMA EntryFacts ==
  ASSUME Sizes, NEW m, m = Len(Saved), NEW o, o = One(stacksize)
  PROVE  /\ IsSeq(Entry) /\ m \in Nat /\ o \in {0, 1} /\ m + o + One(rootsize) <= Len(Entry)
         /\ \A k \in 1..m : Entry[k] = mkinstr("pushq", <<Reg64(Saved[m - k + 1])>>)
         /\ stacksize # 0 => Entry[m + 1] = mkinstr("subq", <<rsp, Imm(stacksize)>>)
         /\ rootsize # 0 => Entry[m + o + 1] = mkinstr("addq", <<r15, Imm(rootsize)>>)
         /\ \A k \in (m + o + One(rootsize) + 1)..Len(Entry) : rootsize # 0 /\ Entry[k] \in Zeroing
<1>1. Saved \in Seq(STRING) /\ m \in Nat /\ DOMAIN Saved = 1..m
  BY SavedFacts DEF Sizes
<1>2. IsSeq(Pushes) /\ Len(Pushes) = m
      /\ \A k \in 1..m : Pushes[k] = mkinstr("pushq", <<Reg64(Saved[m - k + 1])>>)
  <2>1. Pushes = [k \in 1..m |-> Pushes[k]]
    BY <1>1 DEF Pushes
  <2>2. \A k \in 1..m : Reverse(Saved)[k] = Saved[m - k + 1]
    BY <1>1 DEF Reverse
  <2> QED
    BY <1>1, <2>1, <2>2, SeqMade DEF Pushes
<1>3. /\ o \in {0, 1} /\ IsSeq(Down) /\ Len(Down) = o
      /\ stacksize # 0 => o = 1 /\ Down[1] = mkinstr("subq", <<rsp, Imm(stacksize)>>)
  BY NeededFacts, OneFacts DEF One, Down
<1> DEFINE z == rootsize \div 8
<1>4. /\ IsSeq(ZeroRoots) /\ Len(ZeroRoots) = z /\ z \in Nat
      /\ \A k \in 1..z : ZeroRoots[k] = mkinstr("movq", <<mkmem("r15", -8 * k), Imm(0)>>)
  <2>1. z \in Nat
    BY DEF Sizes
  <2>2. ZeroRoots = [k \in 1..z |-> ZeroRoots[k]]
    BY DEF ZeroRoots
  <2> HIDE DEF z
  <2> QED
    BY <2>1, <2>2, SeqMade DEF ZeroRoots, z
<1> HIDE DEF z
<1>5. IsSeq(Up) /\ Len(Up) = 1 /\ Up[1] = mkinstr("addq", <<r15, Imm(rootsize)>>)
  BY OneFacts DEF Up
<1>6. /\ IsSeq(Up \o ZeroRoots) /\ Len(Up \o ZeroRoots) = 1 + z
      /\ (Up \o ZeroRoots)[1] = mkinstr("addq", <<r15, Imm(rootsize)>>)
      /\ \A k \in 1..z : (Up \o ZeroRoots)[1 + k] = mkinstr("movq", <<mkmem("r15", -8 * k), Imm(0)>>)
  <2>1. /\ IsSeq(Up \o ZeroRoots) /\ Len(Up \o ZeroRoots) = Len(Up) + Len(ZeroRoots)
        /\ \A k \in 1..Len(Up) : (Up \o ZeroRoots)[k] = Up[k]
        /\ \A k \in 1..Len(ZeroRoots) : (Up \o ZeroRoots)[Len(Up) + k] = ZeroRoots[k]
    <3>1. IsSeq(Up) /\ IsSeq(ZeroRoots)
      BY <1>4, <1>5
    <3> QED
      BY <3>1, Cat
  <2> QED
    BY <1>4, <1>5, <2>1
<1>7. /\ IsSeq(Roots) /\ (rootsize # 0 => Roots = Up \o ZeroRoots)
      /\ rootsize = 0 => Len(Roots) = 0
  BY <1>6, NeededFacts DEF Roots
<1>8. /\ IsSeq(Pushes \o Down) /\ Len(Pushes \o Down) = m + o
      /\ \A k \in 1..m : (Pushes \o Down)[k] = Pushes[k]
      /\ \A k \in 1..o : (Pushes \o Down)[m + k] = Down[k]
  BY <1>2, <1>3, Cat
<1>9. /\ IsSeq(Entry) /\ Len(Entry) = m + o + Len(Roots)
      /\ \A k \in 1..(m + o) : Entry[k] = (Pushes \o Down)[k]
      /\ \A k \in 1..Len(Roots) : Entry[m + o + k] = Roots[k]
  <2>1. Entry = (Pushes \o Down) \o Roots
    BY DEF Entry, Pushes, Down, Roots, Up
  <2> QED
    BY <1>7, <1>8, <2>1, Cat
<1>10. rootsize # 0 => One(rootsize) = 1 /\ Len(Roots) = 1 + z
  BY <1>6, <1>7 DEF One
<1>11. rootsize = 0 => One(rootsize) = 0 /\ Len(Roots) = 0
  BY <1>7 DEF One
<1>12. ASSUME NEW k \in 1..m PROVE Entry[k] = mkinstr("pushq", <<Reg64(Saved[m - k + 1])>>)
  <2>1. k \in 1..(m + o)
    BY <1>1, <1>3
  <2> QED
    BY <1>2, <1>8, <1>9, <2>1
<1>13. stacksize # 0 => Entry[m + 1] = mkinstr("subq", <<rsp, Imm(stacksize)>>)
  <2>1. stacksize # 0 => m + 1 \in 1..(m + o) /\ 1 \in 1..o
    BY <1>1, <1>3
  <2> QED
    BY <1>3, <1>8, <1>9, <2>1
<1>14. rootsize # 0 => Entry[m + o + 1] = mkinstr("addq", <<r15, Imm(rootsize)>>)
  <2>1. rootsize # 0 => 1 \in 1..Len(Roots)
    BY <1>4, <1>10
  <2> QED
    BY <1>6, <1>7, <1>9, <2>1
<1>15. \A k \in (m + o + One(rootsize) + 1)..Len(Entry) : rootsize # 0 /\ Entry[k] \in Zeroing
  <2>1. CASE rootsize = 0
    <3>1. Len(Entry) = m + o /\ One(rootsize) = 0
      BY <1>1, <1>3, <1>9, <1>11, <2>1
    <3> QED
      BY <1>1, <1>3, <3>1
  <2>2. CASE rootsize # 0
    <3> DEFINE from == m + o + One(rootsize)
    <3>1. from \in Nat /\ from = m + o + 1 /\ Len(Entry) = from + z /\ z \in Nat
      <4>1. m \in Nat /\ o \in Nat /\ z \in Nat
        BY <1>1, <1>3, <1>4
      <4>2. One(rootsize) = 1 /\ Len(Roots) = 1 + z /\ Len(Entry) = m + o + Len(Roots)
        BY <1>9, <1>10, <2>2
      <4>3. Len(Entry) = m + o + (1 + z) /\ from = m + o + 1
        BY <4>2
      <4> HIDE DEF from
      <4>4. m + o + 1 \in Nat /\ m + o + (1 + z) = (m + o + 1) + z
        BY <4>1
      <4> QED
        BY <4>1, <4>3, <4>4
    <3> HIDE DEF from
    <3>2. ASSUME NEW q \in 1..z PROVE Entry[from + q] \in Zeroing
      <4>1. 1 + q \in 1..Len(Roots) /\ from + q = m + o + (1 + q) /\ q \in Nat
        <5>1. q \in Nat /\ 1 + q \in 1..(1 + z)
          BY <1>4
        <5>2. m \in Nat /\ o \in Nat /\ Len(Roots) = 1 + z
          BY <1>1, <1>3, <1>10, <2>2
        <5>3. (m + o + 1) + q = m + o + (1 + q)
          BY <5>1, <5>2
        <5> QED
          BY <3>1, <5>1, <5>2, <5>3
      <4>2. Entry[m + o + (1 + q)] = (Up \o ZeroRoots)[1 + q]
        BY <1>7, <1>9, <2>2, <4>1
      <4> QED
        BY <1>6, <4>1, <4>2 DEF Zeroing
    <3>3. \A k \in (from + 1)..(from + z) : Entry[k] \in Zeroing
      BY <3>1, <3>2, Rest
    <3> QED
      BY <2>2, <3>1, <3>3 DEF from
  <2> QED
    BY <2>1, <2>2
<1>16. m + o + One(rootsize) <= Len(Entry)
  BY <1>1, <1>3, <1>4, <1>9, <1>10, <1>11
<1> QED
  BY <1>1, <1>3, <1>9, <1>12, <1>13, <1>14, <1>15, <1>16

\* So many registers are saved, and so many instructions move a stack pointer.
ExitSizes(m, z, o) == m = Len(Saved) /\ z = One(rootsize) /\ o = One(stacksize)

LEMMA ExitParts ==
  ASSUME Sizes, NEW m, NEW z, NEW o, ExitSizes(m, z, o)
  PROVE  /\ IsSeq(Exit) /\ m \in Nat /\ z \in {0, 1} /\ o \in {0, 1} /\ Len(Exit) = z + o + m
         /\ rootsize # 0 => Exit[1] = mkinstr("subq", <<r15, Imm(rootsize)>>)
         /\ stacksize # 0 => Exit[z + 1] = mkinstr("addq", <<rsp, Imm(stacksize)>>)
         /\ \A k \in 1..m : Exit[z + o + k] = mkinstr("popq", <<Reg64(Saved[k])>>)
<1>0. m = Len(Saved) /\ z = One(rootsize) /\ o = One(stacksize)
  BY DEF ExitSizes
<1>1. Saved \in Seq(STRING) /\ m \in Nat /\ DOMAIN Saved = 1..m
  BY <1>0, SavedFacts DEF Sizes
<1> DEFINE pops == [n \in DOMAIN Saved |-> mkinstr("popq", <<Reg64(Saved[n])>>)]
           down == Needed(rootsize, <<mkinstr("subq", <<r15, Imm(rootsize)>>)>>)
           up   == Needed(stacksize, <<mkinstr("addq", <<rsp, Imm(stacksize)>>)>>)
<1>2. IsSeq(pops) /\ Len(pops) = m
      /\ \A k \in 1..m : pops[k] = mkinstr("popq", <<Reg64(Saved[k])>>)
  <2>1. pops = [k \in 1..m |-> pops[k]]
    BY <1>1
  <2> QED
    BY <1>1, <2>1, SeqMade
<1>3. /\ z \in {0, 1} /\ IsSeq(down) /\ Len(down) = z
      /\ rootsize # 0 => z = 1 /\ down[1] = mkinstr("subq", <<r15, Imm(rootsize)>>)
  BY <1>0, NeededFacts, OneFacts DEF One
<1>4. /\ o \in {0, 1} /\ IsSeq(up) /\ Len(up) = o
      /\ stacksize # 0 => o = 1 /\ up[1] = mkinstr("addq", <<rsp, Imm(stacksize)>>)
  BY <1>0, NeededFacts, OneFacts DEF One
<1>5. Exit = (down \o up) \o pops
  BY DEF Exit
<1> HIDE DEF pops, down, up
<1>6. /\ IsSeq(down \o up) /\ Len(down \o up) = z + o
      /\ \A k \in 1..z : (down \o up)[k] = down[k]
      /\ \A k \in 1..o : (down \o up)[z + k] = up[k]
  BY <1>3, <1>4, Cat
<1>7. /\ IsSeq(Exit) /\ Len(Exit) = z + o + m
      /\ \A k \in 1..(z + o) : Exit[k] = (down \o up)[k]
      /\ \A k \in 1..m : Exit[z + o + k] = pops[k]
  <2>1. /\ IsSeq((down \o up) \o pops)
        /\ Len((down \o up) \o pops) = Len(down \o up) + Len(pops)
        /\ \A k \in 1..Len(down \o up) : ((down \o up) \o pops)[k] = (down \o up)[k]
        /\ \A k \in 1..Len(pops) : ((down \o up) \o pops)[Len(down \o up) + k] = pops[k]
    <3>1. IsSeq(down \o up) /\ IsSeq(pops)
      BY <1>2, <1>6
    <3> QED
      BY <3>1, Cat
  <2> QED
    BY <1>2, <1>5, <1>6, <2>1
<1>8. rootsize # 0 => Exit[1] = mkinstr("subq", <<r15, Imm(rootsize)>>)
  BY <1>3, <1>4, <1>6, <1>7
<1>9. stacksize # 0 => Exit[z + 1] = mkinstr("addq", <<rsp, Imm(stacksize)>>)
  BY <1>3, <1>4, <1>6, <1>7
<1> QED
  BY <1>1, <1>2, <1>3, <1>4, <1>7, <1>8, <1>9

LEMMA ExitFacts ==
  ASSUME Sizes, NEW m, m = Len(Saved), NEW z, z = One(rootsize), NEW o, o = One(stacksize)
  PROVE  /\ IsSeq(Exit) /\ m \in Nat /\ z \in {0, 1} /\ o \in {0, 1} /\ Len(Exit) = z + o + m
         /\ rootsize # 0 => Exit[1] = mkinstr("subq", <<r15, Imm(rootsize)>>)
         /\ stacksize # 0 => Exit[z + 1] = mkinstr("addq", <<rsp, Imm(stacksize)>>)
         /\ \A k \in 1..m : Exit[z + o + k] = mkinstr("popq", <<Reg64(Saved[k])>>)
<1>1. ExitSizes(m, z, o)
  BY DEF ExitSizes
<1> QED
  BY <1>1, ExitParts

-----------------------------------------------------------------------------
(* The code between Entry and Exit                                         *)

LEMMA RegisterFacts ==
  ASSUME Convention
  PROVE  /\ \A r \in Machine64 : Full(r) = r
         /\ \A r \in Scratch : r \in Machine64 \ {"rsp", "r15"} /\ r \notin CalleeSave
         /\ \A r \in ToSet(Registers) : r \in Machine64 \ {"rsp", "r15"}
         /\ Scratch \subseteq Writable
<1>1. \A r \in Machine64 : Full(r) = r
  BY DEF Machine64, Full
<1>2. \A r \in Scratch : r \in Machine64 \ {"rsp", "r15"} /\ r \notin CalleeSave
  BY DEF Convention
<1>3. \A r \in ToSet(Registers) : r \in Machine64 \ {"rsp", "r15"}
  BY DEF Convention
<1> QED
  BY <1>1, <1>2, <1>3 DEF Writable

LEMMA SavedPrimed ==
  ASSUME Sizes'
  PROVE  ToSet(Saved)' = ToSet(registers)' \cap CalleeSave
<1>1. Saved' = Only(registers', CalleeSave)
  BY DEF Saved, Only
<1>2. registers' \in Seq(STRING)
  BY DEF Sizes
<1>3. ToSet(Only(registers', CalleeSave)) = ToSet(registers') \cap CalleeSave
  BY <1>2, OnlyFacts
<1> QED
  BY <1>1, <1>3 DEF ToSet

LEMMA AssignedSizes ==
  ASSUME Sizes, AllocInv, pc = "done", SomeRegisters, AssignHomes
  PROVE  /\ Sizes' /\ ToSet(registers') = ToSet(Registers) \cap Used
         /\ stacksize' >= 8 * Cardinality(StackKeys) /\ Cardinality(StackKeys) \in Nat
<1>1. IsProgram(f)
  BY DEF AllocInv, PositionInv
<1> DEFINE root == Cardinality(RootKeys)
           stack == Cardinality(StackKeys)
<1>2. root \in Nat /\ stack \in Nat
  BY <1>1, KeyFacts, FS_CardinalityType
<1>3. rootsize' = 8 * root /\ stacksize' = 8 * stack + ((-(8 * stack)) % 16)
  BY DEF AssignHomes
<1> HIDE DEF root, stack
<1>4. stacksize' \in Nat /\ stacksize' >= 8 * stack /\ rootsize' \in Nat
  BY <1>2, <1>3
<1>5. registers' \in Seq(STRING) /\ ToSet(registers') = ToSet(Registers) \cap Used
  BY RegistersAssumption, OnlyFacts DEF AssignHomes
<1>6. (ToSet(registers) \subseteq ToSet(Registers))' <=> ToSet(registers') \subseteq ToSet(Registers)
  BY DEF ToSet
<1> QED
  BY <1>2, <1>4, <1>5, <1>6 DEF Sizes, stack

\* Where a variable goes.
LEMMA HomePlaced ==
  ASSUME Sizes, AllocInv, pc = "done", SomeRegisters, Convention, AssignHomes,
         f \in Programs, \A p \in Programs : WritesAll(p),
         NEW p \in Places, NEW n \in DOMAIN At(p).args, NEW v, v = At(p).args[n], isVar(v),
         NEW home, home = gethome(Slot, v)
  PROVE  Placed(home, stacksize') /\ (isReg(home) => Full(home[2]) \in Writable')
<1>1. v \in G /\ Reg[v] >= 0
  BY AllHome DEF EveryVarHasHome, Args
<1>2. Spilled(v) => Key(v) \in Keys
  BY Mentioned
<1>3. /\ Sizes' /\ ToSet(registers') = ToSet(Registers) \cap Used
      /\ stacksize' >= 8 * Cardinality(StackKeys) /\ Cardinality(StackKeys) \in Nat
  BY AssignedSizes
<1>4. CASE ~Spilled(v)
  <2> DEFINE r == Registers[Reg[v] + 1]
  <2>1. Reg[v] + 1 \in DOMAIN Registers /\ home = Reg64(r)
    BY <1>1, <1>2, <1>4, HomeFacts
  <2>2. r \in ToSet(Registers)
    BY <2>1 DEF ToSet
  <2>3. r \in Machine64 \ {"rsp", "r15"} /\ Full(r) = r
    BY <2>2, RegisterFacts
  <2>4. r \in Used
    <3>1. Reg[v] \in Colours
      <4>1. Len(Registers) \in Nat /\ DOMAIN Registers = 1..Len(Registers)
        BY RegistersAssumption
      <4>2. Reg[v] \in Nat
        BY <1>1, <1>2, HomeFacts
      <4> QED
        BY <2>1, <4>1, <4>2 DEF Colours
    <3> QED
      BY <1>1, <2>2, <3>1 DEF Used, Colour
  <2>5. r \in CalleeSave => r \in ToSet(Saved)'
    <3>1. ToSet(Saved)' = ToSet(registers)' \cap CalleeSave
      BY <1>3, SavedPrimed
    <3> QED
      BY <1>3, <2>2, <2>4, <3>1
  <2>6. home[1] = "reg" /\ home[2] = r
    BY <2>1 DEF Reg64
  <2> HIDE DEF r
  <2> QED
    BY <2>3, <2>5, <2>6 DEF Placed, isReg, Writable, Machine64
<1>5. CASE Spilled(v) /\ v \in f.gcable
  <2>1. home = mkmem("r15", -8 * Nth(Key(v)))
    BY <1>1, <1>2, <1>5, HomeFacts
  <2>2. home[1] = "mem" /\ home[2] = "r15"
    BY <2>1 DEF mkmem
  <2> QED
    BY <2>2 DEF Placed, isReg, isMem, Machine64
<1>6. CASE Spilled(v) /\ v \notin f.gcable
  <2>1. Key(v) > 0 /\ home = mkmem("rsp", 8 * (Nth(Key(v)) - 1)) /\ Key(v) \in Int
    BY <1>1, <1>2, <1>6, HomeFacts, SpillFacts
  <2>2. Nth(Key(v)) \in Nat /\ Nth(Key(v)) >= 1 /\ Nth(Key(v)) <= Cardinality(StackKeys)
    BY <1>2, <1>6, <2>1, SlotBounds
  <2>3. home[1] = "mem" /\ home[2] = "rsp" /\ home[3] = 8 * (Nth(Key(v)) - 1)
    BY <2>1 DEF mkmem
  <2>4. home[3] \in 0..(stacksize' - 8)
    <3>1. stacksize' \in Int
      BY <1>3 DEF Sizes
    <3> QED
      BY <1>3, <2>2, <2>3, <3>1
  <2> QED
    BY <2>3, <2>4 DEF Placed, isReg, isMem, Machine64
<1> QED
  BY <1>4, <1>5, <1>6

Shape == IsSeq(asm) /\ \A j \in DOMAIN asm : IsSeq(asm[j])

CodeKept == Sizes /\ Shape /\ CodeInv

LEMMA AssignBody ==
  ASSUME Sizes, AllocInv, SomeRegisters, Convention, Unwritten, AssignHomes,
         f \in Programs, \A p \in Programs : WritesAll(p) /\ Selected(p),
         NEW j \in DOMAIN f.blocks, NEW k \in DOMAIN code(j)
  PROVE  Body(asm[j][k])'
<1> DEFINE home(a) == IF isVar(a) THEN gethome(Slot, a) ELSE a
           rewrite(old) == [old EXCEPT !.args = [m \in DOMAIN @ |-> home(@[m])]]
           op  == code(j)[k]
           new == asm'[j][k]
<1>1. pc = "done" /\ IsProgram(f)
  BY DEF AssignHomes, AllocInv, PositionInv
<1>2. asm' = [h \in DOMAIN asm |-> [m \in DOMAIN asm[h] |-> rewrite(asm[h][m])]]
  BY DEF AssignHomes, Slot
<1>3. asm = [h \in DOMAIN f.blocks |-> code(h)]
  BY DEF Unwritten, AssignHomes
<1>4. new = rewrite(op)
  <2> HIDE DEF rewrite
  <2> QED
    BY <1>2, <1>3
<1>5. op \in Instr
  BY <1>1, Blocks, SeqElement
<1>6. /\ new.tag = op.tag /\ new.variant = op.variant /\ new.label = op.label
      /\ new.args = [m \in DOMAIN op.args |-> home(op.args[m])]
  <2> HIDE DEF home, op, new
  <2> QED
    BY <1>4, <1>5 DEF Instr
<1>7. <<j, k>> \in Places /\ At(<<j, k>>) = op
  BY DEF Places, At
<1>8. Ordinary(op, Len(f.blocks), Scratch) /\ (\A n \in DOMAIN op.args : isVar(op.args[n]) \/ Placed(op.args[n], 0))
      /\ (op.tag = "instr" => Len(op.args) \in 1..2 \/ op.variant = "cqto")
  BY DEF Selected, code
<1>9. op.args \in Seq(Operand)
  BY <1>5 DEF Instr
<1>10. DOMAIN new.args = 1..Len(op.args) /\ Len(new.args) = Len(op.args) /\ DOMAIN op.args = 1..Len(op.args)
  <2>1. DOMAIN op.args = 1..Len(op.args) /\ Len(op.args) \in Nat
    BY <1>9
  <2> HIDE DEF home, op, new
  <2>2. DOMAIN new.args = 1..Len(op.args)
    BY <1>6, <2>1
  <2>3. new.args = [n \in 1..Len(op.args) |-> new.args[n]]
    BY <1>6, <2>1
  <2> QED
    BY <2>1, <2>2, <2>3, SeqMade
<1> HIDE DEF op, new, home
<1>11. ASSUME NEW n \in DOMAIN new.args
       PROVE  /\ Placed(new.args[n], stacksize')
              /\ isReg(new.args[n]) => \/ isReg(op.args[n]) /\ new.args[n] = op.args[n]
                                       \/ Full(new.args[n][2]) \in Writable'
  <2>1. n \in DOMAIN op.args /\ new.args[n] = home(op.args[n])
    BY <1>6, <1>10
  <2>2. CASE isVar(op.args[n])
    <3>1. new.args[n] = gethome(Slot, op.args[n])
      BY <2>1, <2>2 DEF home
    <3> QED
      BY <1>1, <1>7, <2>1, <2>2, <3>1, HomePlaced
  <2>3. CASE ~isVar(op.args[n])
    <3>1. new.args[n] = op.args[n] /\ Placed(op.args[n], 0)
      BY <1>8, <2>1, <2>3 DEF home
    <3> QED
      BY <3>1 DEF Placed
  <2> QED
    BY <2>2, <2>3
<1>12. Len(asm') = Len(f.blocks)
  <2>1. Len(f.blocks) \in Nat /\ DOMAIN f.blocks = 1..Len(f.blocks)
    BY <1>1, ProgramParts
  <2>2. asm' = [h \in 1..Len(f.blocks) |-> asm'[h]]
    BY <1>2, <1>3, <2>1
  <2> QED
    BY <2>1, <2>2, SeqMade
<1>13. Sizes'
  BY <1>1, AssignedSizes
<1>14. Scratch \subseteq Writable'
  BY RegisterFacts DEF Writable
<1>15. Ordinary(new, Len(asm'), Writable')
  <2>1. op.tag = "instr" /\ op.variant \in Simple /\ isReg(new.args[1]) => Full(new.args[1][2]) \in Writable'
    <3> SUFFICES ASSUME op.tag = "instr", op.variant \in Simple, isReg(new.args[1])
                 PROVE  Full(new.args[1][2]) \in Writable'
      OBVIOUS
    <3>1. op.variant # "cqto"
      BY DEF Simple, SetIf
    <3>2. 1 \in DOMAIN new.args
      BY <1>8, <1>10, <3>1
    <3> QED
      BY <1>8, <1>11, <1>14, <3>2 DEF Ordinary
  <2> QED
    BY <1>6, <1>8, <1>12, <2>1 DEF Ordinary
<1> QED
  BY <1>6, <1>8, <1>10, <1>11, <1>15 DEF Body, Assigned, new

LEMMA AssignCode ==
  ASSUME Sizes, AllocInv, SomeRegisters, Convention, Unwritten, AssignHomes,
         f \in Programs, \A p \in Programs : WritesAll(p) /\ Selected(p)
  PROVE  CodeKept'
<1>1. pc = "done" /\ IsProgram(f) /\ pass' = "frame"
  BY DEF AssignHomes, AllocInv, PositionInv
<1>2. asm = [h \in DOMAIN f.blocks |-> code(h)]
  BY DEF Unwritten, AssignHomes
<1>3. DOMAIN f.blocks = 1..Len(f.blocks) /\ Len(f.blocks) \in Nat
  BY <1>1, ProgramParts
<1>4. DOMAIN asm' = DOMAIN f.blocks
  BY <1>2 DEF AssignHomes
<1>5. asm' = [h \in 1..Len(f.blocks) |-> asm'[h]]
  BY <1>2, <1>3 DEF AssignHomes
<1>6. IsSeq(asm') /\ Len(asm') = Len(f.blocks)
  BY <1>3, <1>5, SeqMade
<1>7. ASSUME NEW j \in DOMAIN asm'
      PROVE  IsSeq(asm'[j]) /\ Len(asm'[j]) = Len(code(j)) /\ DOMAIN code(j) = 1..Len(code(j))
  <2>1. code(j) \in Seq(Instr)
    BY <1>1, <1>4, <1>7, Blocks
  <2>2. Len(code(j)) \in Nat /\ DOMAIN code(j) = 1..Len(code(j))
    BY <2>1
  <2>3. asm'[j] = [k \in 1..Len(code(j)) |-> asm'[j][k]]
    BY <1>2, <1>4, <1>7, <2>2 DEF AssignHomes
  <2> QED
    BY <2>2, <2>3, SeqMade
<1>8. Sizes'
  BY <1>1, AssignedSizes
<1>9. asm' # <<>>
  <2>1. f.blocks # <<>>
    BY DEF Selected
  <2>2. f.blocks \in Seq([code : Seq(Instr), succ : Seq(Nat)])
    BY <1>1 DEF IsProgram
  <2>3. Len(f.blocks) # 0
    BY <2>1, <2>2
  <2> QED
    BY <1>6, <2>3, SeqParts
<1>10. ASSUME NEW j \in DOMAIN asm', NEW k \in 1..Len(asm'[j]) PROVE Body(asm[j][k])'
  BY <1>4, <1>7, <1>10, AssignBody
<1>11. ~Framed' /\ \A j : EntryLen(j)' = 0 /\ ExitLen(j)' = 0
  BY <1>1 DEF Framed, EntryLen, ExitLen
<1>12. CodeInv'
  <2> SUFFICES ASSUME NEW j \in DOMAIN asm'
               PROVE  LET n == Len(asm[j])' - 0 IN
                        /\ 0 <= n /\ \A k \in (0 + 1)..n : Body(asm[j][k])'
    BY <1>8, <1>9, <1>11 DEF CodeInv, Sizes
  <2>1. Len(asm'[j]) \in Nat
    BY <1>7, SeqParts
  <2> QED
    BY <1>10, <2>1
<1> QED
  BY <1>6, <1>7, <1>8, <1>12 DEF CodeKept, Shape, IsSeq

-----------------------------------------------------------------------------
(* addStackFrameInstructions                                               *)

\* What does not change when the code is not assigned anew.
SameSizes == UNCHANGED <<registers, stacksize, rootsize>>

LEMMA SameFrame ==
  ASSUME SameSizes
  PROVE  Saved' = Saved /\ Entry' = Entry /\ Exit' = Exit /\ Writable' = Writable
<1>1. Saved' = Saved
  BY DEF SameSizes, Saved, Only
<1>2. ZeroRoots' = ZeroRoots
  BY DEF SameSizes, ZeroRoots
<1>3. \A size, s : Needed(size, s)' = Needed(size, s)
  BY DEF Needed
<1> QED
  BY <1>1, <1>2, <1>3 DEF SameSizes, Entry, Exit, Writable, Needed, rsp, r15, Reverse

LEMMA FrameCode ==
  ASSUME CodeKept, AddStackFrame
  PROVE  CodeKept'
<1>1. pass = "frame" /\ pass' = "patch" /\ SameSizes
  BY DEF AddStackFrame, SameSizes
<1>2. /\ Saved' = Saved /\ Entry' = Entry /\ Exit' = Exit /\ Writable' = Writable
      /\ stacksize' = stacksize
  BY <1>1, SameFrame DEF SameSizes
<1>3. IsSeq(Entry) /\ IsSeq(Exit)
  BY EntryFacts, ExitFacts DEF CodeKept
<1>4. \A j : EntryLen(j) = 0 /\ ExitLen(j) = 0
  BY <1>1 DEF EntryLen, ExitLen, Framed
<1>5. Len(asm) \in Nat /\ DOMAIN asm = 1..Len(asm) /\ asm # <<>> /\ Len(asm) # 0
  BY <1>1, SeqParts DEF CodeKept, Shape, CodeInv
<1> DEFINE first(j) == IF j = 1 THEN Entry ELSE <<>>
           last(j)  == IF j = Len(asm) THEN Exit ELSE <<>>
<1>6. asm' = [j \in 1..Len(asm) |-> (first(j) \o asm[j]) \o last(j)]
  BY <1>5 DEF AddStackFrame
<1>7. \A j : IsSeq(first(j)) /\ IsSeq(last(j))
  <2>1. IsSeq(<<>>)
    BY DEF IsSeq
  <2> QED
    BY <1>3, <2>1
<1>8. Len(asm') = Len(asm) /\ IsSeq(asm') /\ DOMAIN asm' = 1..Len(asm)
  <2> HIDE DEF first, last
  <2>1. asm' = [j \in 1..Len(asm) |-> asm'[j]]
    BY <1>6
  <2> QED
    BY <1>5, <2>1, SeqMade
<1>9. \A j : EntryLen(j)' = Len(first(j)) /\ ExitLen(j)' = Len(last(j))
  <2>1. Len(<<>>) = 0
    OBVIOUS
  <2> QED
    BY <1>1, <1>2, <1>8, <2>1 DEF EntryLen, ExitLen, Framed
<1> HIDE DEF first, last
<1>10. ASSUME NEW j \in DOMAIN asm'
       PROVE  /\ IsSeq(asm'[j])
              /\ LET n == Len(asm'[j]) - Len(last(j)) IN
                   /\ Len(first(j)) <= n
                   /\ \A k \in 1..Len(first(j)) : asm'[j][k] = first(j)[k]
                   /\ \A k \in 1..Len(last(j)) : asm'[j][n + k] = last(j)[k]
                   /\ \A k \in (Len(first(j)) + 1)..n :
                        Assigned(asm'[j][k], Len(asm), Writable, stacksize)
  <2> DEFINE s == first(j) \o asm[j]
  <2>1. j \in DOMAIN asm /\ asm'[j] = s \o last(j)
    BY <1>5, <1>6, <1>8
  <2>2. IsSeq(asm[j]) /\ IsSeq(first(j)) /\ IsSeq(last(j))
    BY <1>7, <2>1 DEF CodeKept, Shape
  <2>3. /\ IsSeq(s) /\ Len(s) = Len(first(j)) + Len(asm[j])
        /\ \A k \in 1..Len(first(j)) : s[k] = first(j)[k]
        /\ \A k \in 1..Len(asm[j]) : s[Len(first(j)) + k] = asm[j][k]
    BY <2>2, Cat
  <2> HIDE DEF s
  <2>4. /\ IsSeq(asm'[j]) /\ Len(asm'[j]) = Len(s) + Len(last(j))
        /\ \A k \in 1..Len(s) : asm'[j][k] = s[k]
        /\ \A k \in 1..Len(last(j)) : asm'[j][Len(s) + k] = last(j)[k]
    <3>1. IsSeq(s) /\ IsSeq(last(j))
      BY <2>2, <2>3
    <3>2. /\ IsSeq(s \o last(j)) /\ Len(s \o last(j)) = Len(s) + Len(last(j))
          /\ \A k \in 1..Len(s) : (s \o last(j))[k] = s[k]
          /\ \A k \in 1..Len(last(j)) : (s \o last(j))[Len(s) + k] = last(j)[k]
      BY <3>1, Cat
    <3> QED
      BY <2>1, <3>2
  <2> DEFINE e == Len(first(j))
             x == Len(last(j))
             w == Len(asm[j])
  <2>5. e \in Nat /\ x \in Nat /\ w \in Nat
    BY <2>2, SeqParts
  <2>6. Len(s) = e + w /\ Len(asm'[j]) - x = e + w
    BY <2>3, <2>4, <2>5
  <2> DEFINE T == {op \in {asm'[j][k] : k \in 1..Len(s)} : Assigned(op, Len(asm), Writable, stacksize)}
  <2>7. ASSUME NEW q \in 1..w PROVE asm'[j][e + q] \in T
    <3>1. Assigned(asm[j][q], Len(asm), Writable, stacksize)
      <4>1. w - 0 = w /\ q \in (0 + 1)..(w - 0)
        BY <2>5
      <4> QED
        BY <1>1, <1>4, <2>1, <4>1 DEF CodeKept, CodeInv, Body
    <3>2. e + q \in 1..Len(s)
      BY <2>5, <2>6
    <3> QED
      BY <2>3, <2>4, <3>1, <3>2
  <2>8. \A k \in (e + 1)..(e + w) : asm'[j][k] \in T
    <3> HIDE DEF e, w, T
    <3> QED
      BY <2>5, <2>7, Rest
  <2>9. \A k \in 1..e : asm'[j][k] = first(j)[k]
    <3>1. \A k \in 1..e : k \in 1..Len(s)
      BY <2>5, <2>6
    <3> QED
      BY <2>3, <2>4, <3>1
  <2>10. \A k \in 1..x : asm'[j][e + w + k] = last(j)[k]
    BY <2>4, <2>6
  <2> QED
    BY <2>4, <2>5, <2>6, <2>8, <2>9, <2>10
<1>11. CodeInv'
  <2>1. \A j \in DOMAIN asm' :
          /\ \A k \in 1..Len(first(j)) : first(j)[k] = Entry[k]
          /\ \A k \in 1..Len(last(j)) : last(j)[k] = Exit[k]
    <3>1. Len(<<>>) = 0
      OBVIOUS
    <3> QED
      BY <3>1 DEF first, last
  <2>2. asm' # <<>>
    BY <1>5, <1>8, SeqParts
  <2>3. stacksize' \in Nat /\ rootsize' \in Nat
    BY <1>1 DEF SameSizes, CodeKept, Sizes
  <2> SUFFICES ASSUME NEW j \in DOMAIN asm'
               PROVE  LET n == Len(asm'[j]) - Len(last(j)) IN
                        /\ Len(first(j)) <= n
                        /\ \A k \in 1..Len(first(j)) : asm'[j][k] = Entry[k]
                        /\ \A k \in 1..Len(last(j)) : asm'[j][n + k] = Exit[k]
                        /\ \A k \in (Len(first(j)) + 1)..n :
                             Assigned(asm'[j][k], Len(asm), Writable, stacksize)
    BY <1>2, <1>8, <1>9, <2>2, <2>3 DEF CodeInv, Body
  <2> QED
    BY <1>10, <2>1
<1>12. Sizes'
  BY <1>1 DEF SameSizes, CodeKept, Sizes, ToSet
<1> QED
  BY <1>8, <1>10, <1>11, <1>12 DEF CodeKept, Shape, IsSeq

-----------------------------------------------------------------------------
(* patchInstructions                                                       *)

\* The instructions that addStackFrame makes: the second operand, if there is
\* one, is a number.
FrameOp(op) == \/ \E v, a : op = mkinstr(v, <<a>>)
               \/ \E v, a, k : op = mkinstr(v, <<a, Imm(k)>>)

LEMMA FrameOps ==
  ASSUME Sizes
  PROVE  /\ \A k \in 1..Len(Entry) : FrameOp(Entry[k])
         /\ \A k \in 1..Len(Exit) : FrameOp(Exit[k])
<1> DEFINE m == Len(Saved)
           o == One(stacksize)
           z == One(rootsize)
<1>1. /\ m \in Nat /\ o \in {0, 1} /\ z \in {0, 1}
      /\ stacksize = 0 => o = 0
      /\ rootsize = 0 => z = 0
  BY SavedFacts DEF Sizes, One
<1>2. ASSUME NEW k \in 1..Len(Entry) PROVE FrameOp(Entry[k])
  <2>1. \/ k \in 1..m
        \/ stacksize # 0 /\ k = m + 1
        \/ rootsize # 0 /\ k = m + o + 1
        \/ k \in (m + o + z + 1)..Len(Entry)
    <3> HIDE DEF m, o, z
    <3> QED
      BY <1>1
  <2>2. CASE k \in 1..m
    <3>1. Entry[k] = mkinstr("pushq", <<Reg64(Saved[m - k + 1])>>)
      BY <2>2, EntryFacts
    <3> QED
      BY <3>1 DEF FrameOp
  <2>3. CASE stacksize # 0 /\ k = m + 1
    <3>1. Entry[k] = mkinstr("subq", <<rsp, Imm(stacksize)>>)
      BY <2>3, EntryFacts
    <3> QED
      BY <3>1 DEF FrameOp
  <2>4. CASE rootsize # 0 /\ k = m + o + 1
    <3>1. Entry[k] = mkinstr("addq", <<r15, Imm(rootsize)>>)
      BY <2>4, EntryFacts
    <3> QED
      BY <3>1 DEF FrameOp
  <2>5. CASE k \in (m + o + z + 1)..Len(Entry)
    <3>1. Entry[k] \in Zeroing
      BY <2>5, EntryFacts
    <3> QED
      BY <3>1 DEF FrameOp, Zeroing
  <2> QED
    BY <2>1, <2>2, <2>3, <2>4, <2>5
<1>3. ASSUME NEW k \in 1..Len(Exit) PROVE FrameOp(Exit[k])
  <2>1. Len(Exit) = z + o + m
    BY ExitFacts
  <2>2. \/ rootsize # 0 /\ k = 1
        \/ stacksize # 0 /\ k = z + 1
        \/ \E h \in 1..m : k = z + o + h
    <3> HIDE DEF m, o, z
    <3>1. k > z + o => k - (z + o) \in 1..m /\ k = z + o + (k - (z + o))
      BY <1>1, <2>1
    <3>2. k <= z + o => (rootsize # 0 /\ k = 1) \/ (stacksize # 0 /\ k = z + 1)
      BY <1>1, <2>1
    <3> QED
      BY <1>1, <2>1, <3>1, <3>2
  <2>3. CASE rootsize # 0 /\ k = 1
    <3>1. Exit[k] = mkinstr("subq", <<r15, Imm(rootsize)>>)
      BY <2>3, ExitFacts
    <3> QED
      BY <3>1 DEF FrameOp
  <2>4. CASE stacksize # 0 /\ k = z + 1
    <3>1. Exit[k] = mkinstr("addq", <<rsp, Imm(stacksize)>>)
      BY <2>4, ExitFacts
    <3> QED
      BY <3>1 DEF FrameOp
  <2>5. CASE \E h \in 1..m : k = z + o + h
    <3>1. PICK h \in 1..m : k = z + o + h
      BY <2>5
    <3>2. Exit[k] = mkinstr("popq", <<Reg64(Saved[h])>>)
      BY <3>1, ExitFacts
    <3> QED
      BY <3>2 DEF FrameOp
  <2> QED
    BY <2>2, <2>3, <2>4, <2>5
<1> QED
  BY <1>2, <1>3

LEMMA PatchFrameOp ==
  ASSUME NEW op, FrameOp(op)
  PROVE  patch(op) = <<op>>
<1>1. CASE \E v, a : op = mkinstr(v, <<a>>)
  <2>1. Len(op.args) = 1
    BY <1>1 DEF mkinstr
  <2> QED
    BY <2>1 DEF patch
<1>2. CASE \E v, a, k : op = mkinstr(v, <<a, Imm(k)>>)
  <2>1. PICK v, a, k : op = mkinstr(v, <<a, Imm(k)>>)
    BY <1>2
  <2>2. op.args[2] = Imm(k)
    BY <2>1 DEF mkinstr
  <2>3. ~isMem(op.args[2])
    BY <2>2 DEF isMem, Imm
  <2> QED
    BY <2>3 DEF patch
<1> QED
  BY <1>1, <1>2 DEF FrameOp

Parts(op) == {op, mkinstr("movq", <<rax, op.args[2]>>), mkinstr(op.variant, <<op.args[1], rax>>)}

LEMMA PatchParts ==
  ASSUME NEW op, NEW A, Parts(op) \subseteq A
  PROVE  patch(op) \in Seq(A)
  BY DEF patch, Parts

LEMMA PatchBody ==
  ASSUME NEW op, NEW n, NEW writes, NEW size, Assigned(op, n, writes, size), "rax" \in writes,
         NEW A, Parts(op) \subseteq A,
         NEW Good, \A o \in A : Assigned(o, n, writes, size) => o \in Good
  PROVE  patch(op) \in Seq(Good)
<1> DEFINE first  == mkinstr("movq", <<rax, op.args[2]>>)
           second == mkinstr(op.variant, <<op.args[1], rax>>)
<1>1. op \in Good /\ first \in A /\ second \in A
  BY DEF Parts
<1>2. ASSUME patch(op) = <<op>> PROVE patch(op) \in Seq(Good)
  BY <1>1, <1>2
<1>3. ASSUME patch(op) # <<op>> PROVE patch(op) \in Seq(Good)
  <2>1. /\ op.tag = "instr" /\ Len(op.args) = 2 /\ isMem(op.args[1]) /\ isMem(op.args[2])
        /\ patch(op) = <<first, second>>
    BY <1>3 DEF patch
  <2>2. /\ DOMAIN op.args = 1..2 /\ Placed(op.args[1], size) /\ Placed(op.args[2], size)
        /\ op.variant \in Opcodes
    <3>1. DOMAIN op.args = 1..2 /\ op.variant \in Opcodes
      BY <2>1 DEF Assigned, Ordinary
    <3> QED
      BY <2>1, <3>1 DEF Assigned
  <2>3. Placed(rax, size)
    BY DEF Placed, rax, Reg64, isReg, Full, Machine64
  <2>4. Assigned(first, n, writes, size)
    <3> DEFINE args == <<rax, op.args[2]>>
    <3>1. DOMAIN args = 1..Len(args) /\ Len(args) = 2 /\ \A k \in DOMAIN args : Placed(args[k], size)
      BY <2>2, <2>3
    <3>2. first.tag = "instr" /\ first.variant = "movq" /\ first.args = args
      BY DEF mkinstr
    <3>3. args[1] = rax /\ Full("rax") = "rax" /\ rax[2] = "rax"
      BY DEF Full, rax, Reg64
    <3> HIDE DEF args, first
    <3> QED
      BY <3>1, <3>2, <3>3 DEF Assigned, Ordinary, Opcodes, Simple
  <2>5. Assigned(second, n, writes, size)
    <3> DEFINE args == <<op.args[1], rax>>
    <3>1. DOMAIN args = 1..Len(args) /\ Len(args) = 2 /\ \A k \in DOMAIN args : Placed(args[k], size)
      BY <2>2, <2>3
    <3>2. second.tag = "instr" /\ second.variant = op.variant /\ second.args = args
      BY DEF mkinstr
    <3>3. args[1] = op.args[1] /\ ~isReg(op.args[1])
      BY <2>1 DEF isMem, isReg
    <3> HIDE DEF args, second
    <3>4. ~isReg(second.args[1])
      BY <3>2, <3>3
    <3>5. Ordinary(second, n, writes)
      BY <2>2, <3>2, <3>4 DEF Ordinary
    <3>6. Len(args) \in 1..2
      BY <3>1
    <3> QED
      BY <3>1, <3>2, <3>5, <3>6 DEF Assigned
  <2>6. first \in Good /\ second \in Good
    BY <1>1, <2>4, <2>5
  <2> HIDE DEF first, second
  <2> QED
    BY <2>1, <2>6
<1> QED
  BY <1>2, <1>3

LEMMA PatchBlock ==
  ASSUME CodeKept, Convention, pass = "patch", NEW j \in DOMAIN asm,
         NEW c, c = FlattenSeq([k \in DOMAIN asm[j] |-> patch(asm[j][k])])
  PROVE  /\ IsSeq(c)
         /\ LET n == Len(c) - ExitLen(j) IN
              /\ EntryLen(j) <= n
              /\ \A k \in 1..EntryLen(j) : c[k] = Entry[k]
              /\ \A k \in 1..ExitLen(j) : c[n + k] = Exit[k]
              /\ \A k \in (EntryLen(j) + 1)..n : Assigned(c[k], Len(asm), Writable, stacksize)
<1> DEFINE s  == asm[j]
           w  == Len(s)
           ss == [k \in DOMAIN s |-> patch(s[k])]
           A  == UNION {Parts(s[k]) : k \in 1..w}
           Good == {op \in A : Assigned(op, Len(asm), Writable, stacksize)}
           e  == EntryLen(j)
           x  == ExitLen(j)
<1>1. IsSeq(s) /\ w \in Nat /\ DOMAIN s = 1..w
  BY SeqParts DEF CodeKept, Shape
<1>2. /\ e \in Nat /\ x \in Nat
      /\ e # 0 => e = Len(Entry)
      /\ x # 0 => x = Len(Exit)
  <2>1. Len(Entry) \in Nat /\ Len(Exit) \in Nat
    BY EntryFacts, ExitFacts, SeqParts DEF CodeKept
  <2> QED
    BY <2>1 DEF EntryLen, ExitLen
<1>3. /\ e <= w - x
      /\ \A k \in 1..e : s[k] = Entry[k]
      /\ \A k \in 1..x : s[(w - x) + k] = Exit[k]
      /\ \A k \in (e + 1)..(w - x) : Assigned(s[k], Len(asm), Writable, stacksize)
  BY DEF CodeKept, CodeInv, Framed, Body
<1>4. \A k \in 1..w : Parts(s[k]) \subseteq A
  OBVIOUS
<1> HIDE DEF A
<1>5. ss \in Seq(Seq(A)) /\ Len(ss) = w
  <2>1. \A k \in 1..w : patch(s[k]) \in Seq(A)
    BY <1>4, PatchParts
  <2>2. ss \in [1..w -> Seq(A)]
    BY <1>1, <2>1
  <2>3. ss = [k \in 1..w |-> ss[k]]
    BY <1>1
  <2> HIDE DEF ss, w
  <2>4. ss \in Seq(Seq(A))
    BY <1>1, <2>2, SeqDef
  <2> QED
    BY <1>1, <2>3, <2>4, SeqMade
<1>6. \A k \in 1..w : ss[k] = patch(s[k])
  BY <1>1
<1>7. /\ \A k \in 1..Len(Entry) : patch(Entry[k]) = <<Entry[k]>>
      /\ \A k \in 1..Len(Exit) : patch(Exit[k]) = <<Exit[k]>>
  BY FrameOps, PatchFrameOp DEF CodeKept
<1> HIDE DEF s, w, ss, e, x
<1>8. \A k \in 1..e : ss[k] = <<Entry[k]>>
  <2> SUFFICES ASSUME NEW k \in 1..e PROVE ss[k] = <<Entry[k]>>
    OBVIOUS
  <2>1. k \in 1..Len(Entry) /\ k \in 1..w
    BY <1>1, <1>2, <1>3
  <2> QED
    BY <1>3, <1>6, <1>7, <2>1
<1>9. \A k \in 1..x : ss[Len(ss) - x + k] = <<Exit[k]>>
  <2> SUFFICES ASSUME NEW k \in 1..x PROVE ss[w - x + k] = <<Exit[k]>>
    BY <1>5
  <2>1. k \in 1..Len(Exit) /\ w - x + k \in 1..w
    BY <1>1, <1>2, <1>3
  <2> QED
    BY <1>3, <1>6, <1>7, <2>1
<1>10. "rax" \in Writable
  BY RegisterFacts DEF Scratch
<1>11. \A k \in (e + 1)..(Len(ss) - x) : ss[k] \in Seq(Good)
  <2> SUFFICES ASSUME NEW k \in (e + 1)..(w - x) PROVE ss[k] \in Seq(Good)
    BY <1>5
  <2>1. k \in 1..w /\ Assigned(s[k], Len(asm), Writable, stacksize)
    BY <1>1, <1>2, <1>3
  <2>2. patch(s[k]) \in Seq(Good)
    <3>1. Parts(s[k]) \subseteq A
      BY <1>4, <2>1
    <3> QED
      BY <1>10, <2>1, <3>1, PatchBody
  <2> QED
    BY <1>6, <2>1, <2>2
<1>12. /\ c \in Seq(A) /\ e <= Len(c) - x
       /\ \A k \in 1..e : c[k] = Entry[k]
       /\ \A k \in 1..x : c[Len(c) - x + k] = Exit[k]
       /\ \A k \in (e + 1)..(Len(c) - x) : c[k] \in Good
  <2>1. c = FlattenSeq(ss)
    BY DEF ss, s
  <2>2. e + x <= Len(ss)
    BY <1>1, <1>2, <1>3, <1>5
  <2>3. Good \in SUBSET A
    OBVIOUS
  <2> HIDE DEF Good
  <2>4. Pieces(ss, Good, e, x, Entry, Exit)
    BY <1>8, <1>9, <1>11, <2>2 DEF Pieces
  <2>5. ss \in Seq(Seq(A)) /\ e \in Nat /\ x \in Nat
    BY <1>2, <1>5
  <2>6. Cased(FlattenSeq(ss), A, Good, e, x, Entry, Exit)
    BY <2>4, <2>5, Flattened
  <2>7. Cased(c, A, Good, e, x, Entry, Exit)
    BY <2>1, <2>6
  <2>8. c \in Seq(A) /\ Len(c) \in Nat /\ e + x <= Len(c)
    BY <2>7 DEF Cased
  <2>9. e <= Len(c) - x
    BY <2>5, <2>8
  <2> QED
    BY <2>7, <2>9 DEF Cased
<1>13. IsSeq(c)
  BY <1>12 DEF IsSeq
<1> QED
  BY <1>12, <1>13 DEF e, x

LEMMA PatchCode ==
  ASSUME CodeKept, Convention, PatchInstructions
  PROVE  CodeKept'
<1>1. pass = "patch" /\ pass' = "compiled" /\ SameSizes
  BY DEF PatchInstructions, SameSizes
<1>2. /\ Saved' = Saved /\ Entry' = Entry /\ Exit' = Exit /\ Writable' = Writable
      /\ stacksize' = stacksize
  BY <1>1, SameFrame DEF SameSizes
<1>3. Len(asm) \in Nat /\ DOMAIN asm = 1..Len(asm) /\ asm # <<>> /\ Len(asm) # 0
  BY <1>1, SeqParts DEF CodeKept, Shape, CodeInv, Framed
<1>4. asm' = [j \in 1..Len(asm) |-> FlattenSeq([k \in DOMAIN asm[j] |-> patch(asm[j][k])])]
  BY <1>3 DEF PatchInstructions
<1>5. Len(asm') = Len(asm) /\ IsSeq(asm') /\ DOMAIN asm' = 1..Len(asm)
  <2>1. asm' = [j \in 1..Len(asm) |-> asm'[j]]
    BY <1>4
  <2> QED
    BY <1>3, <2>1, SeqMade
<1>6. \A j : EntryLen(j)' = EntryLen(j) /\ ExitLen(j)' = ExitLen(j)
  BY <1>1, <1>2, <1>5 DEF EntryLen, ExitLen, Framed
<1>7. ASSUME NEW j \in DOMAIN asm'
      PROVE  /\ IsSeq(asm'[j])
             /\ LET n == Len(asm'[j]) - ExitLen(j) IN
                  /\ EntryLen(j) <= n
                  /\ \A k \in 1..EntryLen(j) : asm'[j][k] = Entry[k]
                  /\ \A k \in 1..ExitLen(j) : asm'[j][n + k] = Exit[k]
                  /\ \A k \in (EntryLen(j) + 1)..n : Assigned(asm'[j][k], Len(asm), Writable, stacksize)
  <2>1. j \in DOMAIN asm /\ asm'[j] = FlattenSeq([k \in DOMAIN asm[j] |-> patch(asm[j][k])])
    BY <1>3, <1>4, <1>5
  <2> QED
    BY <1>1, <2>1, PatchBlock
<1>8. asm' # <<>>
  BY <1>3, <1>5, SeqParts
<1>9. stacksize' \in Nat /\ rootsize' \in Nat
  BY <1>1 DEF SameSizes, CodeKept, Sizes
<1>10. CodeInv'
  BY <1>2, <1>5, <1>6, <1>7, <1>8, <1>9 DEF CodeInv, Body
<1>11. Sizes'
  BY <1>1 DEF SameSizes, CodeKept, Sizes, ToSet
<1> QED
  BY <1>5, <1>7, <1>10, <1>11 DEF CodeKept, Shape, IsSeq
=============================================================================
