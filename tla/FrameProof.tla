----------------------------- MODULE FrameProof -----------------------------
(***************************************************************************)
(* Theorems about compiled code as it runs: the frame that                 *)
(* addStackFrameInstructions and patchInstructions put around the code is  *)
(* entered and left as a whole, whatever the code between does.  Each      *)
(* instruction of Entry takes the machine from Entered(d) to Entered(d+1), *)
(* each of Exit from Left(u) to Left(u+1), and the instructions between    *)
(* keep Inside.                                                            *)
(***************************************************************************)
EXTENDS SelectProof

-----------------------------------------------------------------------------
(* The frame at run time                                                   *)

Outside == Frame(0, 0, 0)

LEMMA Ends ==
  Sizes => /\ Entered(0) <=> Outside
           /\ Entered(Len(Entry)) <=> Inside
           /\ Left(0) <=> Inside
           /\ Left(Len(Exit)) <=> Outside
<1> SUFFICES ASSUME Sizes
             PROVE  /\ Entered(0) <=> Outside
                    /\ Entered(Len(Entry)) <=> Inside
                    /\ Left(0) <=> Inside
                    /\ Left(Len(Exit)) <=> Outside
  OBVIOUS
<1> DEFINE m == Len(Saved)
           o == One(stacksize)
           z == One(rootsize)
           e == Len(Entry)
           x == Len(Exit)
<1>1. /\ m \in Nat /\ o \in {0, 1} /\ z \in {0, 1}
      /\ (stacksize = 0 <=> o = 0) /\ (rootsize = 0 <=> z = 0)
  BY SavedFacts DEF Sizes, One
<1>2. e \in Nat /\ m + o + z <= e
  BY EntryFacts, SeqParts
<1>3. x = z + o + m
  BY ExitFacts
<1> HIDE DEF m, o, z, e, x
<1>4. /\ (IF 0 < m THEN 0 ELSE m) = 0
      /\ (IF 0 >= m + o THEN stacksize ELSE 0) = 0
      /\ (IF 0 >= m + o + z THEN rootsize ELSE 0) = 0
  BY <1>1
<1>5. /\ (IF e < m THEN e ELSE m) = m
      /\ (IF e >= m + o THEN stacksize ELSE 0) = stacksize
      /\ (IF e >= m + o + z THEN rootsize ELSE 0) = rootsize
  BY <1>1, <1>2
<1>6. /\ (IF 0 > z + o THEN m - (0 - (z + o)) ELSE m) = m
      /\ (IF 0 >= z + o THEN 0 ELSE stacksize) = stacksize
      /\ (IF 0 >= z THEN 0 ELSE rootsize) = rootsize
  BY <1>1
<1>7. /\ (IF x > z + o THEN m - (x - (z + o)) ELSE m) = 0
      /\ (IF x >= z + o THEN 0 ELSE stacksize) = 0
      /\ (IF x >= z THEN 0 ELSE rootsize) = 0
  BY <1>1, <1>3
<1> QED
  BY <1>4, <1>5, <1>6, <1>7 DEF Entered, Left, Inside, Outside, m, o, z, e, x

\* Memory other than the pushed registers.
LEMMA WriteMemory ==
  ASSUME NEW p, NEW s, NEW z, Frame(p, s, z), Saved' = Saved, regs' = regs,
         NEW a, \A k \in Int : k <= p => a # <<"stack", -8 * k>>, DOMAIN Saved = 1..Len(Saved),
         Len(Saved) \in Nat,
         NEW v, v[1] # "stack", memory' = With(memory, a, v)
  PROVE  Frame(p, s, z)'
<1>1. DOMAIN memory' = DOMAIN memory \cup {a} /\ memory'[a] = v
      /\ \A c \in DOMAIN memory : c # a => memory'[c] = memory[c]
  BY DEF With
<1>2. (ToSet(Saved))' = ToSet(Saved)
  BY DEF ToSet
<1>3. \A n \in DOMAIN Saved : Len(Saved) - n + 1 \in Int
  OBVIOUS
<1>4. \A n \in DOMAIN Saved :
        LET place == Len(Saved) - n + 1 IN
          IF place <= p THEN /\ <<"stack", -8 * place>> \in DOMAIN memory'
                             /\ memory'[<<"stack", -8 * place>>] = Before64[Saved[n]]
                        ELSE regs[Saved[n]] = Before64[Saved[n]]
  BY <1>1, <1>3 DEF Frame
<1>5. \A c \in DOMAIN memory' : memory'[c][1] # "stack"
  BY <1>1 DEF Frame
<1> QED
  BY <1>2, <1>4, <1>5 DEF Frame

\* The stack pointers move.
LEMMA MoveStack ==
  ASSUME NEW p, NEW s, NEW z, Frame(p, s, z), Saved' = Saved, memory' = memory,
         "rsp" \notin ToSet(Saved), NEW d,
         regs' = [regs EXCEPT !["rsp"] = <<"stack", -8 * p - d>>]
  PROVE  Frame(p, d, z)'
<1>1. (ToSet(Saved))' = ToSet(Saved)
  BY DEF ToSet
<1>2. \A n \in DOMAIN Saved : Saved[n] # "rsp"
  BY DEF ToSet
<1>3. "rsp" \in Machine64 /\ "r15" # "rsp"
  BY DEF Machine64
<1>4. /\ DOMAIN regs' = Machine64 /\ regs'["rsp"] = <<"stack", -8 * p - d>>
      /\ \A c : c # "rsp" => regs'[c] = regs[c]
  BY <1>3 DEF Frame
<1> QED
  BY <1>1, <1>2, <1>3, <1>4 DEF Frame

LEMMA MoveRoots ==
  ASSUME NEW p, NEW s, NEW z, Frame(p, s, z), Saved' = Saved, memory' = memory,
         "r15" \notin ToSet(Saved), NEW d,
         regs' = [regs EXCEPT !["r15"] = <<"root", d>>]
  PROVE  Frame(p, s, d)'
<1>1. (ToSet(Saved))' = ToSet(Saved)
  BY DEF ToSet
<1>2. \A n \in DOMAIN Saved : Saved[n] # "r15"
  BY DEF ToSet
<1>3. "r15" \in Machine64 /\ "r15" # "rsp"
  BY DEF Machine64
<1>4. /\ DOMAIN regs' = Machine64 /\ regs'["r15"] = <<"root", d>>
      /\ \A c : c # "r15" => regs'[c] = regs[c]
  BY <1>3 DEF Frame
<1>5. <<"root", d>>[1] # "stack"
  OBVIOUS
<1> QED
  BY <1>1, <1>2, <1>3, <1>4, <1>5 DEF Frame

\* What the lemmas below need of the registers that are pushed.
Pushed == /\ Len(Saved) \in Nat /\ DOMAIN Saved = 1..Len(Saved)
          /\ \A n \in DOMAIN Saved : Saved[n] \in Machine64 \ {"rsp", "r15"}

LEMMA PushedFacts ==
  ASSUME Sizes, Convention
  PROVE  Pushed /\ "rsp" \notin ToSet(Saved) /\ "r15" \notin ToSet(Saved)
<1>1. Pushed
  BY SavedFacts, RegisterFacts DEF Sizes, Pushed
<1> QED
  BY <1>1 DEF Pushed, ToSet

LEMMA BeforeFacts ==
  /\ \A r \in Machine64 \ {"rsp", "r15"} : Before64[r] = <<"before", r>>
  /\ \A r \in Machine64 \ {"rsp"} : Before64[r][1] # "stack"
  /\ Before64["rsp"] = <<"stack", 0>> /\ Before64["r15"] = <<"root", 0>>
  BY DEF Before64, Machine64

LEMMA PushFrame ==
  ASSUME NEW p \in Nat, NEW z, Frame(p, 0, z), Saved' = Saved, Pushed, p < Len(Saved),
         NEW a, a = <<"stack", -8 * (p + 1)>>, NEW r, r = Saved[Len(Saved) - p],
         regs' = [regs EXCEPT !["rsp"] = a], memory' = With(memory, a, regs[r])
  PROVE  Frame(p + 1, 0, z)'
<1> DEFINE m == Len(Saved)
           place(n) == m - n + 1
<1>1. /\ m \in Nat /\ DOMAIN Saved = 1..m /\ m - p \in DOMAIN Saved
      /\ \A n \in DOMAIN Saved : Saved[n] \in Machine64 \ {"rsp", "r15"}
  BY DEF Pushed
<1>2. regs[r] = Before64[r] /\ r \in Machine64 \ {"rsp", "r15"}
  <2>1. m - (m - p) + 1 = p + 1 /\ ~(p + 1 <= p)
    BY <1>1
  <2> QED
    BY <1>1, <2>1 DEF Frame
<1>3. regs[r][1] # "stack"
  BY <1>2, BeforeFacts
<1>4. DOMAIN memory' = DOMAIN memory \cup {a} /\ memory'[a] = regs[r]
      /\ \A c \in DOMAIN memory : c # a => memory'[c] = memory[c]
  BY DEF With
<1>5. "rsp" \in Machine64
  BY DEF Machine64
<1>6. /\ DOMAIN regs' = Machine64 /\ regs'["rsp"] = a
      /\ \A c : c # "rsp" => regs'[c] = regs[c]
  BY <1>5 DEF Frame
<1>7. a = <<"stack", -8 * (p + 1) - 0>>
  OBVIOUS
<1>8. (ToSet(Saved))' = ToSet(Saved)
  BY DEF ToSet
<1>9. ASSUME NEW n \in DOMAIN Saved
      PROVE  IF place(n) <= p + 1 THEN /\ <<"stack", -8 * place(n)>> \in DOMAIN memory'
                                       /\ memory'[<<"stack", -8 * place(n)>>] = Before64[Saved[n]]
                                  ELSE regs'[Saved[n]] = Before64[Saved[n]]
  <2>1. place(n) \in Nat
    BY <1>1
  <2>2. CASE place(n) = p + 1
    <3>1. n = m - p
      BY <1>1, <2>2
    <3> QED
      BY <1>2, <1>4, <2>2, <3>1
  <2>3. CASE place(n) <= p
    <3>1. <<"stack", -8 * place(n)>> # a /\ place(n) <= p + 1
      BY <2>1, <2>3
    <3>2. /\ <<"stack", -8 * place(n)>> \in DOMAIN memory
          /\ memory[<<"stack", -8 * place(n)>>] = Before64[Saved[n]]
      BY <2>3 DEF Frame
    <3> QED
      BY <1>4, <3>1, <3>2
  <2>4. CASE place(n) > p + 1
    <3>1. ~(place(n) <= p) /\ ~(place(n) <= p + 1)
      BY <2>1, <2>4
    <3>2. regs[Saved[n]] = Before64[Saved[n]]
      BY <3>1 DEF Frame
    <3> QED
      BY <1>1, <1>6, <3>1, <3>2
  <2> HIDE DEF place
  <2> QED
    BY <2>1, <2>2, <2>3, <2>4
<1>10. \A c \in DOMAIN memory' : memory'[c][1] # "stack"
  BY <1>3, <1>4 DEF Frame
<1> QED
  BY <1>1, <1>6, <1>7, <1>8, <1>9, <1>10 DEF Frame

LEMMA PopFrame ==
  ASSUME NEW p \in Nat, NEW z, Frame(p, 0, z), Saved' = Saved, Pushed, 0 < p, p <= Len(Saved),
         NEW r, r = Saved[Len(Saved) - p + 1], memory' = memory, Convention,
         regs' = [regs EXCEPT ![r] = memory[regs["rsp"]], !["rsp"] = Add(regs["rsp"], Int64(8))]
  PROVE  Frame(p - 1, 0, z)'
<1> DEFINE m == Len(Saved)
           place(n) == m - n + 1
<1>1. /\ m \in Nat /\ DOMAIN Saved = 1..m /\ m - p + 1 \in DOMAIN Saved
      /\ \A n \in DOMAIN Saved : Saved[n] \in Machine64 \ {"rsp", "r15"}
  BY DEF Pushed
<1>2. regs["rsp"] = <<"stack", -8 * p>> /\ memory[<<"stack", -8 * p>>] = Before64[r]
      /\ <<"stack", -8 * p>> \in DOMAIN memory
  <2>1. m - (m - p + 1) + 1 = p /\ p <= p /\ -8 * p - 0 = -8 * p
    BY <1>1
  <2> QED
    BY <1>1, <2>1 DEF Frame
<1>3. Add(regs["rsp"], Int64(8)) = <<"stack", -8 * (p - 1) - 0>>
  <2>1. Add(<<"stack", -8 * p>>, Int64(8)) = <<"stack", -8 * p + 8>>
    BY DEF Add, Int64
  <2>2. -8 * p + 8 = -8 * (p - 1) - 0
    OBVIOUS
  <2> QED
    BY <1>2, <2>1, <2>2
<1>4. "rsp" \in Machine64 /\ r \in Machine64 \ {"rsp", "r15"} /\ Before64[r][1] # "stack"
  BY <1>1, BeforeFacts DEF Machine64
<1>5. /\ DOMAIN regs' = Machine64 /\ regs'["rsp"] = <<"stack", -8 * (p - 1) - 0>>
      /\ regs'[r] = Before64[r]
      /\ \A c \in Machine64 : c # "rsp" /\ c # r => regs'[c] = regs[c]
  <2>1. DOMAIN regs = Machine64
    BY DEF Frame
  <2>2. /\ DOMAIN regs' = Machine64
        /\ regs'["rsp"] = Add(regs["rsp"], Int64(8))
        /\ regs'[r] = memory[regs["rsp"]]
        /\ \A c \in Machine64 : c # "rsp" /\ c # r => regs'[c] = regs[c]
    BY <1>4, <2>1
  <2> QED
    BY <1>2, <1>3, <2>2
<1>6. (ToSet(Saved))' = ToSet(Saved) /\ r \in ToSet(Saved)
  BY <1>1 DEF ToSet
<1>7. ASSUME NEW n \in DOMAIN Saved
      PROVE  IF place(n) <= p - 1 THEN /\ <<"stack", -8 * place(n)>> \in DOMAIN memory'
                                       /\ memory'[<<"stack", -8 * place(n)>>] = Before64[Saved[n]]
                                  ELSE regs'[Saved[n]] = Before64[Saved[n]]
  <2>1. place(n) \in Nat
    BY <1>1
  <2>2. CASE place(n) = p
    <3>1. n = m - p + 1 /\ ~(place(n) <= p - 1)
      BY <1>1, <2>2
    <3> QED
      BY <1>5, <3>1
  <2>3. CASE place(n) <= p - 1
    <3>1. place(n) <= p
      BY <2>1, <2>3
    <3> QED
      BY <2>3, <3>1 DEF Frame
  <2>4. CASE place(n) > p
    <3>1. ~(place(n) <= p) /\ ~(place(n) <= p - 1)
      BY <2>1, <2>4
    <3>2. regs[Saved[n]] = Before64[Saved[n]]
      BY <3>1 DEF Frame
    <3> QED
      BY <1>1, <1>5, <3>1, <3>2
  <2> HIDE DEF place
  <2> QED
    BY <2>1, <2>2, <2>3, <2>4
<1>8. \A c \in Machine64 \ {"rsp"} : regs'[c][1] # "stack"
  BY <1>4, <1>5 DEF Frame
<1>9. \A c \in CalleeSave \ {"rsp", "r15"} : c \notin ToSet(Saved) => regs'[c] = Before64[c]
  BY <1>5, <1>6 DEF Frame, Convention
<1>10. regs'["r15"] = <<"root", z>>
  BY <1>4, <1>5 DEF Frame, Machine64
<1> QED
  BY <1>5, <1>6, <1>7, <1>8, <1>9, <1>10 DEF Frame

LEMMA CallFrame ==
  ASSUME NEW p \in Nat, NEW s, NEW z, Frame(p, s, z), Saved' = Saved, Pushed, p = Len(Saved),
         Convention, NEW t, t[1] = "tuple",
         regs' = [r \in DOMAIN regs |-> IF r = "rax" THEN t
                                        ELSE IF r \in CallerSave THEN Junk ELSE Moved(regs[r])],
         memory' = [a \in DOMAIN memory |-> IF Updated(a) THEN memory[a] ELSE Moved(memory[a])]
  PROVE  Frame(p, s, z)'
<1>1. /\ \A v : v[1] # "stack" => Moved(v)[1] # "stack"
      /\ \A v : v[1] # "tuple" => Moved(v) = v
  BY DEF Moved, Stale
<1>2. /\ "rsp" \in Machine64 /\ "r15" \in Machine64 /\ "rsp" # "rax" /\ "r15" # "rax"
      /\ "rsp" \notin CallerSave /\ "r15" \notin CallerSave
  BY DEF Convention, Machine64
<1>3. DOMAIN regs' = Machine64 /\ DOMAIN regs = Machine64 /\ DOMAIN memory' = DOMAIN memory
  BY DEF Frame
<1>4. regs'["rsp"] = <<"stack", -8 * p - s>> /\ regs'["r15"] = <<"root", z>>
  <2>1. Moved(regs["rsp"]) = regs["rsp"] /\ Moved(regs["r15"]) = regs["r15"]
    BY <1>1 DEF Frame
  <2> QED
    BY <1>2, <1>3, <2>1 DEF Frame
<1>5. (ToSet(Saved))' = ToSet(Saved)
  BY DEF ToSet
<1>6. ASSUME NEW r \in CalleeSave \ {"rsp", "r15"}, r \notin ToSet(Saved)
      PROVE  regs'[r] = Before64[r]
  <2>1. r \in Machine64 /\ r \notin CallerSave /\ r # "rax"
    BY <1>6 DEF Convention, Scratch
  <2>2. regs[r] = Before64[r] /\ Before64[r][1] # "tuple"
    BY <1>6, <2>1, BeforeFacts DEF Frame
  <2> QED
    BY <1>1, <1>3, <2>1, <2>2
<1>7. ASSUME NEW n \in DOMAIN Saved
      PROVE  IF p - n + 1 <= p THEN /\ <<"stack", -8 * (p - n + 1)>> \in DOMAIN memory'
                                    /\ memory'[<<"stack", -8 * (p - n + 1)>>] = Before64[Saved[n]]
                               ELSE regs'[Saved[n]] = Before64[Saved[n]]
  <2> DEFINE a == <<"stack", -8 * (p - n + 1)>>
  <2>1. p - n + 1 <= p /\ Saved[n] \in Machine64 \ {"rsp", "r15"}
    BY DEF Pushed
  <2>2. a \in DOMAIN memory /\ memory[a] = Before64[Saved[n]]
    BY <2>1 DEF Frame
  <2>3. Moved(memory[a]) = memory[a]
    BY <1>1, <2>1, <2>2, BeforeFacts
  <2> HIDE DEF a
  <2>4. a \in DOMAIN memory' /\ memory'[a] = Before64[Saved[n]]
    BY <2>2, <2>3
  <2> QED
    BY <2>1, <2>4 DEF a
<1>8. \A r \in Machine64 \ {"rsp"} : regs'[r][1] # "stack"
  BY <1>1, <1>3 DEF Frame, Junk
<1>9. \A a \in DOMAIN memory' : memory'[a][1] # "stack"
  BY <1>1 DEF Frame
<1> QED
  BY <1>3, <1>4, <1>5, <1>6, <1>7, <1>8, <1>9 DEF Frame

-----------------------------------------------------------------------------
(* How far the frame has been entered or left, before and after a step     *)

EnterArgs(d, p, s, z) ==
  /\ p = IF d < Len(Saved) THEN d ELSE Len(Saved)
  /\ s = IF d >= Len(Saved) + One(stacksize) THEN stacksize ELSE 0
  /\ z = IF d >= Len(Saved) + One(stacksize) + One(rootsize) THEN rootsize ELSE 0
LeaveArgs(u, p, s, z) ==
  LET back == One(rootsize) + One(stacksize) IN
  /\ p = IF u > back THEN Len(Saved) - (u - back) ELSE Len(Saved)
  /\ s = IF u >= back THEN 0 ELSE stacksize
  /\ z = IF u >= One(rootsize) THEN 0 ELSE rootsize

\* What Entered, Left and Inside say, as formulas that hold after a step too.
Spelt == /\ \A d, p, s, z : EnterArgs(d, p, s, z) => (Entered(d) <=> Frame(p, s, z))
         /\ \A u, p, s, z : LeaveArgs(u, p, s, z) => (Left(u) <=> Frame(p, s, z))
         /\ \A p, s, z : p = Len(Saved) /\ s = stacksize /\ z = rootsize
                           => (Inside <=> Frame(p, s, z))

LEMMA SpeltHolds == Spelt
  BY DEF Spelt, EnterArgs, Entered, LeaveArgs, Left, Inside

LEMMA SpeltAfter == TRUE => Spelt'
  BY SpeltHolds, PTL

LEMMA EnteredAfter ==
  ASSUME SameSizes, NEW d, NEW p, NEW s, NEW z, EnterArgs(d, p, s, z), Frame(p, s, z)'
  PROVE  Entered(d)'
<1>1. EnterArgs(d, p, s, z)' => (Entered(d)' <=> Frame(p, s, z)')
  BY SpeltAfter DEF Spelt
<1>2. EnterArgs(d, p, s, z)'
  BY SameFrame DEF EnterArgs, SameSizes, One
<1> QED
  BY <1>1, <1>2

LEMMA LeftAfter ==
  ASSUME SameSizes, NEW u, NEW p, NEW s, NEW z, LeaveArgs(u, p, s, z), Frame(p, s, z)'
  PROVE  Left(u)'
<1>1. LeaveArgs(u, p, s, z)' => (Left(u)' <=> Frame(p, s, z)')
  BY SpeltAfter DEF Spelt
<1>2. LeaveArgs(u, p, s, z)'
  BY SameFrame DEF LeaveArgs, SameSizes, One
<1> QED
  BY <1>1, <1>2

LEMMA InsideAfter ==
  ASSUME SameSizes, NEW p, NEW s, NEW z, p = Len(Saved), s = stacksize, z = rootsize
  PROVE  (Inside <=> Frame(p, s, z)) /\ (Frame(p, s, z)' => Inside')
<1>1. Inside <=> Frame(p, s, z)
  BY SpeltHolds DEF Spelt
<1>2. p = Len(Saved)' /\ s = stacksize' /\ z = rootsize' => (Inside' <=> Frame(p, s, z)')
  BY SpeltAfter DEF Spelt
<1>3. Len(Saved)' = Len(Saved) /\ stacksize' = stacksize /\ rootsize' = rootsize
  BY SameFrame DEF SameSizes
<1> QED
  BY <1>1, <1>2, <1>3

LEMMA SameAll ==
  ASSUME NEW p, NEW s, NEW z, Frame(p, s, z), Saved' = Saved, regs' = regs, memory' = memory
  PROVE  Frame(p, s, z)'
<1>1. (ToSet(Saved))' = ToSet(Saved)
  BY DEF ToSet
<1> QED
  BY <1>1 DEF Frame

-----------------------------------------------------------------------------
(* Values                                                                  *)

LEMMA LoadBody ==
  ASSUME NEW p, NEW s, NEW z, Frame(p, s, z), NEW a, NEW size, Placed(a, size)
  PROVE  Load(a)[1] # "stack"
<1>1. CASE a[1] = "imm"
  <2>1. Load(a) = Int64(a[2])
    BY <1>1 DEF Load, isReg, isMem
  <2> QED
    BY <2>1 DEF Int64
<1>2. CASE isReg(a) /\ Full(a[2]) \in Machine64 \ {"rsp"}
  <2>1. Load(a) = regs[Full(a[2])]
    BY <1>2 DEF Load, isReg, isMem
  <2> QED
    BY <1>2, <2>1 DEF Frame
<1>3. CASE isMem(a)
  <2>1. Load(a) = IF Address(a) \in DOMAIN memory THEN memory[Address(a)] ELSE Junk
    BY <1>3 DEF Load, isReg, isMem
  <2> QED
    BY <2>1 DEF Frame, Junk
<1> QED
  BY <1>1, <1>2, <1>3 DEF Placed

LEMMA OutcomeBody ==
  ASSUME NEW p, NEW s, NEW z, Frame(p, s, z), NEW size, instr.variant \in Simple,
         Len(instr.args) \in 1..2, \A k \in 1..Len(instr.args) : Placed(instr.args[k], size)
  PROVE  Outcome[1] # "stack"
<1> DEFINE d == Load(instr.args[1])
           e == Load(instr.args[Len(instr.args)])
           v == instr.variant
<1>1. d[1] # "stack" /\ e[1] # "stack"
  <2>1. 1 \in 1..Len(instr.args) /\ Len(instr.args) \in 1..Len(instr.args)
    <3>1. \A most \in 1..2 : 1 \in 1..most /\ most \in 1..most
      OBVIOUS
    <3> QED
      BY <3>1
  <2> QED
    BY <2>1, LoadBody
<1>2. Outcome = CASE v \in {"movq", "movzbq"} -> e
                  [] v = "addq" -> Add(d, e)
                  [] v = "subq" -> Sub(d, e)
                  [] v = "imul" -> <<"*", d, e>>
                  [] v = "negq" -> Sub(Int64(0), d)
                  [] v \in DOMAIN SetIf -> <<SetIf[v], flags[1], flags[2]>>
  BY DEF Outcome
<1>3. v \in {"movq", "movzbq", "addq", "subq", "imul", "negq"} \cup DOMAIN SetIf
  BY DEF Simple
<1>4. DOMAIN SetIf = {"setz", "setnz", "setl", "setle", "setg", "setge"}
      /\ \A c \in DOMAIN SetIf : SetIf[c] # "stack"
  BY DEF SetIf
<1> HIDE DEF d, e, v
<1>5. CASE v \in {"movq", "movzbq"}
  BY <1>1, <1>2, <1>4, <1>5
<1>6. CASE v = "addq"
  <2>1. Outcome = Add(d, e)
    BY <1>2, <1>4, <1>6
  <2> QED
    BY <1>1, <2>1 DEF Add
<1>7. CASE v = "subq"
  <2>1. Outcome = Sub(d, e)
    BY <1>2, <1>4, <1>7
  <2> QED
    BY <1>1, <2>1 DEF Sub
<1>8. CASE v = "imul"
  <2>1. Outcome = <<"*", d, e>>
    BY <1>2, <1>4, <1>8
  <2> QED
    BY <2>1
<1>9. CASE v = "negq"
  <2>1. Outcome = Sub(Int64(0), d)
    BY <1>2, <1>4, <1>9
  <2> QED
    BY <2>1 DEF Sub, Int64
<1>10. CASE v \in DOMAIN SetIf
  <2>1. Outcome = <<SetIf[v], flags[1], flags[2]>>
    BY <1>2, <1>4, <1>10
  <2> QED
    BY <1>4, <1>10, <2>1
<1> QED
  BY <1>3, <1>5, <1>6, <1>7, <1>8, <1>9, <1>10

LEMMA AddressBody ==
  ASSUME NEW p \in Nat, NEW s \in Nat, NEW z, Frame(p, s, z), NEW a, isMem(a), Placed(a, s)
  PROVE  \A k \in Int : k <= p => Address(a) # <<"stack", -8 * k>>
<1>1. a[2] \in Machine64 /\ (a[2] = "rsp" => a[3] \in 0..(s - 8))
  BY DEF Placed, isMem, isReg
<1>2. CASE a[2] = "rsp"
  <2>1. regs[a[2]] = <<"stack", -8 * p - s>>
    BY <1>2 DEF Frame
  <2>2. Address(a) = <<"stack", (-8 * p - s) + a[3]>>
    BY <2>1 DEF Address
  <2>3. \A k \in Int : k <= p => (-8 * p - s) + a[3] # -8 * k
    BY <1>1, <1>2
  <2> QED
    BY <2>2, <2>3
<1>3. CASE a[2] # "rsp"
  <2> DEFINE base == regs[a[2]]
  <2>1. base[1] # "stack"
    BY <1>1, <1>3 DEF Frame
  <2>2. Address(a) = CASE base[1] \in {"root", "stack"} -> <<base[1], base[2] + a[3]>>
                       [] base[1] = "tuple" -> <<"tuple", base[2], a[3]>>
                       [] OTHER -> Junk
    BY DEF Address
  <2> HIDE DEF base
  <2>3. Address(a)[1] # "stack"
    BY <2>1, <2>2 DEF Junk
  <2> QED
    BY <2>3
<1> QED
  BY <1>2, <1>3

\* Registers that the frame says nothing of, because they are pushed.
LEMMA WriteRegisters ==
  ASSUME NEW p \in Nat, NEW s, NEW z, Frame(p, s, z), Saved' = Saved, memory' = memory,
         Pushed, Len(Saved) = p, Convention, DOMAIN regs' = Machine64,
         \A r \in Machine64 : \/ regs'[r] = regs[r]
                              \/ r \in Writable /\ regs'[r][1] # "stack"
  PROVE  Frame(p, s, z)'
<1>1. /\ regs["rsp"] = <<"stack", -8 * p - s>>
      /\ regs["r15"] = <<"root", z>>
      /\ \A c \in CalleeSave \ {"rsp", "r15"} : c \notin ToSet(Saved) => regs[c] = Before64[c]
      /\ \A c \in Machine64 \ {"rsp"} : regs[c][1] # "stack"
      /\ \A a \in DOMAIN memory : memory[a][1] # "stack"
  BY DEF Frame
<1>2. DOMAIN Saved = 1..p
  BY DEF Pushed
<1>3. \A n \in DOMAIN Saved :
        /\ <<"stack", -8 * (p - n + 1)>> \in DOMAIN memory
        /\ memory[<<"stack", -8 * (p - n + 1)>>] = Before64[Saved[n]]
  <2> SUFFICES ASSUME NEW n \in DOMAIN Saved
               PROVE  /\ <<"stack", -8 * (p - n + 1)>> \in DOMAIN memory
                      /\ memory[<<"stack", -8 * (p - n + 1)>>] = Before64[Saved[n]]
    OBVIOUS
  <2>1. p - n + 1 <= p
    BY <1>2
  <2> QED
    BY <2>1 DEF Frame
<1>4. \A n \in DOMAIN Saved' : p - n + 1 <= p
  BY <1>2
<1>5. (ToSet(Saved))' = ToSet(Saved)
  BY DEF ToSet
<1>6. \A n \in DOMAIN Saved' :
        LET place == Len(Saved') - n + 1 IN
          IF place <= p THEN /\ <<"stack", -8 * place>> \in DOMAIN memory'
                             /\ memory'[<<"stack", -8 * place>>] = Before64[Saved'[n]]
                        ELSE regs'[Saved'[n]] = Before64[Saved'[n]]
  BY <1>3, <1>4
<1>7. "rsp" \in Machine64 /\ "r15" \in Machine64 /\ CalleeSave \subseteq Machine64
  BY DEF Machine64, Convention
<1>8. /\ \A r \in Writable : r # "rsp" /\ r # "r15"
      /\ \A r \in Writable : r \in CalleeSave => r \in ToSet(Saved)
  BY DEF Writable
<1>9. regs'["rsp"] = <<"stack", -8 * p - s>> /\ regs'["r15"] = <<"root", z>>
  BY <1>1, <1>7, <1>8
<1>10. \A c \in CalleeSave \ {"rsp", "r15"} : c \notin ToSet(Saved) => regs'[c] = Before64[c]
  BY <1>1, <1>7, <1>8
<1>11. \A c \in Machine64 \ {"rsp"} : regs'[c][1] # "stack"
  BY <1>1
<1> QED
  BY <1>1, <1>5, <1>6, <1>9, <1>10, <1>11 DEF Frame

-----------------------------------------------------------------------------
(* The code between Entry and Exit runs                                    *)

\* Where a step goes.
Onward == at' = <<at[1], at[2] + 1>>
Away   == \E next \in 2..Len(asm) : at' = <<next, 1>>

Steady == Sizes /\ Convention /\ SameSizes /\ Inside

LEMMA SteadyFacts ==
  ASSUME Steady
  PROVE  \E p \in Nat, s \in Nat, z \in Nat :
           /\ p = Len(Saved) /\ s = stacksize /\ z = rootsize
           /\ Frame(p, s, z) /\ (Frame(p, s, z)' => Inside')
           /\ Saved' = Saved /\ Pushed
<1>1. /\ Len(Saved) \in Nat /\ stacksize \in Nat /\ rootsize \in Nat /\ Pushed /\ Saved' = Saved
  BY PushedFacts, SameFrame DEF Steady, Sizes, Pushed
<1>2. PICK p \in Nat, s \in Nat, z \in Nat : p = Len(Saved) /\ s = stacksize /\ z = rootsize
  BY <1>1
<1>3. (Inside <=> Frame(p, s, z)) /\ (Frame(p, s, z)' => Inside')
  BY <1>2, InsideAfter DEF Steady
<1> QED
  BY <1>1, <1>2, <1>3 DEF Steady

\* What an instruction with operands has.
LEMMA BodyArgs ==
  ASSUME Body(instr), instr.variant \in Opcodes, NEW s, s = stacksize
  PROVE  /\ instr.tag = "instr"
         /\ instr.variant # "cqto" => Len(instr.args) \in 1..2
         /\ DOMAIN instr.args = 1..Len(instr.args)
         /\ \A k \in DOMAIN instr.args : Placed(instr.args[k], s)
         /\ instr.variant \in Simple /\ isReg(instr.args[1]) => Full(instr.args[1][2]) \in Writable
<1>1. instr.tag = "instr" /\ Ordinary(instr, Len(asm), Writable)
  BY DEF Body, Assigned, Ordinary
<1> QED
  BY <1>1 DEF Body, Assigned, Ordinary

LEMMA RegisterStep ==
  ASSUME Steady, Body(instr), ToRegister
  PROVE  Inside' /\ Onward /\ pass' = pass
<1>1. PICK p \in Nat, s \in Nat, z \in Nat :
        /\ p = Len(Saved) /\ s = stacksize /\ z = rootsize
        /\ Frame(p, s, z) /\ (Frame(p, s, z)' => Inside')
        /\ Saved' = Saved /\ Pushed
  BY SteadyFacts
<1>2. instr.variant \in Simple /\ instr.variant \in Opcodes /\ instr.variant # "cqto" /\ isReg(instr.args[1])
  BY DEF ToRegister, Opcodes, Simple, SetIf
<1>3. /\ Len(instr.args) \in 1..2
      /\ \A k \in 1..Len(instr.args) : Placed(instr.args[k], s)
      /\ Full(instr.args[1][2]) \in Writable
  BY <1>1, <1>2, BodyArgs
<1>4. Outcome[1] # "stack"
  BY <1>1, <1>2, <1>3, OutcomeBody
<1> DEFINE r == Full(instr.args[1][2])
           v == Outcome
<1>5. /\ regs' = [regs EXCEPT ![r] = v] /\ memory' = memory /\ DOMAIN regs = Machine64
      /\ r \in Machine64 /\ r \in Writable /\ v[1] # "stack"
  BY <1>1, <1>3, <1>4 DEF ToRegister, Writable, Frame
<1> HIDE DEF r, v
<1>6. DOMAIN regs' = Machine64 /\ \A c \in Machine64 : \/ regs'[c] = regs[c]
                                                       \/ c \in Writable /\ regs'[c][1] # "stack"
  BY <1>5
<1>7. Frame(p, s, z)'
  BY <1>1, <1>5, <1>6, WriteRegisters DEF Steady
<1> QED
  BY <1>1, <1>7 DEF ToRegister, GoOn, Onward

LEMMA MemoryStep ==
  ASSUME Steady, Body(instr), ToMemory
  PROVE  pass' = "wrong" \/ (Inside' /\ Onward /\ pass' = pass)
<1>1. PICK p \in Nat, s \in Nat, z \in Nat :
        /\ p = Len(Saved) /\ s = stacksize /\ z = rootsize
        /\ Frame(p, s, z) /\ (Frame(p, s, z)' => Inside')
        /\ Saved' = Saved /\ Pushed
  BY SteadyFacts
<1>2. instr.variant \in Simple /\ instr.variant \in Opcodes /\ instr.variant # "cqto" /\ isMem(instr.args[1])
  BY DEF ToMemory, Opcodes, Simple, SetIf
<1>3. /\ Len(instr.args) \in 1..2
      /\ \A k \in 1..Len(instr.args) : Placed(instr.args[k], s)
      /\ Placed(instr.args[1], s)
  BY <1>1, <1>2, BodyArgs
<1>4. Outcome[1] # "stack"
  BY <1>1, <1>2, <1>3, OutcomeBody
<1> DEFINE a == Address(instr.args[1])
           v == Outcome
<1>5. \A k \in Int : k <= p => a # <<"stack", -8 * k>>
  BY <1>1, <1>2, <1>3, AddressBody
<1>6. CASE pass' # "wrong"
  <2>1. memory' = With(memory, a, v) /\ regs' = regs /\ Onward /\ pass' = pass
    BY <1>6 DEF ToMemory, Wrong, GoOn, Onward
  <2>2. DOMAIN Saved = 1..Len(Saved) /\ Len(Saved) \in Nat
    BY <1>1 DEF Pushed
  <2>3. v[1] # "stack"
    BY <1>4
  <2> HIDE DEF a, v
  <2>4. Frame(p, s, z)'
    BY <1>1, <1>5, <2>1, <2>2, <2>3, WriteMemory
  <2> QED
    BY <1>1, <2>1, <2>4
<1> QED
  BY <1>6

LEMMA DivideStep ==
  ASSUME Steady, Divide
  PROVE  Inside' /\ Onward /\ pass' = pass
<1>1. PICK p \in Nat, s \in Nat, z \in Nat :
        /\ p = Len(Saved) /\ s = stacksize /\ z = rootsize
        /\ Frame(p, s, z) /\ (Frame(p, s, z)' => Inside')
        /\ Saved' = Saved /\ Pushed
  BY SteadyFacts
<1>2. "rax" \in Writable /\ "rdx" \in Writable /\ Writable \subseteq Machine64
  BY RegisterFacts DEF Steady, Scratch, Writable
<1>3. memory' = memory /\ DOMAIN regs = Machine64
  BY <1>1 DEF Divide, Frame
<1> DEFINE sign == <<"sign", regs["rax"]>>
           term(o) == IF regs["rdx"] = sign THEN <<o, regs["rax"], Load(instr.args[1])>> ELSE Junk
<1>4. sign[1] # "stack" /\ term("/")[1] # "stack" /\ term("%")[1] # "stack"
  BY DEF Junk
<1>5. \/ regs' = [regs EXCEPT !["rdx"] = sign]
      \/ regs' = [regs EXCEPT !["rax"] = term("/"), !["rdx"] = term("%")]
  BY DEF Divide
<1> HIDE DEF sign, term
<1>6. DOMAIN regs' = Machine64 /\ \A c \in Machine64 : \/ regs'[c] = regs[c]
                                                       \/ c \in Writable /\ regs'[c][1] # "stack"
  <2>1. CASE regs' = [regs EXCEPT !["rdx"] = sign]
    BY <1>2, <1>3, <1>4, <2>1
  <2>2. CASE regs' = [regs EXCEPT !["rax"] = term("/"), !["rdx"] = term("%")]
    BY <1>2, <1>3, <1>4, <2>2
  <2> QED
    BY <1>5, <2>1, <2>2
<1>7. Frame(p, s, z)'
  BY <1>1, <1>3, <1>6, WriteRegisters DEF Steady
<1> QED
  BY <1>1, <1>7 DEF Divide, GoOn, Onward

LEMMA QuietSteps ==
  ASSUME Steady, Body(instr), Compare \/ Jump
  PROVE  pass' = "wrong" \/ (Inside' /\ (Onward \/ Away) /\ pass' = pass)
<1>1. PICK p \in Nat, s \in Nat, z \in Nat :
        /\ p = Len(Saved) /\ s = stacksize /\ z = rootsize
        /\ Frame(p, s, z) /\ (Frame(p, s, z)' => Inside')
        /\ Saved' = Saved /\ Pushed
  BY SteadyFacts
<1>2. ASSUME regs' = regs, memory' = memory PROVE Inside'
  BY <1>1, <1>2, SameAll
<1>3. CASE Compare
  BY <1>2, <1>3 DEF Compare, GoOn, Onward
<1>4. CASE Jump
  <2>1. instr.label \in 2..Len(asm)
    BY <1>4 DEF Jump, Body, Assigned, Ordinary
  <2> QED
    BY <1>2, <1>4, <2>1 DEF Jump, GoOn, Onward, Away, Wrong, machine_vars
<1> QED
  BY <1>3, <1>4

LEMMA TupleStep ==
  ASSUME Steady, CallTuple
  PROVE  pass' = "wrong" \/ (Inside' /\ Onward /\ pass' = pass)
<1>1. PICK p \in Nat, s \in Nat, z \in Nat :
        /\ p = Len(Saved) /\ s = stacksize /\ z = rootsize
        /\ Frame(p, s, z) /\ (Frame(p, s, z)' => Inside')
        /\ Saved' = Saved /\ Pushed
  BY SteadyFacts
<1>2. CASE pass' # "wrong"
  <2> DEFINE t == <<"tuple", Len(masks) + 1>>
  <2>1. /\ regs' = [r \in DOMAIN regs |-> IF r = "rax" THEN t
                                          ELSE IF r \in CallerSave THEN Junk ELSE Moved(regs[r])]
        /\ memory' = [a \in DOMAIN memory |-> IF Updated(a) THEN memory[a] ELSE Moved(memory[a])]
        /\ Onward /\ pass' = pass
    BY <1>2 DEF CallTuple, Wrong, GoOn, Onward
  <2>2. t[1] = "tuple"
    OBVIOUS
  <2> HIDE DEF t
  <2>3. Frame(p, s, z)'
    BY <1>1, <2>1, <2>2, CallFrame DEF Steady
  <2> QED
    BY <1>1, <2>1, <2>3
<1> QED
  BY <1>2

LEMMA BodyStep ==
  ASSUME Steady, Body(instr), AtCode, Machine
  PROVE  pass' = "wrong" \/ (Inside' /\ (Onward \/ Away) /\ pass' = pass)
<1>1. ToRegister \/ ToMemory \/ Divide \/ Compare \/ Push \/ Pop \/ Jump \/ CallTuple
  BY DEF Machine, RunOff, AtCode
<1>2. instr.variant \notin {"pushq", "popq"}
  <2>1. "pushq" \notin Opcodes /\ "popq" \notin Opcodes
    BY DEF Opcodes, Simple, SetIf
  <2> QED
    BY <2>1 DEF Body, Assigned, Ordinary
<1>3. ~Push /\ ~Pop
  BY <1>2 DEF Push, Pop
<1> QED
  BY <1>1, <1>3, RegisterStep, MemoryStep, DivideStep, QuietSteps, TupleStep

-----------------------------------------------------------------------------
(* Entry and Exit run                                                      *)

\* Which action an instruction of the frame is.
LEMMA Acts ==
  ASSUME AtCode, Machine, NEW v, NEW args, instr = mkinstr(v, args)
  PROVE  /\ v = "pushq" => Push
         /\ v = "popq" => Pop
         /\ v \in {"addq", "subq", "movq"} /\ isReg(args[1]) => ToRegister
         /\ v \in {"addq", "subq", "movq"} /\ isMem(args[1]) => ToMemory
<1>1. ToRegister \/ ToMemory \/ Divide \/ Compare \/ Push \/ Pop \/ Jump \/ CallTuple
  BY DEF Machine, RunOff, AtCode
<1>2. instr.tag = "instr" /\ instr.variant = v /\ instr.args = args
  BY DEF mkinstr
<1>3. "pushq" \notin Simple /\ "popq" \notin Simple
  BY DEF Simple, SetIf
<1>4. ~Jump /\ ~CallTuple
  BY <1>2 DEF Jump, CallTuple
<1>5. isReg(args[1]) => ~isMem(args[1])
  BY DEF isReg, isMem
<1>6. CASE v \in {"pushq", "popq"}
  <2>1. ~ToRegister /\ ~ToMemory /\ ~Divide /\ ~Compare
    BY <1>2, <1>3, <1>6 DEF ToRegister, ToMemory, Divide, Compare
  <2>2. (v = "pushq" => ~Pop) /\ (v = "popq" => ~Push)
    BY <1>2 DEF Push, Pop
  <2> QED
    BY <1>1, <1>4, <1>6, <2>1, <2>2
<1>7. CASE v \in {"addq", "subq", "movq"}
  <2>1. ~Divide /\ ~Compare /\ ~Push /\ ~Pop
    BY <1>2, <1>7 DEF Divide, Compare, Push, Pop
  <2>2. (isReg(args[1]) => ~ToMemory) /\ (isMem(args[1]) => ~ToRegister)
    BY <1>2, <1>5 DEF ToRegister, ToMemory
  <2> QED
    BY <1>1, <1>4, <1>7, <2>1, <2>2
<1> QED
  BY <1>6, <1>7

\* What the operands of the frame are worth.
LEMMA FrameOperands ==
  /\ \A r, n : instr.args = <<Reg64(r), Imm(n)>> /\ r # "al"
                 => /\ Load(instr.args[1]) = regs[r] /\ Load(instr.args[Len(instr.args)]) = Int64(n)
                    /\ isReg(instr.args[1]) /\ Full(instr.args[1][2]) = r
  /\ \A n, k : instr.args = <<mkmem("r15", k), Imm(n)>>
                 => /\ isMem(instr.args[1]) /\ Load(instr.args[Len(instr.args)]) = Int64(n)
                    /\ instr.args[1][2] = "r15" /\ instr.args[1][3] = k
<1>1. \A r : /\ isReg(Reg64(r)) /\ ~isMem(Reg64(r)) /\ Reg64(r)[1] # "imm" /\ Reg64(r)[2] = r
  BY DEF isReg, isMem, Reg64
<1>2. \A n : Load(Imm(n)) = Int64(n)
  BY DEF Load, Imm, isReg, isMem
<1>3. \A r : r # "al" => Load(Reg64(r)) = regs[r]
  BY <1>1 DEF Load, Full
<1>4. \A k : isMem(mkmem("r15", k)) /\ mkmem("r15", k)[2] = "r15" /\ mkmem("r15", k)[3] = k
  BY DEF isMem, mkmem
<1>5. \A a, c : Len(<<a, c>>) = 2 /\ <<a, c>>[1] = a /\ <<a, c>>[2] = c
  OBVIOUS
<1>6. \A r : r # "al" => Full(r) = r
  BY DEF Full
<1> QED
  BY <1>1, <1>2, <1>3, <1>4, <1>5, <1>6

LEMMA OutcomeIs ==
  ASSUME NEW d, d = Load(instr.args[1]), NEW e, e = Load(instr.args[Len(instr.args)]),
         NEW v, v = instr.variant
  PROVE  /\ v = "movq" => Outcome = e
         /\ v = "addq" => Outcome = Add(d, e)
         /\ v = "subq" => Outcome = Sub(d, e)
<1>1. Outcome = CASE v \in {"movq", "movzbq"} -> e
                  [] v = "addq" -> Add(d, e)
                  [] v = "subq" -> Sub(d, e)
                  [] v = "imul" -> <<"*", d, e>>
                  [] v = "negq" -> Sub(Int64(0), d)
                  [] v \in DOMAIN SetIf -> <<SetIf[v], flags[1], flags[2]>>
  BY DEF Outcome
<1>2. DOMAIN SetIf = {"setz", "setnz", "setl", "setle", "setg", "setge"}
  BY DEF SetIf
<1>3. CASE v = "movq"
  BY <1>1, <1>2, <1>3
<1>4. CASE v = "addq"
  BY <1>1, <1>2, <1>4
<1>5. CASE v = "subq"
  BY <1>1, <1>2, <1>5
<1> QED
  BY <1>3, <1>4, <1>5

\* addq and subq of a stack pointer
LEMMA Adjust ==
  ASSUME AtCode, Machine, NEW v \in {"addq", "subq"}, NEW r \in {"rsp", "r15"}, NEW n \in Int,
         instr = mkinstr(v, <<Reg64(r), Imm(n)>>),
         NEW w \in {"stack", "root"}, NEW x \in Int, regs[r] = <<w, x>>
  PROVE  /\ regs' = [regs EXCEPT ![r] = <<w, IF v = "addq" THEN x + n ELSE x - n>>]
         /\ memory' = memory /\ Onward /\ pass' = pass
<1>1. instr.variant = v /\ instr.args = <<Reg64(r), Imm(n)>>
  BY DEF mkinstr
<1>2. /\ Load(instr.args[1]) = regs[r] /\ Load(instr.args[Len(instr.args)]) = Int64(n)
      /\ isReg(instr.args[1]) /\ Full(instr.args[1][2]) = r
  BY <1>1, FrameOperands
<1>3. ToRegister
  <2>1. isReg(<<Reg64(r), Imm(n)>>[1])
    BY <1>1, <1>2
  <2> QED
    BY <2>1, Acts
<1>4. Outcome = <<w, IF v = "addq" THEN x + n ELSE x - n>>
  <2>1. CASE v = "addq"
    <3>1. Outcome = Add(regs[r], Int64(n))
      BY <1>1, <1>2, <2>1, OutcomeIs
    <3> QED
      BY <2>1, <3>1 DEF Add, Int64
  <2>2. CASE v = "subq"
    <3>1. Outcome = Sub(regs[r], Int64(n))
      BY <1>1, <1>2, <2>2, OutcomeIs
    <3> QED
      BY <2>2, <3>1 DEF Sub, Int64
  <2> QED
    BY <2>1, <2>2
<1> QED
  BY <1>2, <1>3, <1>4 DEF ToRegister, GoOn, Onward

LEMMA PushStep ==
  ASSUME Sizes, Convention, SameSizes, AtCode, Machine, NEW p \in Nat, p < Len(Saved),
         instr = mkinstr("pushq", <<Reg64(Saved[Len(Saved) - p])>>), Frame(p, 0, 0)
  PROVE  Frame(p + 1, 0, 0)' /\ Onward /\ pass' = pass
<1> DEFINE r == Saved[Len(Saved) - p]
           a == <<"stack", -8 * (p + 1)>>
<1>1. Pushed /\ Saved' = Saved
  BY PushedFacts, SameFrame
<1>2. r \in Machine64 \ {"rsp", "r15"}
  <2>1. Len(Saved) - p \in DOMAIN Saved
    BY <1>1 DEF Pushed
  <2> QED
    BY <1>1, <2>1 DEF Pushed
<1>3. Push /\ instr.args[1] = Reg64(r)
  BY Acts DEF mkinstr
<1> HIDE DEF r
<1>4. Load(instr.args[1]) = regs[r]
  <2>1. isReg(Reg64(r)) /\ ~isMem(Reg64(r)) /\ Reg64(r)[1] # "imm" /\ Reg64(r)[2] = r
    BY DEF isReg, isMem, Reg64
  <2>2. Full(r) = r
    BY <1>2, RegisterFacts
  <2> QED
    BY <1>3, <2>1, <2>2 DEF Load
<1>5. regs["rsp"] = <<"stack", -8 * p - 0>> /\ "rsp" \in Machine64 /\ DOMAIN regs = Machine64
  BY DEF Frame, Machine64
<1>6. Sub(regs["rsp"], Int64(8)) = a
  <2>1. Sub(<<"stack", -8 * p - 0>>, Int64(8)) = <<"stack", (-8 * p - 0) - 8>>
    BY DEF Sub, Int64
  <2>2. (-8 * p - 0) - 8 = -8 * (p + 1)
    OBVIOUS
  <2> QED
    BY <1>5, <2>1, <2>2
<1> HIDE DEF a
<1>7. regs' = [regs EXCEPT !["rsp"] = a]
  BY <1>3, <1>6 DEF Push
<1>8. regs'["rsp"] = a
  BY <1>5, <1>7
<1>9. memory' = With(memory, a, regs[r])
  BY <1>3, <1>4, <1>8 DEF Push
<1>10. Frame(p + 1, 0, 0)'
  BY <1>1, <1>7, <1>9, PushFrame DEF a, r
<1> QED
  BY <1>3, <1>10 DEF Push, GoOn, Onward

LEMMA PopStep ==
  ASSUME Sizes, Convention, SameSizes, AtCode, Machine, NEW p \in Nat, 0 < p, p <= Len(Saved),
         instr = mkinstr("popq", <<Reg64(Saved[Len(Saved) - p + 1])>>), Frame(p, 0, 0)
  PROVE  Frame(p - 1, 0, 0)' /\ Onward /\ pass' = pass
<1> DEFINE r == Saved[Len(Saved) - p + 1]
<1>1. Pushed /\ Saved' = Saved
  BY PushedFacts, SameFrame
<1>2. Pop /\ instr.args[1][2] = r
  BY Acts DEF mkinstr, Reg64
<1> HIDE DEF r
<1>3. /\ regs' = [regs EXCEPT ![r] = memory[regs["rsp"]], !["rsp"] = Add(regs["rsp"], Int64(8))]
      /\ memory' = memory
  BY <1>2 DEF Pop
<1>4. Frame(p - 1, 0, 0)'
  BY <1>1, <1>3, PopFrame DEF r
<1> QED
  BY <1>2, <1>4 DEF Pop, GoOn, Onward

LEMMA ZeroStep ==
  ASSUME SameSizes, Sizes, Convention, AtCode, Machine, instr \in Zeroing,
         NEW p, NEW s, NEW z \in Int, Frame(p, s, z)
  PROVE  Frame(p, s, z)' /\ Onward /\ pass' = pass
<1>1. PICK n \in Nat : instr = mkinstr("movq", <<mkmem("r15", -8 * n), Imm(0)>>)
  BY DEF Zeroing
<1>2. instr.variant = "movq" /\ instr.args = <<mkmem("r15", -8 * n), Imm(0)>>
  BY <1>1 DEF mkinstr
<1>3. /\ isMem(instr.args[1]) /\ Load(instr.args[Len(instr.args)]) = Int64(0)
      /\ instr.args[1][2] = "r15" /\ instr.args[1][3] = -8 * n
  BY <1>2, FrameOperands
<1>4. ToMemory
  <2>1. isMem(<<mkmem("r15", -8 * n), Imm(0)>>[1])
    BY <1>2, <1>3
  <2> QED
    BY <1>1, <2>1, Acts
<1> DEFINE a == Address(instr.args[1])
<1>5. a[1] = "root"
  <2>1. regs["r15"] = <<"root", z>>
    BY DEF Frame
  <2> QED
    BY <1>3, <2>1 DEF Address
<1>6. Outcome = Int64(0)
  BY <1>2, <1>3, OutcomeIs
<1>7. a # Junk
  BY <1>5 DEF Junk
<1>8. memory' = With(memory, a, Outcome) /\ regs' = regs /\ Onward /\ pass' = pass
  BY <1>4, <1>5, <1>7 DEF ToMemory, GoOn, Onward
<1> HIDE DEF a
<1>9. \A k \in Int : k <= p => a # <<"stack", -8 * k>>
  BY <1>5
<1>10. Outcome[1] # "stack"
  BY <1>6 DEF Int64
<1>11. Saved' = Saved /\ DOMAIN Saved = 1..Len(Saved) /\ Len(Saved) \in Nat
  BY PushedFacts, SameFrame DEF Pushed
<1>12. Frame(p, s, z)'
  BY <1>8, <1>9, <1>10, <1>11, WriteMemory
<1> QED
  BY <1>8, <1>12

\* What the frame's steps need of the parts of Entry and Exit.
LEMMA Lengths ==
  ASSUME Sizes, Convention, SameSizes
  PROVE  \E m \in Nat, o \in {0, 1}, y \in {0, 1}, s \in Nat, z \in Nat :
           /\ m = Len(Saved) /\ o = One(stacksize) /\ y = One(rootsize)
           /\ s = stacksize /\ z = rootsize
           /\ (s = 0 <=> o = 0) /\ (z = 0 <=> y = 0)
           /\ "rsp" \notin ToSet(Saved) /\ "r15" \notin ToSet(Saved) /\ Saved' = Saved
<1>1. Len(Saved) \in Nat
  BY SavedFacts DEF Sizes
<1> QED
  BY <1>1, PushedFacts, SameFrame DEF Sizes, One

LEMMA EntryStep ==
  ASSUME Sizes, Convention, SameSizes, AtCode, Machine, NEW k \in 1..Len(Entry),
         instr = Entry[k], Entered(k - 1)
  PROVE  Entered(k)' /\ Onward /\ pass' = pass
<1>1. PICK m \in Nat, o \in {0, 1}, y \in {0, 1}, s \in Nat, z \in Nat :
        /\ m = Len(Saved) /\ o = One(stacksize) /\ y = One(rootsize)
        /\ s = stacksize /\ z = rootsize
        /\ (s = 0 <=> o = 0) /\ (z = 0 <=> y = 0)
        /\ "rsp" \notin ToSet(Saved) /\ "r15" \notin ToSet(Saved) /\ Saved' = Saved
  BY Lengths
<1>2. /\ \A h \in 1..m : Entry[h] = mkinstr("pushq", <<Reg64(Saved[m - h + 1])>>)
      /\ s # 0 => Entry[m + 1] = mkinstr("subq", <<rsp, Imm(s)>>)
      /\ z # 0 => Entry[m + o + 1] = mkinstr("addq", <<r15, Imm(z)>>)
      /\ \A h \in (m + o + y + 1)..Len(Entry) : Entry[h] \in Zeroing
  BY <1>1, EntryFacts
<1>3. \/ k \in 1..m
      \/ s # 0 /\ k = m + 1
      \/ z # 0 /\ k = m + o + 1
      \/ k \in (m + o + y + 1)..Len(Entry)
  <2>1. k \in Nat /\ 1 <= k /\ k <= Len(Entry) /\ Len(Entry) \in Int
    <3>1. Len(Entry) \in Nat
      BY EntryFacts, SeqParts
    <3> QED
      BY <3>1
  <2>2. PICK e : e = Len(Entry)
    OBVIOUS
  <2>3. (y = 0 \/ (y = 1 /\ z # 0)) /\ (o = 0 \/ (o = 1 /\ s # 0))
    BY <1>1
  <2>4. \/ k \in 1..m
        \/ o = 1 /\ k = m + 1
        \/ y = 1 /\ k = m + o + 1
        \/ k \in (m + o + y + 1)..e
    BY <2>1, <2>2, <2>3
  <2> QED
    BY <2>2, <2>3, <2>4
<1>4. ASSUME NEW d, NEW p, NEW t, NEW x,
             p = (IF d < m THEN d ELSE m), t = (IF d >= m + o THEN s ELSE 0),
             x = (IF d >= m + o + y THEN z ELSE 0)
      PROVE  EnterArgs(d, p, t, x)
  BY <1>1, <1>4 DEF EnterArgs
<1>5. CASE k \in 1..m
  <2> DEFINE p == k - 1
  <2>1. p \in Nat /\ p < Len(Saved) /\ p + 1 = k /\ m - k + 1 = Len(Saved) - p
    BY <1>1, <1>5
  <2>2. EnterArgs(p, p, 0, 0) /\ EnterArgs(k, k, 0, 0)
    <3>1. /\ p = (IF p < m THEN p ELSE m) /\ k = (IF k < m THEN k ELSE m)
          /\ 0 = (IF p >= m + o THEN s ELSE 0) /\ 0 = (IF k >= m + o THEN s ELSE 0)
          /\ 0 = (IF p >= m + o + y THEN z ELSE 0) /\ 0 = (IF k >= m + o + y THEN z ELSE 0)
      BY <1>1, <1>5
    <3> QED
      BY <1>4, <3>1
  <2>3. Frame(p, 0, 0)
    BY <2>2, SpeltHolds DEF Spelt
  <2>4. instr = mkinstr("pushq", <<Reg64(Saved[Len(Saved) - p])>>)
    BY <1>2, <1>5, <2>1
  <2> HIDE DEF p
  <2>5. Frame(p + 1, 0, 0)' /\ Onward /\ pass' = pass
    BY <2>1, <2>3, <2>4, PushStep
  <2> QED
    BY <2>1, <2>2, <2>5, EnteredAfter
<1>6. CASE s # 0 /\ k = m + 1
  <2>1. EnterArgs(m, m, 0, 0) /\ EnterArgs(m + 1, m, s, 0)
    <3>1. /\ m = (IF m < m THEN m ELSE m) /\ m = (IF m + 1 < m THEN m + 1 ELSE m)
          /\ 0 = (IF m >= m + o THEN s ELSE 0) /\ s = (IF m + 1 >= m + o THEN s ELSE 0)
          /\ 0 = (IF m >= m + o + y THEN z ELSE 0) /\ 0 = (IF m + 1 >= m + o + y THEN z ELSE 0)
      BY <1>1, <1>6
    <3> QED
      BY <1>4, <3>1
  <2>2. Frame(m, 0, 0) /\ k - 1 = m
    BY <1>6, <2>1, SpeltHolds DEF Spelt
  <2>3. regs["rsp"] = <<"stack", -8 * m - 0>> /\ -8 * m - 0 \in Int
    BY <2>2 DEF Frame
  <2>4. instr = mkinstr("subq", <<Reg64("rsp"), Imm(s)>>)
    BY <1>2, <1>6 DEF rsp
  <2>5. /\ regs' = [regs EXCEPT !["rsp"] = <<"stack", (-8 * m - 0) - s>>]
        /\ memory' = memory /\ Onward /\ pass' = pass
    BY <2>3, <2>4, Adjust
  <2>6. (-8 * m - 0) - s = -8 * m - s
    OBVIOUS
  <2>7. Frame(m, s, 0)'
    BY <1>1, <2>2, <2>5, <2>6, MoveStack
  <2> QED
    BY <1>6, <2>1, <2>5, <2>7, EnteredAfter
<1>7. CASE z # 0 /\ k = m + o + 1
  <2>1. EnterArgs(m + o, m, s, 0) /\ EnterArgs(m + o + 1, m, s, z)
    <3>1. /\ m = (IF m + o < m THEN m + o ELSE m) /\ m = (IF m + o + 1 < m THEN m + o + 1 ELSE m)
          /\ s = (IF m + o >= m + o THEN s ELSE 0) /\ s = (IF m + o + 1 >= m + o THEN s ELSE 0)
          /\ 0 = (IF m + o >= m + o + y THEN z ELSE 0)
          /\ z = (IF m + o + 1 >= m + o + y THEN z ELSE 0)
      BY <1>1, <1>7
    <3> QED
      BY <1>4, <3>1
  <2>2. Frame(m, s, 0) /\ k - 1 = m + o
    BY <1>1, <1>7, <2>1, SpeltHolds DEF Spelt
  <2>3. regs["r15"] = <<"root", 0>>
    BY <2>2 DEF Frame
  <2>4. instr = mkinstr("addq", <<Reg64("r15"), Imm(z)>>)
    BY <1>2, <1>7 DEF r15
  <2>5. /\ regs' = [regs EXCEPT !["r15"] = <<"root", 0 + z>>]
        /\ memory' = memory /\ Onward /\ pass' = pass
    BY <2>3, <2>4, Adjust
  <2>6. 0 + z = z
    OBVIOUS
  <2>7. Frame(m, s, z)'
    BY <1>1, <2>2, <2>5, <2>6, MoveRoots
  <2> QED
    BY <1>7, <2>1, <2>5, <2>7, EnteredAfter
<1>8. CASE k \in (m + o + y + 1)..Len(Entry)
  <2>1. EnterArgs(k - 1, m, s, z) /\ EnterArgs(k, m, s, z)
    <3>1. /\ m = (IF k - 1 < m THEN k - 1 ELSE m) /\ m = (IF k < m THEN k ELSE m)
          /\ s = (IF k - 1 >= m + o THEN s ELSE 0) /\ s = (IF k >= m + o THEN s ELSE 0)
          /\ z = (IF k - 1 >= m + o + y THEN z ELSE 0) /\ z = (IF k >= m + o + y THEN z ELSE 0)
      BY <1>1, <1>8
    <3> QED
      BY <1>4, <3>1
  <2>2. Frame(m, s, z)
    BY <2>1, SpeltHolds DEF Spelt
  <2>3. Frame(m, s, z)' /\ Onward /\ pass' = pass
    BY <1>2, <1>8, <2>2, ZeroStep
  <2> QED
    BY <2>1, <2>3, EnteredAfter
<1> QED
  BY <1>3, <1>5, <1>6, <1>7, <1>8

ExitForm(m, y, o) ==
  /\ Len(Exit) = y + o + m
  /\ rootsize # 0 => Exit[1] = mkinstr("subq", <<r15, Imm(rootsize)>>)
  /\ stacksize # 0 => Exit[y + 1] = mkinstr("addq", <<rsp, Imm(stacksize)>>)
  /\ \A h \in 1..m : Exit[y + o + h] = mkinstr("popq", <<Reg64(Saved[h])>>)

LEMMA ExitFormHolds ==
  ASSUME Sizes, NEW m, NEW y, NEW o, ExitSizes(m, y, o)
  PROVE  ExitForm(m, y, o)
  BY ExitParts DEF ExitForm

LEMMA ExitStep ==
  ASSUME Sizes, Convention, SameSizes, AtCode, Machine, NEW u \in 1..Len(Exit),
         instr = Exit[u], Left(u - 1)
  PROVE  Left(u)' /\ Onward /\ pass' = pass
<1>1. PICK m \in Nat, o \in {0, 1}, y \in {0, 1}, s \in Nat, z \in Nat :
        /\ m = Len(Saved) /\ o = One(stacksize) /\ y = One(rootsize)
        /\ s = stacksize /\ z = rootsize
        /\ (s = 0 <=> o = 0) /\ (z = 0 <=> y = 0)
        /\ "rsp" \notin ToSet(Saved) /\ "r15" \notin ToSet(Saved) /\ Saved' = Saved
  BY Lengths
<1>2. /\ Len(Exit) = y + o + m
      /\ z # 0 => Exit[1] = mkinstr("subq", <<r15, Imm(z)>>)
      /\ s # 0 => Exit[y + 1] = mkinstr("addq", <<rsp, Imm(s)>>)
      /\ \A h \in 1..m : Exit[y + o + h] = mkinstr("popq", <<Reg64(Saved[h])>>)
  <2>1. m = Len(Saved) /\ o = One(stacksize) /\ y = One(rootsize) /\ s = stacksize /\ z = rootsize
    BY <1>1
  <2>2. /\ Len(Exit) = y + o + m
        /\ rootsize # 0 => Exit[1] = mkinstr("subq", <<r15, Imm(rootsize)>>)
        /\ stacksize # 0 => Exit[y + 1] = mkinstr("addq", <<rsp, Imm(stacksize)>>)
        /\ \A h \in 1..m : Exit[y + o + h] = mkinstr("popq", <<Reg64(Saved[h])>>)
    <3>1. ExitSizes(m, y, o)
      BY <2>1 DEF ExitSizes
    <3>2. ExitForm(m, y, o)
      BY <3>1, ExitFormHolds
    <3> QED
      BY <3>2 DEF ExitForm
  <2> QED
    BY <2>1, <2>2
<1>3. \/ z # 0 /\ u = 1
      \/ s # 0 /\ u = y + 1
      \/ u - (y + o) \in 1..m
  <2>1. u \in Nat /\ 1 <= u /\ u <= y + o + m /\ y \in Nat /\ o \in Nat
    BY <1>2
  <2>2. (y = 0 \/ (y = 1 /\ z # 0)) /\ (o = 0 \/ (o = 1 /\ s # 0))
    BY <1>1
  <2>3. CASE u > y + o
    BY <2>1, <2>3
  <2>4. CASE u <= y + o
    <3>1. y + o = 0 \/ y + o = 1 \/ y + o = 2
      BY <2>2
    <3> QED
      BY <2>1, <2>2, <2>4, <3>1
  <2> QED
    BY <2>1, <2>3, <2>4
<1>4. ASSUME NEW d, NEW p, NEW t, NEW x,
             p = (IF d > y + o THEN m - (d - (y + o)) ELSE m),
             t = (IF d >= y + o THEN 0 ELSE s), x = (IF d >= y THEN 0 ELSE z)
      PROVE  LeaveArgs(d, p, t, x)
  BY <1>1, <1>4 DEF LeaveArgs
<1>5. CASE z # 0 /\ u = 1
  <2>1. LeaveArgs(0, m, s, z) /\ LeaveArgs(1, m, s, 0)
    <3>1. /\ m = (IF 0 > y + o THEN m - (0 - (y + o)) ELSE m)
          /\ m = (IF 1 > y + o THEN m - (1 - (y + o)) ELSE m)
          /\ s = (IF 0 >= y + o THEN 0 ELSE s) /\ s = (IF 1 >= y + o THEN 0 ELSE s)
          /\ z = (IF 0 >= y THEN 0 ELSE z) /\ 0 = (IF 1 >= y THEN 0 ELSE z)
      BY <1>1, <1>5
    <3> QED
      BY <1>4, <3>1
  <2>2. Frame(m, s, z) /\ u - 1 = 0
    BY <1>5, <2>1, SpeltHolds DEF Spelt
  <2>3. regs["r15"] = <<"root", z>>
    BY <2>2 DEF Frame
  <2>4. instr = mkinstr("subq", <<Reg64("r15"), Imm(z)>>)
    BY <1>2, <1>5 DEF r15
  <2>5. /\ regs' = [regs EXCEPT !["r15"] = <<"root", z - z>>]
        /\ memory' = memory /\ Onward /\ pass' = pass
    BY <2>3, <2>4, Adjust
  <2>6. z - z = 0
    OBVIOUS
  <2>7. Frame(m, s, 0)'
    BY <1>1, <2>2, <2>5, <2>6, MoveRoots
  <2> QED
    BY <1>5, <2>1, <2>5, <2>7, LeftAfter
<1>6. CASE s # 0 /\ u = y + 1
  <2>1. LeaveArgs(y, m, s, 0) /\ LeaveArgs(y + 1, m, 0, 0)
    <3>1. /\ m = (IF y > y + o THEN m - (y - (y + o)) ELSE m)
          /\ m = (IF y + 1 > y + o THEN m - (y + 1 - (y + o)) ELSE m)
          /\ s = (IF y >= y + o THEN 0 ELSE s) /\ 0 = (IF y + 1 >= y + o THEN 0 ELSE s)
          /\ 0 = (IF y >= y THEN 0 ELSE z) /\ 0 = (IF y + 1 >= y THEN 0 ELSE z)
      <4>3. y \in Nat /\ o \in {0, 1}
        OBVIOUS
      <4>4. s # 0 /\ (s = 0 <=> o = 0)
        BY <1>1, <1>6
      <4>1. o = 1 /\ y \in Nat
        BY <4>3, <4>4
      <4>2. /\ ~(y > y + o) /\ ~(y + 1 > y + o) /\ ~(y >= y + o) /\ y + 1 >= y + o
            /\ y >= y /\ y + 1 >= y
        BY <4>1
      <4> QED
        BY <4>2
    <3> QED
      BY <1>1, <3>1 DEF LeaveArgs
  <2>2. Frame(m, s, 0) /\ u - 1 = y
    BY <1>1, <1>6, <2>1, SpeltHolds DEF Spelt
  <2>3. regs["rsp"] = <<"stack", -8 * m - s>> /\ -8 * m - s \in Int
    BY <2>2 DEF Frame
  <2>4. instr = mkinstr("addq", <<Reg64("rsp"), Imm(s)>>)
    BY <1>2, <1>6 DEF rsp
  <2>5. /\ regs' = [regs EXCEPT !["rsp"] = <<"stack", (-8 * m - s) + s>>]
        /\ memory' = memory /\ Onward /\ pass' = pass
    BY <2>3, <2>4, Adjust
  <2>6. (-8 * m - s) + s = -8 * m - 0
    OBVIOUS
  <2>7. Frame(m, 0, 0)'
    BY <1>1, <2>2, <2>5, <2>6, MoveStack
  <2> QED
    BY <1>6, <2>1, <2>5, <2>7, LeftAfter
<1>7. CASE u - (y + o) \in 1..m
  <2> DEFINE h == u - (y + o)
             p == m - (h - 1)
  <2>1. /\ h \in 1..m /\ y + o + h = u /\ p \in Nat /\ 0 < p /\ p <= Len(Saved)
        /\ Len(Saved) - p + 1 = h
    <3>1. u \in Int /\ y \in Int /\ o \in Int /\ h \in 1..m /\ m \in Nat /\ m = Len(Saved)
      BY <1>1, <1>2, <1>7
    <3>2. y + o + h = u
      BY <3>1
    <3> HIDE DEF h
    <3>3. p \in Nat /\ 0 < p /\ p <= m /\ m - p + 1 = h
      BY <3>1
    <3> QED
      BY <3>1, <3>2, <3>3
  <2>2. LeaveArgs(u - 1, p, 0, 0) /\ LeaveArgs(u, p - 1, 0, 0)
    <3>1. /\ p = (IF u - 1 > y + o THEN m - (u - 1 - (y + o)) ELSE m)
          /\ p - 1 = (IF u > y + o THEN m - (u - (y + o)) ELSE m)
          /\ 0 = (IF u - 1 >= y + o THEN 0 ELSE s) /\ 0 = (IF u >= y + o THEN 0 ELSE s)
          /\ 0 = (IF u - 1 >= y THEN 0 ELSE z) /\ 0 = (IF u >= y THEN 0 ELSE z)
      <4>0. y \in Nat /\ o \in Nat
        OBVIOUS
      <4>1. u = y + o + h /\ h \in 1..m /\ y \in Nat /\ o \in Nat
        BY <2>1, <4>0
      <4> HIDE DEF h
      <4>2. /\ u >= y + o /\ u > y + o /\ u - 1 >= y + o /\ u - 1 >= y /\ u >= y
            /\ u - (y + o) = h /\ u - 1 - (y + o) = h - 1
        BY <4>1
      <4>3. /\ (m - h = p - 1 /\ u - 1 > y + o) \/ h = 1
            /\ h = 1 => p = m /\ u - 1 = y + o
        BY <4>1
      <4> QED
        BY <1>1, <4>2, <4>3
    <3> QED
      BY <1>1, <3>1 DEF LeaveArgs
  <2>3. Frame(p, 0, 0)
    BY <2>2, SpeltHolds DEF Spelt
  <2>4. instr = mkinstr("popq", <<Reg64(Saved[Len(Saved) - p + 1])>>)
    BY <1>2, <2>1
  <2> HIDE DEF p, h
  <2>5. Frame(p - 1, 0, 0)' /\ Onward /\ pass' = pass
    BY <2>1, <2>3, <2>4, PopStep
  <2> QED
    BY <2>2, <2>5, LeftAfter
<1> QED
  BY <1>3, <1>5, <1>6, <1>7

-----------------------------------------------------------------------------
(* The machine                                                             *)

SameCode == asm' = asm /\ SameSizes

LEMMA SameParts ==
  ASSUME SameCode, Framed, Framed'
  PROVE  \A j : EntryLen(j)' = EntryLen(j) /\ ExitLen(j)' = ExitLen(j)
  BY SameFrame DEF SameCode, EntryLen, ExitLen

LEMMA CodeSame ==
  ASSUME CodeKept, SameCode, Framed' <=> Framed, pass' = "frame" <=> pass = "frame"
  PROVE  CodeKept'
<1>1. Saved' = Saved /\ Entry' = Entry /\ Exit' = Exit /\ Writable' = Writable
  BY SameFrame DEF SameCode
<1>2. \A j : EntryLen(j)' = EntryLen(j) /\ ExitLen(j)' = ExitLen(j)
  BY <1>1 DEF SameCode, EntryLen, ExitLen
<1>3. CodeInv'
  BY <1>1, <1>2 DEF CodeKept, CodeInv, Body, SameCode, SameSizes
<1>4. Sizes' /\ Shape'
  BY DEF CodeKept, Sizes, Shape, SameCode, SameSizes, ToSet
<1> QED
  BY <1>3, <1>4 DEF CodeKept

\* The code of a block when there is a frame.
LEMMA BlockParts ==
  ASSUME CodeKept, Framed, NEW j \in DOMAIN asm
  PROVE  /\ DOMAIN asm = 1..Len(asm) /\ Len(asm) \in Nat
         /\ DOMAIN asm[j] = 1..Len(asm[j]) /\ Len(asm[j]) \in Nat
         /\ EntryLen(j) \in Nat /\ ExitLen(j) \in Nat /\ EntryLen(j) <= Len(asm[j]) - ExitLen(j)
         /\ EntryLen(j) = (IF j = 1 THEN Len(Entry) ELSE 0)
         /\ ExitLen(j) = (IF j = Len(asm) THEN Len(Exit) ELSE 0)
         /\ \A k \in 1..EntryLen(j) : asm[j][k] = Entry[k]
         /\ \A k \in 1..ExitLen(j) : asm[j][(Len(asm[j]) - ExitLen(j)) + k] = Exit[k]
         /\ \A k \in (EntryLen(j) + 1)..(Len(asm[j]) - ExitLen(j)) : Body(asm[j][k])
<1>1. /\ EntryLen(j) = (IF j = 1 THEN Len(Entry) ELSE 0)
      /\ ExitLen(j) = (IF j = Len(asm) THEN Len(Exit) ELSE 0)
  BY DEF EntryLen, ExitLen
<1>2. Len(Entry) \in Nat /\ Len(Exit) \in Nat
  BY EntryFacts, ExitFacts, SeqParts DEF CodeKept
<1>3. EntryLen(j) \in Nat /\ ExitLen(j) \in Nat
  BY <1>1, <1>2
<1>4. /\ DOMAIN asm = 1..Len(asm) /\ Len(asm) \in Nat
      /\ DOMAIN asm[j] = 1..Len(asm[j]) /\ Len(asm[j]) \in Nat
  BY SeqParts DEF CodeKept, Shape
<1> QED
  BY <1>1, <1>3, <1>4 DEF CodeKept, CodeInv

EndsMeet == Sizes => /\ Entered(0) <=> Outside
                     /\ Entered(Len(Entry)) <=> Inside
                     /\ Left(0) <=> Inside
                     /\ Left(Len(Exit)) <=> Outside

LEMMA EndsAfter == TRUE => EndsMeet'
<1>1. EndsMeet
  BY Ends DEF EndsMeet
<1> QED
  BY <1>1, PTL

\* What Position says, as a formula that holds after a step too.
Spot ==
  \A j, k, e, n, d, u :
    e = EntryLen(j) /\ n = Len(asm[j]) - ExitLen(j) /\ d = k - 1 /\ u = k - 1 - n =>
      (Position(j, k) <=> /\ j \in DOMAIN asm /\ k \in 1..(Len(asm[j]) + 1)
                          /\ k <= e => Entered(d)
                          /\ k \in (e + 1)..(n + 1) => Inside
                          /\ k > n => Left(u))

LEMMA SpotHolds == Spot
  BY DEF Spot, Position

LEMMA SpotAfter == TRUE => Spot'
  BY SpotHolds, PTL

\* A place of the code, and the parts of Position after a step.
LEMMA SpotParts ==
  ASSUME SameCode, Framed, Framed', NEW j, NEW k, NEW e, NEW n, NEW d, NEW u,
         e = EntryLen(j), n = Len(asm[j]) - ExitLen(j), d = k - 1, u = k - 1 - n
  PROVE  Position(j, k)' <=> /\ j \in DOMAIN asm /\ k \in 1..(Len(asm[j]) + 1)
                             /\ k <= e => Entered(d)'
                             /\ k \in (e + 1)..(n + 1) => Inside'
                             /\ k > n => Left(u)'
<1>1. e = EntryLen(j)' /\ n = Len(asm'[j]) - ExitLen(j)' /\ asm' = asm
  BY SameParts DEF SameCode
<1> QED
  BY <1>1, SpotAfter DEF Spot

\* Where the code between Entry and Exit starts or goes on.
LEMMA Arrive ==
  ASSUME CodeKept, SameCode, Framed, Framed', NEW j \in DOMAIN asm,
         NEW k \in (EntryLen(j) + 1)..(Len(asm[j]) - ExitLen(j) + 1), Inside'
  PROVE  Position(j, k)'
<1>1. PICK e, n, d, u : /\ e = EntryLen(j) /\ n = Len(asm[j]) - ExitLen(j)
                        /\ d = k - 1 /\ u = k - 1 - n
  OBVIOUS
<1>2. e \in Nat /\ Len(asm[j]) \in Nat /\ n \in Int /\ e <= n /\ n <= Len(asm[j])
  BY <1>1, BlockParts
<1>3. k \in (e + 1)..(n + 1)
  BY <1>1
<1>4. k \in 1..(Len(asm[j]) + 1) /\ ~(k <= e) /\ (k > n => u = 0)
  BY <1>1, <1>2, <1>3
<1>5. Left(0)'
  <2>1. Sizes'
    BY DEF CodeKept, Sizes, SameCode, SameSizes, ToSet
  <2> QED
    BY <2>1, EndsAfter DEF EndsMeet
<1>6. k > n => Left(u)'
  BY <1>4, <1>5
<1> QED
  BY <1>1, <1>4, <1>6, SpotParts

-----------------------------------------------------------------------------
(* A step of the machine                                                   *)

\* What MachineInv says, as a formula that holds after a step too.
Here ==
  \A j, k : j = at[1] /\ k = at[2] =>
    (MachineInv <=> /\ pass \in {"regalloc", "frame", "patch", "compiled", "source"} =>
                         regs = Before64 /\ DOMAIN memory = {}
                    /\ pass \in {"machine", "returned"} => Position(j, k)
                    /\ pass = "returned" => j = Len(asm) /\ k = Len(asm[j]) + 1)

LEMMA HereHolds == Here
  BY DEF Here, MachineInv

LEMMA HereAfter == TRUE => Here'
  BY HereHolds, PTL

LEMMA Found ==
  ASSUME pass' = "machine", NEW j, NEW k, j = at'[1], k = at'[2], Position(j, k)'
  PROVE  MachineInv'
  BY HereAfter DEF Here

LEMMA Lost ==
  ASSUME pass' = "wrong"
  PROVE  MachineInv'
<1>1. PICK j, k : j = at'[1] /\ k = at'[2]
  OBVIOUS
<1> QED
  BY <1>1, HereAfter DEF Here

\* A block that is not the first one is entered at its first instruction.
LEMMA ArriveFirst ==
  ASSUME CodeKept, SameCode, Framed, Framed', NEW j \in 2..Len(asm), Inside'
  PROVE  Position(j, 1)'
<1>1. j \in DOMAIN asm
  <2>1. Len(asm) \in Nat /\ DOMAIN asm = 1..Len(asm)
    BY SeqParts DEF CodeKept, Shape
  <2> QED
    BY <2>1
<1>2. EntryLen(j) = 0
  BY DEF EntryLen
<1>3. /\ Len(asm[j]) \in Nat /\ ExitLen(j) \in Nat
      /\ EntryLen(j) <= Len(asm[j]) - ExitLen(j)
  BY <1>1, BlockParts
<1>4. 1 \in (EntryLen(j) + 1)..(Len(asm[j]) - ExitLen(j) + 1)
  BY <1>2, <1>3
<1> QED
  BY <1>1, <1>4, Arrive

\* Nothing but the next instruction changes.
LEMMA Unmoved ==
  ASSUME SameSizes, regs' = regs, memory' = memory
  PROVE  /\ \A d : Entered(d) => Entered(d)'
         /\ \A u : Left(u) => Left(u)'
         /\ Inside => Inside'
<1>1. Saved' = Saved
  BY SameFrame
<1>2. ASSUME NEW d, Entered(d) PROVE Entered(d)'
  <2>1. PICK p, s, z : EnterArgs(d, p, s, z)
    BY DEF EnterArgs
  <2>2. Frame(p, s, z)
    BY <1>2, <2>1, SpeltHolds DEF Spelt
  <2>3. Frame(p, s, z)'
    BY <1>1, <2>2, SameAll
  <2> QED
    BY <2>1, <2>3, EnteredAfter
<1>3. ASSUME NEW u, Left(u) PROVE Left(u)'
  <2>1. PICK p, s, z : LeaveArgs(u, p, s, z)
    BY DEF LeaveArgs
  <2>2. Frame(p, s, z)
    BY <1>3, <2>1, SpeltHolds DEF Spelt
  <2>3. Frame(p, s, z)'
    BY <1>1, <2>2, SameAll
  <2> QED
    BY <2>1, <2>3, LeftAfter
<1>4. ASSUME Inside PROVE Inside'
  <2>1. PICK p, s, z : p = Len(Saved) /\ s = stacksize /\ z = rootsize
    OBVIOUS
  <2>2. (Inside <=> Frame(p, s, z)) /\ (Frame(p, s, z)' => Inside')
    BY <2>1, InsideAfter
  <2>3. Frame(p, s, z)'
    BY <1>1, <1>4, <2>2, SameAll
  <2> QED
    BY <2>2, <2>3
<1> QED
  BY <1>2, <1>3, <1>4

LEMMA MachineKeeps ==
  ASSUME Machine
  PROVE  pass = "machine" /\ SameCode /\ Framed /\ UNCHANGED vars
  BY DEF Machine, AtCode, RunOff, SameCode, SameSizes, Framed

\* Where Entry and Exit end, as a formula that holds after a step too.
Meeting ==
  \A d, u : Sizes => /\ d = Len(Entry) => (Entered(d) <=> Inside)
                     /\ u = Len(Exit) => (Left(u) <=> Outside)

LEMMA MeetingHolds == Meeting
  BY Ends DEF Meeting

LEMMA MeetingAfter == TRUE => Meeting'
  BY MeetingHolds, PTL

LEMMA CodeStep ==
  ASSUME CodeKept, Convention, MachineInv, AtCode, Machine
  PROVE  MachineInv'
<1>1. pass = "machine" /\ SameCode /\ SameSizes /\ Framed /\ Sizes
  BY MachineKeeps DEF SameCode, CodeKept
<1>2. PICK j, k : j = at[1] /\ k = at[2]
  OBVIOUS
<1>3. PICK e, n, d, u : /\ e = EntryLen(j) /\ n = Len(asm[j]) - ExitLen(j)
                        /\ d = k - 1 /\ u = k - 1 - n
  OBVIOUS
<1>4. Position(j, k)
  BY <1>1, <1>2, HereHolds DEF Here
<1>5. /\ j \in DOMAIN asm
      /\ k <= e => Entered(d)
      /\ k \in (e + 1)..(n + 1) => Inside
      /\ k > n => Left(u)
  BY <1>3, <1>4, SpotHolds DEF Spot
<1>6. k \in DOMAIN asm[j] /\ instr = asm[j][k]
  BY <1>2 DEF AtCode, instr
<1>7. /\ DOMAIN asm = 1..Len(asm) /\ Len(asm) \in Nat
      /\ DOMAIN asm[j] = 1..Len(asm[j]) /\ Len(asm[j]) \in Nat
      /\ EntryLen(j) \in Nat /\ ExitLen(j) \in Nat /\ EntryLen(j) <= Len(asm[j]) - ExitLen(j)
      /\ EntryLen(j) = (IF j = 1 THEN Len(Entry) ELSE 0)
      /\ ExitLen(j) = (IF j = Len(asm) THEN Len(Exit) ELSE 0)
      /\ \A q \in 1..EntryLen(j) : asm[j][q] = Entry[q]
      /\ \A q \in 1..ExitLen(j) : asm[j][(Len(asm[j]) - ExitLen(j)) + q] = Exit[q]
      /\ \A q \in (EntryLen(j) + 1)..(Len(asm[j]) - ExitLen(j)) : Body(asm[j][q])
  BY <1>1, <1>5, BlockParts
<1>8. /\ e \in Nat /\ n \in Nat /\ e <= n /\ n <= Len(asm[j]) /\ k \in 1..Len(asm[j])
      /\ ExitLen(j) = Len(asm[j]) - n
  <2>1. PICK w, x, y : w = Len(asm[j]) /\ x = ExitLen(j) /\ y = EntryLen(j)
    OBVIOUS
  <2>2. w \in Nat /\ x \in Nat /\ y \in Nat /\ y <= w - x /\ k \in 1..w
    BY <1>6, <1>7, <2>1
  <2>3. e = y /\ n = w - x
    BY <1>3, <2>1
  <2>4. e \in Nat /\ n \in Nat /\ e <= n /\ n <= w /\ x = w - n
    BY <2>2, <2>3
  <2> QED
    BY <2>1, <2>2, <2>4
<1>9. ASSUME Onward, pass' = pass, Inside', k \in e..n
      PROVE  MachineInv'
  <2>1. pass' = "machine" /\ at'[1] = j /\ at'[2] = k + 1 /\ Framed'
    BY <1>1, <1>2, <1>9 DEF Onward, Framed
  <2>2. k + 1 \in (EntryLen(j) + 1)..(Len(asm[j]) - ExitLen(j) + 1)
    BY <1>3, <1>8, <1>9
  <2>3. Position(j, k + 1)'
    BY <1>1, <1>5, <1>9, <2>1, <2>2, Arrive
  <2> QED
    BY <2>1, <2>3, Found
<1>10. CASE k <= e
  <2>1. k \in 1..Len(Entry) /\ e = Len(Entry) /\ instr = Entry[k]
    <3>1. e = Len(Entry)
      BY <1>3, <1>7, <1>8, <1>10
    <3>2. k \in 1..e
      BY <1>8, <1>10
    <3> QED
      BY <1>3, <1>6, <1>7, <3>1, <3>2
  <2>2. Entered(k - 1)
    BY <1>3, <1>5, <1>10
  <2>3. Entered(k)' /\ Onward /\ pass' = pass
    BY <1>1, <2>1, <2>2, EntryStep
  <2>4. CASE k = e
    <3>1. Sizes'
      BY <1>1 DEF Sizes, SameSizes, ToSet
    <3>2. Len(Entry)' = k
      BY <1>1, <2>1, <2>4, SameFrame
    <3>3. Inside'
      BY <2>3, <3>1, <3>2, MeetingAfter DEF Meeting
    <3> QED
      BY <1>8, <1>9, <2>3, <2>4, <3>3
  <2>5. CASE k # e
    <3>1. pass' = "machine" /\ at'[1] = j /\ at'[2] = k + 1 /\ Framed'
      BY <1>1, <1>2, <2>3 DEF Onward, Framed
    <3>2. PICK c : c = k + 1
      OBVIOUS
    <3>3. PICK v : v = c - 1 - n
      OBVIOUS
    <3>4. Position(j, c)' <=> /\ j \in DOMAIN asm /\ c \in 1..(Len(asm[j]) + 1)
                              /\ c <= e => Entered(k)'
                              /\ c \in (e + 1)..(n + 1) => Inside'
                              /\ c > n => Left(v)'
      <4>1. k = c - 1
        BY <1>8, <3>2
      <4> QED
        BY <1>1, <1>3, <3>1, <3>3, <4>1, SpotParts
    <3>5. c \in 1..(Len(asm[j]) + 1) /\ ~(c > n) /\ c \notin (e + 1)..(n + 1)
      BY <1>8, <1>10, <2>5, <3>2
    <3>6. Position(j, c)'
      BY <1>5, <2>3, <3>4, <3>5
    <3> QED
      BY <3>1, <3>2, <3>6, Found
  <2> QED
    BY <2>4, <2>5
<1>11. CASE k \in (e + 1)..n
  <2>1. Body(instr) /\ Inside /\ k \in e..n
    <3>1. k \in (e + 1)..(n + 1) /\ k \in e..n
      BY <1>8, <1>11
    <3>2. Body(asm[j][k])
      BY <1>3, <1>7, <1>11
    <3> QED
      BY <1>5, <1>6, <3>1, <3>2
  <2>2. Steady
    BY <1>1, <2>1 DEF Steady
  <2>3. pass' = "wrong" \/ (Inside' /\ (Onward \/ Away) /\ pass' = pass)
    BY <2>1, <2>2, BodyStep
  <2>4. ASSUME Inside', Away, pass' = pass
        PROVE  MachineInv'
    <3>1. PICK next \in 2..Len(asm) : at' = <<next, 1>>
      BY <2>4 DEF Away
    <3>2. pass' = "machine" /\ at'[1] = next /\ at'[2] = 1 /\ Framed'
      BY <1>1, <2>4, <3>1 DEF Framed
    <3>3. Position(next, 1)'
      BY <1>1, <2>4, <3>2, ArriveFirst
    <3> QED
      BY <3>2, <3>3, Found
  <2> QED
    BY <1>9, <2>1, <2>3, <2>4, Lost
<1>12. CASE k > n
  <2>1. PICK q : q = k - n
    OBVIOUS
  <2>2. q \in 1..ExitLen(j) /\ q \in Nat /\ u = q - 1 /\ k = (Len(asm[j]) - ExitLen(j)) + q
    <3>1. PICK w : w = Len(asm[j])
      OBVIOUS
    <3>2. w \in Nat /\ n \in Nat /\ k \in 1..w /\ k > n /\ n <= w /\ ExitLen(j) = w - n
      BY <1>7, <1>8, <1>12, <3>1
    <3>3. q \in 1..(w - n) /\ q \in Nat /\ k = n + q /\ n = w - (w - n)
      BY <2>1, <3>2
    <3>4. u = q - 1
      BY <1>3, <2>1, <3>2
    <3> QED
      BY <3>1, <3>2, <3>3, <3>4
  <2>3. q \in 1..Len(Exit) /\ instr = Exit[q]
    <3>1. PICK x : x = ExitLen(j)
      OBVIOUS
    <3>2. x = Len(Exit)
      <4>1. x = 0 \/ x = Len(Exit)
        BY <1>7, <3>1
      <4>2. x # 0
        BY <2>2, <3>1
      <4> QED
        BY <4>1, <4>2
    <3>3. asm[j][(Len(asm[j]) - x) + q] = Exit[q]
      BY <1>7, <2>2, <3>1
    <3> QED
      BY <1>6, <2>2, <3>1, <3>2, <3>3
  <2>4. Left(q - 1)
    BY <1>5, <1>12, <2>2
  <2>5. Left(q)' /\ Onward /\ pass' = pass
    BY <1>1, <2>3, <2>4, ExitStep
  <2>6. pass' = "machine" /\ at'[1] = j /\ at'[2] = k + 1 /\ Framed'
    BY <1>1, <1>2, <2>5 DEF Onward, Framed
  <2>7. PICK c : c = k + 1
    OBVIOUS
  <2>8. PICK x : x = c - 1
    OBVIOUS
  <2>9. Position(j, c)' <=> /\ j \in DOMAIN asm /\ c \in 1..(Len(asm[j]) + 1)
                            /\ c <= e => Entered(x)'
                            /\ c \in (e + 1)..(n + 1) => Inside'
                            /\ c > n => Left(q)'
    <3>1. q = c - 1 - n
      BY <1>8, <2>1, <2>7
    <3> QED
      BY <1>1, <1>3, <2>6, <2>8, <3>1, SpotParts
  <2>10. c \in 1..(Len(asm[j]) + 1) /\ ~(c <= e) /\ c \notin (e + 1)..(n + 1)
    BY <1>8, <1>12, <2>7
  <2>11. Position(j, c)'
    BY <1>5, <2>5, <2>9, <2>10
  <2> QED
    BY <2>6, <2>7, <2>11, Found
<1> QED
  BY <1>8, <1>10, <1>11, <1>12

LEMMA RunOffStep ==
  ASSUME CodeKept, MachineInv, RunOff, Machine
  PROVE  MachineInv'
<1>1. pass = "machine" /\ SameCode /\ SameSizes /\ Framed
  BY MachineKeeps DEF SameCode
<1>2. PICK j, k : j = at[1] /\ k = at[2]
  OBVIOUS
<1>3. PICK e, n, d, u : /\ e = EntryLen(j) /\ n = Len(asm[j]) - ExitLen(j)
                        /\ d = k - 1 /\ u = k - 1 - n
  OBVIOUS
<1>4. Position(j, k)
  BY <1>1, <1>2, HereHolds DEF Here
<1>5. /\ j \in DOMAIN asm /\ k \in 1..(Len(asm[j]) + 1)
      /\ k <= e => Entered(d)
      /\ k \in (e + 1)..(n + 1) => Inside
      /\ k > n => Left(u)
  BY <1>3, <1>4, SpotHolds DEF Spot
<1>6. /\ DOMAIN asm = 1..Len(asm) /\ Len(asm) \in Nat
      /\ DOMAIN asm[j] = 1..Len(asm[j]) /\ Len(asm[j]) \in Nat
      /\ EntryLen(j) \in Nat /\ EntryLen(j) <= Len(asm[j]) - ExitLen(j)
      /\ ExitLen(j) = (IF j = Len(asm) THEN Len(Exit) ELSE 0)
  BY <1>1, <1>5, BlockParts
<1>7. k = Len(asm[j]) + 1
  <2>1. at[2] \notin DOMAIN asm[at[1]]
    BY DEF RunOff
  <2> QED
    BY <1>2, <1>5, <1>6, <2>1
<1>8. CASE j < Len(asm) /\ at' = <<j + 1, 1>> /\ UNCHANGED <<pass, machine_vars>>
  <2>1. n = Len(asm[j]) /\ k \in (e + 1)..(n + 1)
    <3>1. ExitLen(j) = 0
      BY <1>6, <1>8
    <3>2. PICK w : w = Len(asm[j])
      OBVIOUS
    <3>3. w \in Nat /\ n = w - 0 /\ e <= w - 0 /\ e \in Nat /\ k = w + 1
      BY <1>3, <1>6, <1>7, <3>1, <3>2
    <3>4. n = w /\ k \in (e + 1)..(n + 1)
      BY <3>3
    <3> QED
      BY <3>2, <3>4
  <2>2. Inside'
    BY <1>1, <1>5, <1>8, <2>1, Unmoved DEF machine_vars
  <2>3. pass' = "machine" /\ Framed' /\ at'[1] = j + 1 /\ at'[2] = 1
    BY <1>1, <1>8 DEF Framed
  <2>4. j + 1 \in 2..Len(asm)
    BY <1>5, <1>6, <1>8
  <2>5. Position(j + 1, 1)'
    BY <1>1, <2>2, <2>3, <2>4, ArriveFirst
  <2> QED
    BY <2>3, <2>5, Found
<1>9. CASE j = Len(asm) /\ pass' = "returned" /\ UNCHANGED <<at, regs, memory>>
  <2>1. Framed'
    BY <1>9 DEF Framed
  <2>2. /\ k <= e => Entered(d)'
        /\ k \in (e + 1)..(n + 1) => Inside'
        /\ k > n => Left(u)'
    BY <1>1, <1>5, <1>9, Unmoved
  <2>3. Position(j, k)'
    BY <1>1, <1>3, <1>5, <2>1, <2>2, SpotParts
  <2>4. j = Len(asm') /\ k = Len(asm'[j]) + 1
    BY <1>1, <1>7, <1>9 DEF SameCode
  <2>5. j = at'[1] /\ k = at'[2]
    BY <1>2, <1>9
  <2> QED
    BY <1>9, <2>3, <2>4, <2>5, HereAfter DEF Here
<1>10. CASE pass' = "wrong"
  BY <1>10, Lost
<1> QED
  BY <1>2, <1>8, <1>9, <1>10 DEF RunOff, Wrong

LEMMA MachineStep ==
  ASSUME CodeKept, Convention, MachineInv, Machine
  PROVE  MachineInv'
<1>1. CASE AtCode
  BY <1>1, CodeStep
<1>2. CASE RunOff
  BY <1>2, RunOffStep
<1> QED
  BY <1>1, <1>2 DEF Machine

-----------------------------------------------------------------------------
(* Before the machine runs                                                 *)

\* The code starts with the registers of the caller.
LEMMA Untouched ==
  ASSUME regs = Before64, DOMAIN memory = {}, Sizes
  PROVE  Outside
<1>1. Len(Saved) \in Nat /\ DOMAIN Saved = 1..Len(Saved)
  BY SavedFacts DEF Sizes
<1>2. \A n \in DOMAIN Saved : ~(Len(Saved) - n + 1 <= 0)
  BY <1>1
<1>3. /\ DOMAIN regs = Machine64 /\ "rsp" \in Machine64 /\ "r15" \in Machine64
      /\ regs["rsp"] = <<"stack", 0>> /\ regs["r15"] = <<"root", 0>>
      /\ \A r \in Machine64 \ {"rsp"} : regs[r][1] # "stack"
  BY DEF Before64, Machine64
<1>4. -8 * 0 - 0 = 0
  OBVIOUS
<1> HIDE DEF Before64
<1> QED
  BY <1>2, <1>3, <1>4 DEF Outside, Frame

LEMMA Started ==
  ASSUME CodeKept, SameCode, Framed, Framed', regs = Before64, DOMAIN memory = {},
         regs' = regs, memory' = memory
  PROVE  Position(1, 1)'
<1>1. /\ 1 \in DOMAIN asm
  <2>1. Len(asm) \in Nat /\ DOMAIN asm = 1..Len(asm) /\ Len(asm) # 0
    BY SeqParts DEF CodeKept, Shape, CodeInv
  <2> QED
    BY <2>1
<1>2. PICK e, n, u : e = EntryLen(1) /\ n = Len(asm[1]) - ExitLen(1) /\ u = 1 - 1 - n
  OBVIOUS
<1>3. /\ e \in Nat /\ e = Len(Entry) /\ n \in Nat /\ e <= n /\ n <= Len(asm[1])
      /\ Len(asm[1]) \in Nat
  <2>1. PICK w, x, y : w = Len(asm[1]) /\ x = ExitLen(1) /\ y = EntryLen(1)
    OBVIOUS
  <2>2. w \in Nat /\ x \in Nat /\ y \in Nat /\ y <= w - x /\ y = Len(Entry)
    BY <1>1, <2>1, BlockParts
  <2>3. e = y /\ n = w - x
    BY <1>2, <2>1
  <2> QED
    BY <2>1, <2>2, <2>3
<1>4. SameSizes /\ Sizes /\ Sizes'
  BY DEF CodeKept, Sizes, SameCode, SameSizes, ToSet
<1>5. Entered(0)'
  BY <1>4, Untouched, Ends, Unmoved
<1>6. e = 0 => Inside'
  <2>1. e = Len(Entry)'
    BY <1>3, <1>4, SameFrame
  <2> QED
    BY <1>4, <1>5, <2>1, MeetingAfter DEF Meeting
<1>7. 1 > n => u = 0 /\ e = 0
  BY <1>2, <1>3
<1>8. 1 > n => Left(u)'
  BY <1>4, <1>6, <1>7, EndsAfter DEF EndsMeet
<1>9. 1 \in (e + 1)..(n + 1) => e = 0
  BY <1>3
<1>10. 1 \in 1..(Len(asm[1]) + 1) /\ 0 = 1 - 1
  BY <1>3
<1> QED
  BY <1>1, <1>2, <1>5, <1>6, <1>8, <1>9, <1>10, SpotParts

LEMMA SourceStep ==
  ASSUME CodeKept, MachineInv, SourceOp
  PROVE  MachineInv'
<1>1. /\ pass = "source" /\ Framed /\ SameCode /\ regs' = regs /\ memory' = memory
  BY DEF SourceOp, Framed, SameCode, SameSizes, machine_vars
<1>2. regs = Before64 /\ DOMAIN memory = {}
  BY <1>1 DEF MachineInv
<1>3. PICK j, k : j = at'[1] /\ k = at'[2]
  OBVIOUS
<1>4. CASE pass' = pass
  <2>1. Before64' = Before64
    OBVIOUS
  <2> QED
    BY <1>1, <1>2, <1>3, <1>4, HereAfter DEF Here
<1>5. CASE Code!DoReturn /\ pass' = "machine"
  <2>1. at' = <<1, 1>>
    BY <1>5 DEF Code!DoReturn
  <2>2. Framed'
    BY <1>5 DEF Framed
  <2>3. Position(1, 1)'
    BY <1>1, <1>2, <2>2, Started
  <2>4. 1 = at'[1] /\ 1 = at'[2]
    BY <2>1
  <2> QED
    BY <1>5, <2>3, <2>4, Found
<1> QED
  BY <1>4, <1>5 DEF SourceOp

\* The passes and what comes after them until the portable code runs.
LEMMA BeforeStep ==
  ASSUME MachineInv, pass \in {"regalloc", "frame", "patch", "compiled"},
         pass' \in {"regalloc", "frame", "patch", "compiled", "source"},
         regs' = regs, memory' = memory
  PROVE  MachineInv'
<1>1. regs = Before64 /\ DOMAIN memory = {}
  BY DEF MachineInv
<1>2. PICK j, k : j = at'[1] /\ k = at'[2]
  OBVIOUS
<1> QED
  BY <1>1, <1>2, HereAfter DEF Here

-----------------------------------------------------------------------------
(* Every step                                                              *)

ExecInv ==
  /\ HomesInv /\ f \in Programs /\ Sizes
  /\ pass # "regalloc" => CodeKept
  /\ MachineInv

LEMMA ExecStart ==
  ASSUME ExecInit
  PROVE  ExecInv
<1>1. HomesInv /\ pass = "regalloc"
  BY HomesInit DEF ExecInit, CompileInit
<1>2. f \in Programs
  BY FuncsAssumption DEF ExecInit, CompileInit
<1>3. Sizes
  <2>1. registers = <<>> /\ stacksize = 0 /\ rootsize = 0
    BY DEF ExecInit, CompileInit
  <2> QED
    BY <2>1 DEF Sizes, ToSet
<1>4. MachineInv
  <2>1. regs = Before64 /\ DOMAIN memory = {}
    BY DEF ExecInit
  <2> QED
    BY <1>1, <2>1 DEF MachineInv
<1> QED
  BY <1>1, <1>2, <1>3, <1>4 DEF ExecInv

\* What is proved holds for these programs and these registers.
Justified ==
  SomeRegisters /\ Convention /\ \A p \in Programs : Selected(p) /\ WritesAll(p)

\* A step that leaves what regalloc and the passes have made alone.
LEMMA LaterStep ==
  ASSUME ExecInv, UNCHANGED vars, SameCode, Framed, pass' \notin {"regalloc", "frame"},
         Framed' \/ pass' = "wrong"
  PROVE  HomesInv' /\ (f \in Programs)' /\ Sizes' /\ CodeKept'
<1>1. f' = f
  BY DEF vars
<1>2. pass \notin {"regalloc", "frame"}
  BY DEF Framed
<1>3. HomesInv'
  BY SameAlloc DEF ExecInv, HomesInv, Unwritten, HomesApart, SlotsInFrame
<1>4. CodeKept
  BY <1>2 DEF ExecInv
<1>5. Sizes' /\ Shape'
  BY <1>4 DEF CodeKept, Sizes, Shape, SameCode, SameSizes, ToSet
<1>6. CodeInv'
  <2>1. CASE Framed'
    BY <1>2, <1>4, <2>1, CodeSame DEF CodeKept
  <2>2. CASE pass' = "wrong"
    BY <2>2 DEF CodeInv, Framed
  <2> QED
    BY <2>1, <2>2
<1> QED
  BY <1>1, <1>3, <1>5, <1>6 DEF ExecInv, CodeKept

LEMMA CompileStep ==
  ASSUME Justified, ExecInv, Compile, UNCHANGED <<at, source_vars, machine_vars>>
  PROVE  ExecInv'
<1>1. HomesInv'
  BY HomesStep DEF ExecInv, Justified
<1>2. regs' = regs /\ memory' = memory
  BY DEF machine_vars
<1>3. CASE RegAlloc
  <2>1. pass = "regalloc" /\ pass' = pass /\ SameSizes /\ Next
    BY <1>3 DEF RegAlloc, code_vars, SameSizes
  <2>2. f' = f
    BY <2>1 DEF Next, LiveBlock, LivePanic, LiveDone, Define, NoNode, Call, NextBlock,
                Precolour, Colour1, Done
  <2>3. Sizes'
    BY <2>1 DEF ExecInv, Sizes, SameSizes, ToSet
  <2>4. MachineInv'
    BY <1>2, <2>1, BeforeStep DEF ExecInv
  <2> QED
    BY <1>1, <2>1, <2>2, <2>3, <2>4 DEF ExecInv
<1>4. CASE AssignHomes
  <2>1. pass = "regalloc" /\ pass' = "frame" /\ f' = f
    BY <1>4 DEF AssignHomes, vars
  <2>2. CodeKept'
    BY <1>4, AssignCode DEF ExecInv, HomesInv, Justified
  <2>3. MachineInv'
    BY <1>2, <2>1, BeforeStep DEF ExecInv
  <2> QED
    BY <1>1, <2>1, <2>2, <2>3 DEF ExecInv, CodeKept
<1>5. CASE AddStackFrame
  <2>1. pass = "frame" /\ pass' = "patch" /\ f' = f
    BY <1>5 DEF AddStackFrame, vars
  <2>2. CodeKept'
    BY <1>5, <2>1, FrameCode DEF ExecInv
  <2>3. MachineInv'
    BY <1>2, <2>1, BeforeStep DEF ExecInv
  <2> QED
    BY <1>1, <2>1, <2>2, <2>3 DEF ExecInv, CodeKept
<1>6. CASE PatchInstructions
  <2>1. pass = "patch" /\ pass' = "compiled" /\ f' = f
    BY <1>6 DEF PatchInstructions, vars
  <2>2. CodeKept'
    BY <1>6, <2>1, PatchCode DEF ExecInv, Justified
  <2>3. MachineInv'
    BY <1>2, <2>1, BeforeStep DEF ExecInv
  <2> QED
    BY <1>1, <2>1, <2>2, <2>3 DEF ExecInv, CodeKept
<1> QED
  BY <1>3, <1>4, <1>5, <1>6 DEF Compile

LEMMA RunStep ==
  ASSUME Justified, ExecInv, Begin \/ SourceOp \/ Machine
  PROVE  ExecInv'
<1>1. CASE Begin
  <2>1. /\ pass = "compiled" /\ pass' = "source" /\ UNCHANGED vars /\ SameCode
        /\ regs' = regs /\ memory' = memory /\ Framed /\ Framed'
    BY <1>1 DEF Begin, SameCode, SameSizes, machine_vars, Framed
  <2>2. HomesInv' /\ (f \in Programs)' /\ Sizes' /\ CodeKept'
    BY <2>1, LaterStep
  <2>3. MachineInv'
    BY <2>1, BeforeStep DEF ExecInv
  <2> QED
    BY <2>2, <2>3 DEF ExecInv
<1>2. CASE SourceOp
  <2>1. /\ pass = "source" /\ pass' \in {"source", "machine"} /\ UNCHANGED vars /\ SameCode
        /\ Framed /\ Framed'
    BY <1>2 DEF SourceOp, SameCode, SameSizes, Framed
  <2>2. HomesInv' /\ (f \in Programs)' /\ Sizes' /\ CodeKept'
    BY <2>1, LaterStep
  <2>3. MachineInv'
    BY <1>2, <2>1, SourceStep DEF ExecInv
  <2> QED
    BY <2>2, <2>3 DEF ExecInv
<1>3. CASE Machine
  <2>1. pass = "machine" /\ SameCode /\ Framed /\ UNCHANGED vars
    BY <1>3, MachineKeeps
  <2>2. pass' \in {"machine", "returned", "wrong"}
    BY <1>3, <2>1 DEF Machine, RunOff, Wrong, ToRegister, ToMemory, Divide, Compare, Push, Pop,
                      Jump, CallTuple
  <2>3. HomesInv' /\ (f \in Programs)' /\ Sizes' /\ CodeKept'
    BY <2>1, <2>2, LaterStep DEF Framed
  <2>4. MachineInv'
    BY <1>3, <2>1, MachineStep DEF ExecInv, Justified
  <2> QED
    BY <2>3, <2>4 DEF ExecInv
<1> QED
  BY <1>1, <1>2, <1>3

LEMMA StutterStep ==
  ASSUME ExecInv, UNCHANGED all_vars, Justified
  PROVE  ExecInv'
<1>1. /\ UNCHANGED <<vars, code_vars>> /\ SameCode /\ UNCHANGED vars
      /\ pass' = pass /\ regs' = regs /\ memory' = memory /\ at' = at /\ f' = f
  BY DEF all_vars, code_vars, machine_vars, SameCode, SameSizes, vars
<1>2. HomesInv'
  BY <1>1, HomesStep DEF ExecInv, Justified
<1>3. Sizes'
  BY <1>1 DEF ExecInv, Sizes, SameCode, SameSizes, ToSet
<1>4. pass # "regalloc" => CodeKept'
  BY <1>1, CodeSame DEF ExecInv, Framed
<1>5. MachineInv'
  <2>1. CASE pass \in {"machine", "returned"}
    <3>1. Framed /\ Framed' /\ pass # "regalloc"
      BY <1>1, <2>1 DEF Framed
    <3>2. PICK j, k : j = at[1] /\ k = at[2]
      OBVIOUS
    <3>3. PICK e, n, d, u : /\ e = EntryLen(j) /\ n = Len(asm[j]) - ExitLen(j)
                            /\ d = k - 1 /\ u = k - 1 - n
      OBVIOUS
    <3>4. Position(j, k) /\ (pass = "returned" => j = Len(asm) /\ k = Len(asm[j]) + 1)
      BY <2>1, <3>2, HereHolds DEF Here, ExecInv
    <3>5. /\ j \in DOMAIN asm /\ k \in 1..(Len(asm[j]) + 1)
          /\ k <= e => Entered(d)
          /\ k \in (e + 1)..(n + 1) => Inside
          /\ k > n => Left(u)
      BY <3>3, <3>4, SpotHolds DEF Spot
    <3>6. /\ k <= e => Entered(d)'
          /\ k \in (e + 1)..(n + 1) => Inside'
          /\ k > n => Left(u)'
      BY <1>1, <3>5, Unmoved DEF SameCode
    <3>7. Position(j, k)'
      BY <1>1, <3>1, <3>3, <3>5, <3>6, SpotParts
    <3>8. j = at'[1] /\ k = at'[2] /\ asm' = asm
      BY <1>1, <3>2 DEF SameCode
    <3> QED
      BY <1>1, <2>1, <3>4, <3>7, <3>8, HereAfter DEF Here
  <2>2. CASE pass \notin {"machine", "returned"}
    <3>1. PICK j, k : j = at'[1] /\ k = at'[2]
      OBVIOUS
    <3>2. pass \in {"regalloc", "frame", "patch", "compiled", "source"} =>
            regs = Before64 /\ DOMAIN memory = {}
      BY DEF ExecInv, MachineInv
    <3> QED
      BY <1>1, <2>2, <3>1, <3>2, HereAfter DEF Here
  <2> QED
    BY <2>1, <2>2
<1> QED
  BY <1>1, <1>2, <1>3, <1>4, <1>5 DEF ExecInv

LEMMA ExecInvariant ==
  ASSUME Justified
  PROVE  ExecSpec => []ExecInv
<1>1. ExecInit => ExecInv
  BY ExecStart
<1>2. ExecInv /\ [ExecNext]_all_vars => ExecInv'
  <2> SUFFICES ASSUME ExecInv, [ExecNext]_all_vars
               PROVE  ExecInv'
    OBVIOUS
  <2>1. CASE Compile /\ UNCHANGED <<at, source_vars, machine_vars>>
    BY <2>1, CompileStep
  <2>2. CASE Begin \/ SourceOp \/ Machine
    BY <2>2, RunStep
  <2>3. CASE UNCHANGED all_vars
    BY <2>3, StutterStep
  <2> QED
    BY <2>1, <2>2, <2>3 DEF ExecNext
<1> QED
  BY <1>1, <1>2, PTL DEF ExecSpec

(***************************************************************************)
(* For every function that SelectInstructions can be given and every set   *)
(* of registers that agrees with the calling convention: the first block   *)
(* enters the frame, the last one leaves it, and no other instruction      *)
(* moves a stack pointer, jumps back to the first block or writes a        *)
(* register that the caller wants back and that was not pushed             *)
(* (asm.go:310-391).                                                       *)
(***************************************************************************)
THEOREM CodeInvHolds ==
  ASSUME SomeRegisters, Convention, \A s \in Funcs : Lowered(s)
  PROVE  ExecSpec => []CodeInv
<1>1. Justified
  BY FuncsAssumption, SelectsWhole DEF Justified
<1>2. ExecInv => CodeInv
  BY DEF ExecInv, CodeKept, CodeInv, Framed
<1> QED
  BY <1>1, <1>2, ExecInvariant, PTL

(***************************************************************************)
(* And wherever the machine is in that code, the stack pointers are where  *)
(* the frame says, and what the caller wants back is in its register or in *)
(* the slot where it was pushed (asm.go:324-360).                          *)
(***************************************************************************)
THEOREM MachineInvHolds ==
  ASSUME SomeRegisters, Convention, \A s \in Funcs : Lowered(s)
  PROVE  ExecSpec => []MachineInv
<1>1. Justified
  BY FuncsAssumption, SelectsWhole DEF Justified
<1>2. ExecInv => MachineInv
  BY DEF ExecInv
<1> QED
  BY <1>1, <1>2, ExecInvariant, PTL

(***************************************************************************)
(* For every such function and every such set of registers, when the       *)
(* compiled code returns the caller finds its callee-save registers and    *)
(* both stack pointers as they were (asm.go:310-391).                      *)
(***************************************************************************)
THEOREM CallerSeesNothingHolds ==
  ASSUME SomeRegisters, Convention, \A s \in Funcs : Lowered(s)
  PROVE  ExecSpec => []CallerSeesNothing
<1>1. Justified
  BY FuncsAssumption, SelectsWhole DEF Justified
<1>2. ExecInv => CallerSeesNothing
  <2> SUFFICES ASSUME ExecInv, pass = "returned"
               PROVE  \A r \in CalleeSave \cup {"rsp", "r15"} : regs[r] = Before64[r]
    BY DEF CallerSeesNothing
  <2>1. CodeKept /\ Framed /\ Sizes
    BY DEF ExecInv, Framed
  <2>2. PICK j, k : j = at[1] /\ k = at[2]
    OBVIOUS
  <2>3. PICK e, n, d, u : /\ e = EntryLen(j) /\ n = Len(asm[j]) - ExitLen(j)
                          /\ d = k - 1 /\ u = k - 1 - n
    OBVIOUS
  <2>4. Position(j, k) /\ j = Len(asm) /\ k = Len(asm[j]) + 1
    BY <2>2, HereHolds DEF Here, ExecInv
  <2>5. j \in DOMAIN asm /\ (k > n => Left(u))
    BY <2>3, <2>4, SpotHolds DEF Spot
  <2>6. /\ Len(asm[j]) \in Nat /\ ExitLen(j) \in Nat /\ ExitLen(j) = Len(Exit)
    BY <2>1, <2>4, <2>5, BlockParts
  <2>7. k > n /\ u = Len(Exit)
    <3>1. PICK w, x : w = Len(asm[j]) /\ x = Len(Exit)
      OBVIOUS
    <3>2. w \in Nat /\ x \in Nat /\ n = w - x /\ k = w + 1 /\ u = k - 1 - n
      BY <2>3, <2>4, <2>6, <3>1
    <3>3. k > n /\ u = x
      BY <3>2
    <3> QED
      BY <3>1, <3>3
  <2>8. Outside
    BY <2>1, <2>5, <2>7, MeetingHolds DEF Meeting
  <2>9. Len(Saved) \in Nat /\ DOMAIN Saved = 1..Len(Saved)
    BY <2>1, SavedFacts DEF Sizes
  <2>10. /\ regs["rsp"] = <<"stack", 0>> /\ regs["r15"] = <<"root", 0>>
         /\ \A r \in CalleeSave \ {"rsp", "r15"} : r \notin ToSet(Saved) => regs[r] = Before64[r]
         /\ \A m \in DOMAIN Saved : regs[Saved[m]] = Before64[Saved[m]]
    <3>1. -8 * 0 - 0 = 0 /\ \A m \in DOMAIN Saved : ~(Len(Saved) - m + 1 <= 0)
      BY <2>9
    <3> HIDE DEF Before64
    <3> QED
      BY <2>8, <3>1 DEF Outside, Frame
  <2>11. Before64["rsp"] = <<"stack", 0>> /\ Before64["r15"] = <<"root", 0>>
    BY DEF Before64, Machine64
  <2> HIDE DEF Before64
  <2> QED
    BY <2>10, <2>11 DEF ToSet
<1> QED
  BY <1>1, <1>2, ExecInvariant, PTL
=============================================================================
