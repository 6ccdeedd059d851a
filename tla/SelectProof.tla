----------------------------- MODULE SelectProof -----------------------------
(***************************************************************************)
(* What SelectInstructions makes of portable code, for every function that *)
(* it can be given (Lowered): code that touches no stack pointer, never    *)
(* goes back to the first block, writes only variables, registers of its   *)
(* own and memory behind a tuple (Selected), has no empty block and gives  *)
(* a value to each variable it reads.                                      *)
(***************************************************************************)
EXTENDS BackendProof

-----------------------------------------------------------------------------
(* Sequences                                                               *)

LEMMA CatFacts ==
  ASSUME NEW s, NEW t, IsSeq(s), IsSeq(t)
  PROVE  IsSeq(s \o t) /\ ToSet(s \o t) = ToSet(s) \cup ToSet(t)
<1> DEFINE u == s \o t
<1>1. /\ IsSeq(u) /\ Len(u) = Len(s) + Len(t)
      /\ \A k \in 1..Len(s) : u[k] = s[k]
      /\ \A k \in 1..Len(t) : u[Len(s) + k] = t[k]
  BY Cat
<1> HIDE DEF u
<1>2. /\ Len(s) \in Nat /\ Len(t) \in Nat /\ DOMAIN s = 1..Len(s) /\ DOMAIN t = 1..Len(t)
      /\ DOMAIN u = 1..(Len(s) + Len(t))
  BY <1>1, SeqParts
<1>3. ToSet(s) \subseteq ToSet(u)
  BY <1>1, <1>2 DEF ToSet
<1>4. ToSet(t) \subseteq ToSet(u)
  <2> SUFFICES ASSUME NEW k \in 1..Len(t) PROVE t[k] \in ToSet(u)
    BY <1>2 DEF ToSet
  <2>1. Len(s) + k \in DOMAIN u
    BY <1>2
  <2> QED
    BY <1>1, <2>1 DEF ToSet
<1>5. ASSUME NEW k \in DOMAIN u PROVE u[k] \in ToSet(s) \cup ToSet(t)
  <2>1. CASE k <= Len(s)
    BY <1>1, <1>2, <2>1 DEF ToSet
  <2>2. CASE ~(k <= Len(s))
    <3>1. k - Len(s) \in 1..Len(t) /\ Len(s) + (k - Len(s)) = k
      BY <1>2, <2>2
    <3>2. u[k] = t[k - Len(s)]
      BY <1>1, <3>1
    <3> QED
      BY <1>2, <3>1, <3>2 DEF ToSet
  <2> QED
    BY <2>1, <2>2
<1>6. ToSet(u) \subseteq ToSet(s) \cup ToSet(t)
  BY <1>5 DEF ToSet
<1> QED
  BY <1>1, <1>3, <1>4, <1>6 DEF u

LEMMA Flat ==
  ASSUME NEW ss, IsSeq(ss), \A k \in DOMAIN ss : IsSeq(ss[k])
  PROVE  /\ IsSeq(FlattenSeq(ss))
         /\ ToSet(FlattenSeq(ss)) = UNION {ToSet(ss[k]) : k \in DOMAIN ss}
<1> DEFINE A == UNION {ToSet(ss[k]) : k \in DOMAIN ss}
           N == Len(ss)
           c == FlattenSeq(ss)
<1>1. N \in Nat /\ DOMAIN ss = 1..N
  BY SeqParts
<1>2. ASSUME NEW k \in 1..N PROVE ss[k] \in Seq(A)
  <2>1. PICK T : ss[k] \in Seq(T)
    BY <1>1, <1>2 DEF IsSeq
  <2>2. \A m \in 1..Len(ss[k]) : ss[k][m] \in A
    BY <1>1, <1>2, <2>1 DEF ToSet
  <2> HIDE DEF A
  <2> QED
    BY <2>1, <2>2
<1>3. ss \in Seq(Seq(A))
  <2> HIDE DEF A
  <2>1. PICK T : ss \in Seq(T)
    BY DEF IsSeq
  <2> QED
    BY <1>1, <1>2, <2>1
<1>4. CASE N = 0
  <2>1. ss = <<>> /\ DOMAIN ss = {}
    BY <1>1, <1>4, SeqParts
  <2>2. c = <<>>
    BY <2>1 DEF FlattenSeq
  <2>3. ToSet(<<>>) = {} /\ IsSeq(<<>>)
    BY DEF ToSet, IsSeq
  <2> QED
    BY <2>1, <2>2, <2>3
<1>5. CASE N # 0
  <2>0. N = Len(ss)
    OBVIOUS
  <2> DEFINE upto(n) == UNION {ToSet(ss[k]) : k \in 1..n}
  <2>1. A = upto(N)
    BY <1>1
  <2> HIDE DEF A, N, c
  <2>2. PICK g \in [1..N -> Seq(A)] :
          /\ g[N] = c
          /\ g[1] = ss[1]
          /\ \A n \in 2..N : g[n] = g[n - 1] \o ss[n]
    <3>1. PICK g : Flattens(g, ss, A)
      BY <1>3, <1>5, <2>0, FlatSteps
    <3> QED
      BY <2>0, <3>1 DEF Flattens, c
  <2> DEFINE B == {n \in 1..N : ToSet(g[n]) # upto(n)}
  <2>3. ToSet(g[1]) = upto(1)
    BY <2>2
  <2>4. ASSUME NEW n \in 2..N, ToSet(g[n - 1]) = upto(n - 1) PROVE ToSet(g[n]) = upto(n)
    <3>1. n - 1 \in 1..N /\ n \in 1..N
      BY <1>1
    <3>2. g[n - 1] \in Seq(A) /\ ss[n] \in Seq(A) /\ g[n] = g[n - 1] \o ss[n]
      BY <1>2, <2>2, <3>1
    <3>3. ToSet(g[n - 1] \o ss[n]) = ToSet(g[n - 1]) \cup ToSet(ss[n])
      BY <3>2, CatFacts DEF IsSeq
    <3>4. upto(n) = upto(n - 1) \cup ToSet(ss[n])
      <4>1. 1..n = (1..(n - 1)) \cup {n}
        BY <1>1
      <4> QED
        BY <4>1
    <3> QED
      BY <2>4, <3>2, <3>3, <3>4
  <2> HIDE DEF upto
  <2>5. ASSUME B # {} PROVE FALSE
    <3>1. B \in SUBSET Nat
      BY <1>1
    <3> HIDE DEF B
    <3>2. PICK m \in B : \A y \in B : m <= y
      BY <2>5, <3>1, Least
    <3>3. m \in 1..N /\ ToSet(g[m]) # upto(m)
      BY <3>2 DEF B
    <3>4. m \in 2..N /\ m - 1 \in 1..N
      BY <1>1, <2>3, <3>3
    <3>5. m - 1 \notin B
      BY <1>1, <3>1, <3>2, <3>4
    <3>6. ToSet(g[m - 1]) = upto(m - 1)
      BY <3>4, <3>5 DEF B
    <3> QED
      BY <2>4, <3>3, <3>4, <3>6
  <2>6. N \in 1..N
    BY <1>1, <1>5
  <2>7. ToSet(c) = upto(N) /\ c \in Seq(A)
    BY <2>2, <2>5, <2>6
  <2> QED
    BY <2>1, <2>7 DEF A, c, IsSeq
<1> QED
  BY <1>4, <1>5

\* A sequence by what is in it.
Holds(s, T) == IsSeq(s) /\ ToSet(s) = T

LEMMA Tuples ==
  /\ Holds(<<>>, {})
  /\ \A x1 : Holds(<<x1>>, {x1})
  /\ \A x1, x2 : Holds(<<x1, x2>>, {x1, x2})
  /\ \A x1, x2, x3 : Holds(<<x1, x2, x3>>, {x1, x2, x3})
  /\ \A x1, x2, x3, x4 : Holds(<<x1, x2, x3, x4>>, {x1, x2, x3, x4})
<1>1. Holds(<<>>, {})
  BY DEF Holds, IsSeq, ToSet
<1>2. ASSUME NEW x1 PROVE Holds(<<x1>>, {x1})
  <2> DEFINE x == <<x1>>
  <2>1. x \in Seq({x1}) /\ DOMAIN x = {1} /\ x[1] = x1
    OBVIOUS
  <2> HIDE DEF x
  <2>2. ToSet(x) = {x1}
    BY <2>1 DEF ToSet
  <2>3. IsSeq(x)
    BY <2>1 DEF IsSeq
  <2> QED
    BY <2>2, <2>3 DEF Holds, x
<1>3. ASSUME NEW x1, NEW x2 PROVE Holds(<<x1, x2>>, {x1, x2})
  <2> DEFINE x == <<x1, x2>>
  <2>1. x \in Seq({x1, x2}) /\ DOMAIN x = {1, 2} /\ x[1] = x1 /\ x[2] = x2
    OBVIOUS
  <2> HIDE DEF x
  <2>2. ToSet(x) = {x1, x2}
    BY <2>1 DEF ToSet
  <2>3. IsSeq(x)
    BY <2>1 DEF IsSeq
  <2> QED
    BY <2>2, <2>3 DEF Holds, x
<1>4. ASSUME NEW x1, NEW x2, NEW x3 PROVE Holds(<<x1, x2, x3>>, {x1, x2, x3})
  <2> DEFINE x == <<x1, x2, x3>>
  <2>1. x \in Seq({x1, x2, x3}) /\ DOMAIN x = {1, 2, 3} /\ x[1] = x1 /\ x[2] = x2 /\ x[3] = x3
    OBVIOUS
  <2> HIDE DEF x
  <2>2. ToSet(x) = {x1, x2, x3}
    BY <2>1 DEF ToSet
  <2>3. IsSeq(x)
    BY <2>1 DEF IsSeq
  <2> QED
    BY <2>2, <2>3 DEF Holds, x
<1>5. ASSUME NEW x1, NEW x2, NEW x3, NEW x4 PROVE Holds(<<x1, x2, x3, x4>>, {x1, x2, x3, x4})
  <2> DEFINE x == <<x1, x2, x3, x4>>
  <2>1. x \in Seq({x1, x2, x3, x4}) /\ DOMAIN x = {1, 2, 3, 4} /\ x[1] = x1 /\ x[2] = x2 /\ x[3] = x3 /\ x[4] = x4
    OBVIOUS
  <2> HIDE DEF x
  <2>2. ToSet(x) = {x1, x2, x3, x4}
    BY <2>1 DEF ToSet
  <2>3. IsSeq(x)
    BY <2>1 DEF IsSeq
  <2> QED
    BY <2>2, <2>3 DEF Holds, x
<1> QED
  BY <1>1, <1>2, <1>3, <1>4, <1>5

-----------------------------------------------------------------------------
(* One instruction                                                         *)

\* An operand that SelectInstructions reads, and one it also writes.
Source(s, a) == (\E r \in WrittenRegs(s) : a = Var(r)) \/ (~isVar(a) /\ Placed(a, 0))
Target(s, a) == Source(s, a) /\ (isReg(a) => Full(a[2]) \in Scratch)

\* What Selected asks of an instruction, with the variables it may name.
Fine(s, op) ==
  /\ Ordinary(op, Len(s.blocks), Scratch)
  /\ op.tag = "instr" => Len(op.args) \in 1..2 \/ op.variant = "cqto"
  /\ \A n \in DOMAIN op.args : Source(s, op.args[n])

LEMMA Kinds ==
  /\ \A r : isVar(Var(r)) /\ ~isReg(Var(r)) /\ ~isMem(Var(r))
  /\ \A r : isReg(Reg64(r)) /\ ~isVar(Reg64(r)) /\ Reg64(r)[2] = r
  /\ \A n : ~isVar(Imm(n)) /\ ~isReg(Imm(n)) /\ Imm(n)[1] = "imm"
  /\ \A r, n : /\ isMem(mkmem(r, n)) /\ ~isVar(mkmem(r, n)) /\ ~isReg(mkmem(r, n))
               /\ mkmem(r, n)[2] = r
  BY DEF isVar, isReg, isMem, Var, Reg64, Imm, mkmem

LEMMA Operands ==
  ASSUME Convention, NEW s
  PROVE  /\ \A r \in WrittenRegs(s) : Target(s, Var(r))
         /\ \A r \in DOMAIN s.literals \cup WrittenRegs(s) : Target(s, getLiteral(s, r))
         /\ Target(s, rax) /\ Target(s, rbase) /\ Target(s, Reg64("al"))
         /\ \A k \in DOMAIN ArgRegisters : Target(s, Reg64(ArgRegisters[k]))
         /\ Source(s, Reg64("r15"))
         /\ \A n : Target(s, mkmem("r11", n))
<1>1. \A r \in WrittenRegs(s) : Target(s, Var(r))
  BY Kinds DEF Target, Source
<1>2. \A n : Target(s, Imm(n))
  BY Kinds DEF Target, Source, Placed
<1>3. \A r \in DOMAIN s.literals \cup WrittenRegs(s) : Target(s, getLiteral(s, r))
  BY <1>1, <1>2 DEF getLiteral
<1>4. ASSUME NEW r, Full(r) \in Scratch PROVE Target(s, Reg64(r))
  BY <1>4, Kinds DEF Target, Source, Placed, Convention
<1>5. Target(s, rax) /\ Target(s, rbase) /\ Target(s, Reg64("al"))
  BY <1>4 DEF Full, Scratch, rax, rbase
<1>6. ASSUME NEW k \in DOMAIN ArgRegisters PROVE Target(s, Reg64(ArgRegisters[k]))
  <2>1. ArgRegisters[k] \in Scratch /\ "rax" \in Scratch
    BY DEF Scratch, ToSet
  <2>2. Full(ArgRegisters[k]) \in Scratch
    BY <2>1 DEF Full
  <2> QED
    BY <1>4, <2>2
<1>7. Source(s, Reg64("r15"))
  BY Kinds DEF Source, Placed, Full, Machine64
<1>8. \A n : Target(s, mkmem("r11", n))
  BY Kinds DEF Target, Source, Placed, Machine64
<1> QED
  BY <1>1, <1>3, <1>5, <1>6, <1>7, <1>8

LEMMA OneOperand ==
  ASSUME NEW s, NEW v \in Opcodes, NEW a, Target(s, a)
  PROVE  Fine(s, mkinstr(v, <<a>>)) /\ mkinstr(v, <<a>>).args[1] = a
<1> DEFINE op == mkinstr(v, <<a>>)
<1>1. op.tag = "instr" /\ op.variant = v /\ op.args = <<a>>
  BY DEF mkinstr
<1>2. Len(op.args) = 1 /\ DOMAIN op.args = {1} /\ op.args[1] = a
  BY <1>1
<1> HIDE DEF op
<1> QED
  BY <1>1, <1>2 DEF Fine, Ordinary, Target, op

LEMMA TwoOperands ==
  ASSUME NEW s, NEW v \in Opcodes, NEW a, NEW y, Source(s, a), Source(s, y),
         v \in Simple => Target(s, a)
  PROVE  Fine(s, mkinstr(v, <<a, y>>))
<1> DEFINE op == mkinstr(v, <<a, y>>)
<1>1. op.tag = "instr" /\ op.variant = v /\ op.args = <<a, y>>
  BY DEF mkinstr
<1>2. Len(op.args) = 2 /\ DOMAIN op.args = {1, 2} /\ op.args[1] = a /\ op.args[2] = y
  BY <1>1
<1> HIDE DEF op
<1> QED
  BY <1>1, <1>2 DEF Fine, Ordinary, Target, op

LEMMA NoOperand ==
  ASSUME NEW s
  PROVE  /\ Fine(s, mkinstr("cqto", <<>>))
         /\ \A v \in {"", "psc_newtuple"} : Fine(s, mkcall(v))
         /\ \A v \in {""} \cup {cc[x] : x \in Compares} : \A to \in 2..Len(s.blocks) :
              Fine(s, mkjump(v, to))
<1>0. DOMAIN <<>> = {}
  OBVIOUS
<1>1. Fine(s, mkinstr("cqto", <<>>))
  BY DEF Fine, Ordinary, mkinstr, Opcodes, Simple, SetIf
<1>2. ASSUME NEW v \in {"", "psc_newtuple"} PROVE Fine(s, mkcall(v))
  BY <1>0 DEF Fine, Ordinary, mkcall, Opcodes, Simple, SetIf
<1>3. ASSUME NEW v \in {""} \cup {cc[x] : x \in Compares}, NEW to \in 2..Len(s.blocks)
      PROVE  Fine(s, mkjump(v, to))
  <2>1. v \in {"", "z", "nz", "l", "le", "g", "ge"}
    BY DEF cc, Compares
  <2> QED
    BY <1>0, <2>1 DEF Fine, Ordinary, mkjump, Opcodes, Simple, SetIf
<1> QED
  BY <1>1, <1>2, <1>3

\* An instruction that writes the variable r.
Gives(op, r) == Var(r) \in dest(op)

LEMMA Giving ==
  ASSUME NEW r, NEW v \in {"movq", "movzbq", "addq", "subq", "negq"}
  PROVE  /\ Gives(mkinstr(v, <<Var(r)>>), r)
         /\ \A y : Gives(mkinstr(v, <<Var(r), y>>), r)
<1>1. Var(r) \in Named({Var(r)})
  BY Kinds DEF Named
<1>2. ASSUME NEW args, args[1] = Var(r) PROVE Gives(mkinstr(v, args), r)
  BY <1>1, <1>2 DEF Gives, dest, mkinstr
<1> QED
  BY <1>2

-----------------------------------------------------------------------------
(* One op                                                                  *)

\* Instructions of this kind, one of which writes r for each r in rs.
Piece(s, c, rs) ==
  /\ IsSeq(c) /\ \A op \in ToSet(c) : Fine(s, op)
  /\ \A r \in rs : \E op \in ToSet(c) : Gives(op, r)

LEMMA PieceOf ==
  ASSUME NEW s, NEW c, NEW T, Holds(c, T), \A op \in T : Fine(s, op),
         NEW rs, \A r \in rs : \E op \in T : Gives(op, r)
  PROVE  Piece(s, c, rs)
  BY DEF Holds, Piece

LEMMA SelectsBinOp ==
  ASSUME Convention, NEW s, NEW o, o.variant \in {"*", "/", "+", "-"} \cup Compares,
         Target(s, Var(o.dst)), Target(s, getLiteral(s, o.src[1])),
         Target(s, getLiteral(s, o.src[2]))
  PROVE  Piece(s, SelectBinOp(s, o), {o.dst}) /\ SelectBinOp(s, o) # <<>>
<1> DEFINE d == Var(o.dst)
           x == getLiteral(s, o.src[1])
           y == getLiteral(s, o.src[2])
           c == SelectBinOp(s, o)
           Result(p) == Piece(s, p, {o.dst}) /\ p # <<>>
<1>1. /\ Target(s, d) /\ Target(s, x) /\ Target(s, y)
      /\ Source(s, d) /\ Source(s, x) /\ Source(s, y)
  BY DEF Target
<1>2. /\ Target(s, rax) /\ Source(s, rax)
      /\ Target(s, Reg64("al")) /\ Source(s, Reg64("al"))
  BY Operands DEF Target
<1>3. {"movq", "movzbq", "addq", "subq", "imul", "negq", "cmpq", "idiv"} \subseteq Opcodes
      /\ "idiv" \notin Simple /\ "cmpq" \notin Simple
  BY DEF Opcodes, Simple, SetIf
<1>4. \A v \in Compares : setcc[v] \in Opcodes
  BY DEF setcc, Compares, Opcodes, Simple, SetIf
<1> DEFINE gives(p) == Gives(p, o.dst)
<1>5. /\ \A z : gives(mkinstr("movq", <<d, z>>)) /\ gives(mkinstr("addq", <<d, z>>))
               /\ gives(mkinstr("subq", <<d, z>>)) /\ gives(mkinstr("movzbq", <<d, z>>))
      /\ gives(mkinstr("negq", <<d>>))
  BY Giving
<1> HIDE DEF d, x, y, gives
<1>6. ASSUME NEW i1, Fine(s, i1), gives(i1) PROVE Result(<<i1>>)
  BY <1>6, Tuples, PieceOf DEF gives
<1>7. ASSUME NEW i1, NEW i2, Fine(s, i1), Fine(s, i2), gives(i1) \/ gives(i2)
      PROVE  Result(<<i1, i2>>)
  <2>1. Holds(<<i1, i2>>, {i1, i2})
    BY Tuples
  <2>2. Piece(s, <<i1, i2>>, {o.dst})
    BY <1>7, <2>1, PieceOf DEF gives
  <2> QED
    BY <2>2
<1>8. ASSUME NEW i1, NEW i2, NEW i3, Fine(s, i1), Fine(s, i2), Fine(s, i3), gives(i3)
      PROVE  Result(<<i1, i2, i3>>)
  <2>1. Holds(<<i1, i2, i3>>, {i1, i2, i3})
    BY Tuples
  <2>2. Piece(s, <<i1, i2, i3>>, {o.dst})
    BY <1>8, <2>1, PieceOf DEF gives
  <2> QED
    BY <2>2
<1>9. ASSUME NEW i1, NEW i2, NEW i3, NEW i4, Fine(s, i1), Fine(s, i2), Fine(s, i3), Fine(s, i4),
             gives(i4)
      PROVE  Result(<<i1, i2, i3, i4>>)
  <2>1. Holds(<<i1, i2, i3, i4>>, {i1, i2, i3, i4})
    BY Tuples
  <2>2. Piece(s, <<i1, i2, i3, i4>>, {o.dst})
    BY <1>9, <2>1, PieceOf DEF gives
  <2> QED
    BY <2>2
<1>10. \A v \in {"movq", "addq", "subq", "imul"} : \A z :
         Source(s, z) => Fine(s, mkinstr(v, <<d, z>>))
  BY <1>1, <1>3, TwoOperands
<1> DEFINE in_place(op) == <<mkinstr("movq", <<d, x>>), mkinstr(op, <<d, y>>)>>
<1>11. ASSUME NEW op \in {"addq", "subq", "imul"} PROVE Result(in_place(op))
  <2> HIDE DEF Result
  <2> QED
    BY <1>1, <1>5, <1>7, <1>10
<1>12. c = CASE o.variant = "*" -> in_place("imul")
        [] o.variant = "/" -> <<mkinstr("movq", <<rax, x>>), mkinstr("cqto", <<>>),
                                mkinstr("idiv", <<y>>), mkinstr("movq", <<d, rax>>)>>
        [] o.variant = "+" ->
             CASE o.dst = o.src[1] -> <<mkinstr("addq", <<d, y>>)>>
               [] o.dst # o.src[1] /\ o.dst = o.src[2] -> <<mkinstr("addq", <<d, x>>)>>
               [] OTHER -> in_place("addq")
        [] o.variant = "-" ->
             CASE o.dst = o.src[1] -> <<mkinstr("subq", <<d, y>>)>>
               [] o.dst # o.src[1] /\ x = Imm(0) /\ o.dst = o.src[2] ->
                    <<mkinstr("negq", <<d>>)>>
               [] o.dst # o.src[1] /\ x = Imm(0) /\ o.dst # o.src[2] ->
                    <<mkinstr("movq", <<d, y>>), mkinstr("negq", <<d>>)>>
               [] OTHER -> in_place("subq")
        [] o.variant \in Compares ->
             <<mkinstr("cmpq", <<x, y>>),
               mkinstr(setcc[o.variant], <<Reg64("al")>>),
               mkinstr("movzbq", <<d, Reg64("al")>>)>>
  BY DEF SelectBinOp, d, x, y
<1> HIDE DEF Result, in_place, c
<1>0. {"*", "/", "+", "-"} \cap Compares = {}
  BY DEF Compares
<1>13. CASE o.variant = "*"
  <2>1. c = in_place("imul")
    BY <1>0, <1>12, <1>13
  <2> QED
    BY <1>11, <2>1 DEF Result, c
<1>14. CASE o.variant = "/"
  <2>1. c = <<mkinstr("movq", <<rax, x>>), mkinstr("cqto", <<>>),
              mkinstr("idiv", <<y>>), mkinstr("movq", <<d, rax>>)>>
    BY <1>0, <1>12, <1>14
  <2>2. Fine(s, mkinstr("movq", <<rax, x>>)) /\ Fine(s, mkinstr("cqto", <<>>))
        /\ Fine(s, mkinstr("idiv", <<y>>)) /\ Fine(s, mkinstr("movq", <<d, rax>>))
    BY <1>1, <1>2, <1>3, <1>10, NoOperand, OneOperand, TwoOperands
  <2>3. Result(c)
    BY <1>5, <1>9, <2>1, <2>2
  <2> QED
    BY <2>3 DEF Result, c
<1>15. CASE o.variant = "+"
  <2>1. c = <<mkinstr("addq", <<d, y>>)>> \/ c = <<mkinstr("addq", <<d, x>>)>> \/ c = in_place("addq")
    BY <1>0, <1>12, <1>15
  <2>2. Result(c)
    BY <1>1, <1>5, <1>6, <1>10, <1>11, <2>1
  <2> QED
    BY <2>2 DEF Result, c
<1>16. CASE o.variant = "-"
  <2>1. \/ c = <<mkinstr("subq", <<d, y>>)>> \/ c = <<mkinstr("negq", <<d>>)>>
        \/ c = <<mkinstr("movq", <<d, y>>), mkinstr("negq", <<d>>)>> \/ c = in_place("subq")
    BY <1>0, <1>12, <1>16
  <2>2. Fine(s, mkinstr("negq", <<d>>)) /\ Fine(s, mkinstr("subq", <<d, y>>))
        /\ Fine(s, mkinstr("movq", <<d, y>>))
    BY <1>1, <1>3, <1>10, OneOperand
  <2>3. Result(c)
    BY <1>5, <1>6, <1>7, <1>11, <2>1, <2>2
  <2> QED
    BY <2>3 DEF Result, c
<1>17. CASE o.variant \in Compares
  <2>1. c = <<mkinstr("cmpq", <<x, y>>), mkinstr(setcc[o.variant], <<Reg64("al")>>),
              mkinstr("movzbq", <<d, Reg64("al")>>)>>
    BY <1>0, <1>12, <1>17
  <2>2. Fine(s, mkinstr("cmpq", <<x, y>>)) /\ Fine(s, mkinstr(setcc[o.variant], <<Reg64("al")>>))
        /\ Fine(s, mkinstr("movzbq", <<d, Reg64("al")>>))
    BY <1>1, <1>2, <1>3, <1>4, <1>17, OneOperand, TwoOperands
  <2>3. Result(c)
    BY <1>5, <1>8, <2>1, <2>2
  <2> QED
    BY <2>3 DEF Result, c
<1> QED
  BY <1>13, <1>14, <1>15, <1>16, <1>17

LEMMA LoweredFacts ==
  ASSUME NEW s, Lowered(s), NEW j \in DOMAIN s.blocks, NEW k \in DOMAIN s.blocks[j].code
  PROVE  LET ops == s.blocks[j].code
             o   == ops[k]
         IN  /\ o \in PortableOp /\ o \in Ops(s) /\ LoweredOp(s, ops, k)
             /\ k \in Nat /\ (k > 1 => LoweredOp(s, ops, k - 1))
             /\ \A n \in DOMAIN o.src : o.src[n] \in DOMAIN s.literals \cup WrittenRegs(s)
             /\ ResultsOf(s, o) \subseteq WrittenRegs(s)
<1> DEFINE ops == s.blocks[j].code
           o   == ops[k]
<1>1. ops \in Seq(PortableOp)
  <2>1. s.blocks[j] \in PortableBlock
    BY DEF Lowered
  <2> QED
    BY <2>1 DEF PortableBlock
<1>2. k \in 1..Len(ops) /\ Len(ops) \in Nat /\ DOMAIN ops = 1..Len(ops) /\ o \in PortableOp
  BY <1>1
<1>3. o \in Ops(s)
  BY DEF Ops, ToSet
<1>4. \A m \in DOMAIN ops : LoweredOp(s, ops, m)
  BY DEF Lowered
<1>5. ToSet(o.src) \subseteq DOMAIN s.literals \cup WrittenRegs(s)
  BY <1>3 DEF Lowered
<1>6. ResultsOf(s, o) \subseteq WrittenRegs(s)
  BY <1>3 DEF WrittenRegs
<1> HIDE DEF ops, o
<1>7. k \in DOMAIN ops /\ (k > 1 => k - 1 \in DOMAIN ops) /\ k \in Nat
  BY <1>2
<1>8. LoweredOp(s, ops, k) /\ (k > 1 => LoweredOp(s, ops, k - 1))
  BY <1>4, <1>7
<1>9. \A n \in DOMAIN o.src : o.src[n] \in DOMAIN s.literals \cup WrittenRegs(s)
  BY <1>5 DEF ToSet
<1> QED
  BY <1>2, <1>3, <1>6, <1>7, <1>8, <1>9 DEF ops, o

\* What one op becomes.
SelectedAs(s, o, c) ==
  /\ Piece(s, c, ResultsOf(s, o))
  /\ o.opcode \in {"branch", "jump", "return"} => c # <<>>

LEMMA SelectsJump ==
  ASSUME Convention, NEW s, Lowered(s), NEW j \in DOMAIN s.blocks,
         NEW k \in DOMAIN s.blocks[j].code, s.blocks[j].code[k].opcode = "jump"
  PROVE  SelectedAs(s, s.blocks[j].code[k], SelectJump(s, s.blocks[j].code[k]))
<1> DEFINE o == s.blocks[j].code[k]
           to == o.label[1]
           params == s.blocks[to].args
           move(n) == mkinstr("movq", <<Var(params[n]), getLiteral(s, o.src[n])>>)
           moves == [n \in DOMAIN params |-> move(n)]
           c == SelectJump(s, o)
<1>1. /\ o \in PortableOp /\ LoweredOp(s, s.blocks[j].code, k)
      /\ \A n \in DOMAIN o.src : o.src[n] \in DOMAIN s.literals \cup WrittenRegs(s)
      /\ ResultsOf(s, o) \subseteq WrittenRegs(s)
  BY LoweredFacts
<1>2. to \in 2..Len(s.blocks) /\ Len(o.src) = Len(params)
  BY <1>1 DEF LoweredOp
<1>3. params \in Seq(STRING)
  <2>1. Len(s.blocks) \in Nat /\ DOMAIN s.blocks = 1..Len(s.blocks)
        /\ \A m \in DOMAIN s.blocks : s.blocks[m] \in PortableBlock
    BY DEF Lowered
  <2>2. to \in DOMAIN s.blocks
    BY <1>2, <2>1
  <2> QED
    BY <2>1, <2>2 DEF PortableBlock
<1>4. Len(params) \in Nat /\ DOMAIN params = 1..Len(params) /\ DOMAIN o.src = DOMAIN params
  <2>1. o.src \in Seq(STRING)
    BY <1>1 DEF PortableOp
  <2> HIDE DEF o, to, params, move, moves, c
  <2>2. Len(params) \in Nat /\ DOMAIN params = 1..Len(params)
    BY <1>3
  <2>3. DOMAIN o.src = 1..Len(o.src)
    BY <2>1
  <2> QED
    BY <1>2, <2>2, <2>3
<1>5. ResultsOf(s, o) = ToSet(params)
  BY DEF ResultsOf
<1>6. c = moves \o <<mkjump("", to)>>
  BY DEF SelectJump
<1>7. Fine(s, mkjump("", to))
  BY <1>2, NoOperand
<1>8. ASSUME NEW n \in DOMAIN params
      PROVE  Fine(s, move(n)) /\ Gives(move(n), params[n])
  <2>1. params[n] \in WrittenRegs(s)
    BY <1>1, <1>5, <1>8 DEF ToSet
  <2>2. Target(s, Var(params[n])) /\ Target(s, getLiteral(s, o.src[n]))
    BY <1>1, <1>4, <2>1, Operands
  <2>3. "movq" \in Opcodes
    BY DEF Opcodes, Simple
  <2>4. Fine(s, move(n))
    <3> HIDE DEF o, params
    <3> QED
      BY <2>2, <2>3, TwoOperands DEF Target
  <2> QED
    BY <2>4, Giving
<1> HIDE DEF o, to, params, move, c
<1>9. IsSeq(moves) /\ DOMAIN moves = DOMAIN params
  <2>1. moves = [n \in 1..Len(params) |-> moves[n]]
    BY <1>4
  <2> QED
    BY <1>4, <2>1, SeqMade
<1>10. ToSet(moves) = {move(n) : n \in DOMAIN params}
  BY DEF ToSet
<1> HIDE DEF moves
<1>11. Holds(<<mkjump("", to)>>, {mkjump("", to)})
  BY Tuples
<1>12. Holds(c, {move(n) : n \in DOMAIN params} \cup {mkjump("", to)})
  BY <1>6, <1>9, <1>10, <1>11, CatFacts DEF Holds
<1>13. Piece(s, c, ToSet(params))
  <2>1. \A op \in {move(n) : n \in DOMAIN params} \cup {mkjump("", to)} : Fine(s, op)
    BY <1>7, <1>8
  <2>2. \A r \in ToSet(params) :
          \E op \in {move(n) : n \in DOMAIN params} \cup {mkjump("", to)} : Gives(op, r)
    BY <1>8 DEF ToSet
  <2> QED
    BY <1>12, <2>1, <2>2, PieceOf
<1>14. c # <<>>
  <2>1. ToSet(<<>>) = {}
    BY DEF ToSet
  <2> QED
    BY <1>12, <2>1 DEF Holds
<1> QED
  BY <1>5, <1>13, <1>14 DEF SelectedAs, c, o

LEMMA SelectsCall ==
  ASSUME Convention, NEW s, Lowered(s), NEW j \in DOMAIN s.blocks,
         NEW k \in DOMAIN s.blocks[j].code, s.blocks[j].code[k].opcode = "call"
  PROVE  SelectedAs(s, s.blocks[j].code[k], SelectCall(s, s.blocks[j].code[k]))
<1> DEFINE o == s.blocks[j].code[k]
           root == mkinstr("movq", <<Reg64(ArgRegisters[1]), Reg64("r15")>>)
           move(n) == mkinstr("movq", <<Reg64(ArgRegisters[n + 1]), getLiteral(s, o.src[n])>>)
           moves == [n \in DOMAIN o.src |-> move(n)]
           result == mkinstr("movq", <<Var(o.dst), rax>>)
           c == SelectCall(s, o)
<1>1. /\ o \in PortableOp /\ LoweredOp(s, s.blocks[j].code, k)
      /\ \A n \in DOMAIN o.src : o.src[n] \in DOMAIN s.literals \cup WrittenRegs(s)
      /\ ResultsOf(s, o) \subseteq WrittenRegs(s)
  BY LoweredFacts
<1>2. o.variant \in {"psc_newtuple", ""} /\ Len(o.src) < Len(ArgRegisters)
  BY <1>1 DEF LoweredOp
<1>3. /\ Len(o.src) \in Nat /\ DOMAIN o.src = 1..Len(o.src)
      /\ 1 \in DOMAIN ArgRegisters
      /\ \A n \in DOMAIN o.src : n + 1 \in DOMAIN ArgRegisters
  <2>1. o.src \in Seq(STRING) /\ ArgRegisters \in Seq(STRING)
    BY <1>1 DEF PortableOp, Convention
  <2>2. Len(o.src) \in Nat /\ Len(ArgRegisters) \in Nat /\ DOMAIN o.src = 1..Len(o.src)
        /\ DOMAIN ArgRegisters = 1..Len(ArgRegisters)
    BY <2>1
  <2>3. PICK m, n : m = Len(o.src) /\ n = Len(ArgRegisters)
    OBVIOUS
  <2>4. m \in Nat /\ n \in Nat /\ m < n
    BY <1>2, <2>2, <2>3
  <2>5. 1 \in 1..n /\ \A h \in 1..m : h + 1 \in 1..n
    BY <2>4
  <2> QED
    BY <2>2, <2>3, <2>5
<1>4. ResultsOf(s, o) = {o.dst}
  BY DEF ResultsOf
<1>5. c = <<root>> \o moves \o <<mkcall(o.variant), result>>
  BY DEF SelectCall
<1>6. "movq" \in Opcodes
  BY DEF Opcodes, Simple
<1>7. Fine(s, mkcall(o.variant))
  BY <1>2, NoOperand
<1>8. Fine(s, root)
  <2>1. Target(s, Reg64(ArgRegisters[1])) /\ Source(s, Reg64("r15"))
    BY <1>3, Operands
  <2> QED
    BY <1>6, <2>1, TwoOperands DEF Target
<1>9. Fine(s, result) /\ Gives(result, o.dst)
  <2>1. Target(s, Var(o.dst)) /\ Target(s, rax)
    BY <1>1, <1>4, Operands
  <2> HIDE DEF o
  <2> QED
    BY <1>6, <2>1, TwoOperands, Giving DEF Target
<1>10. ASSUME NEW n \in DOMAIN o.src PROVE Fine(s, move(n))
  <2>1. Target(s, Reg64(ArgRegisters[n + 1])) /\ Target(s, getLiteral(s, o.src[n]))
    BY <1>1, <1>3, Operands
  <2> HIDE DEF o
  <2> QED
    BY <1>6, <2>1, TwoOperands DEF Target
<1> HIDE DEF o, root, move, result, c
<1>11. IsSeq(moves) /\ DOMAIN moves = DOMAIN o.src
  <2>1. moves = [n \in 1..Len(o.src) |-> moves[n]]
    BY <1>3
  <2> QED
    BY <1>3, <2>1, SeqMade
<1>12. ToSet(moves) = {move(n) : n \in DOMAIN o.src}
  BY DEF ToSet
<1> HIDE DEF moves
<1> DEFINE T == {root} \cup {move(n) : n \in DOMAIN o.src} \cup {mkcall(o.variant), result}
<1>13. Holds(c, T)
  <2>1. Holds(<<root>>, {root}) /\ Holds(<<mkcall(o.variant), result>>, {mkcall(o.variant), result})
    BY Tuples
  <2>2. Holds(<<root>> \o moves, {root} \cup {move(n) : n \in DOMAIN o.src})
    BY <1>11, <1>12, <2>1, CatFacts DEF Holds
  <2> DEFINE s1 == <<root>> \o moves
             s2 == <<mkcall(o.variant), result>>
  <2>3. IsSeq(s1) /\ IsSeq(s2) /\ ToSet(s1) = {root} \cup {move(n) : n \in DOMAIN o.src}
        /\ ToSet(s2) = {mkcall(o.variant), result} /\ c = s1 \o s2
    BY <1>5, <2>1, <2>2 DEF Holds
  <2> HIDE DEF s1, s2
  <2> QED
    BY <2>3, CatFacts DEF Holds
<1>14. Piece(s, c, {o.dst})
  <2>1. (\A op \in T : Fine(s, op)) /\ result \in T
    BY <1>7, <1>8, <1>9, <1>10
  <2>2. \A r \in {o.dst} : \E op \in T : Gives(op, r)
    BY <1>9, <2>1
  <2> HIDE DEF T
  <2> QED
    BY <1>13, <2>1, <2>2, PieceOf
<1> QED
  BY <1>4, <1>14 DEF SelectedAs, c, o

LEMMA SelectsRecord ==
  ASSUME Convention, NEW s, Lowered(s), NEW j \in DOMAIN s.blocks,
         NEW k \in DOMAIN s.blocks[j].code,
         s.blocks[j].code[k].opcode \in {"record_set", "record_get"}
  PROVE  SelectedAs(s, s.blocks[j].code[k], SelectOp(s, s.blocks[j].code, k))
<1> DEFINE o == s.blocks[j].code[k]
           c == SelectOp(s, s.blocks[j].code, k)
           base == mkinstr("movq", <<rbase, Var(o.src[1])>>)
           element == mkmem("r11", 8 * o.value)
           store == mkinstr("movq", <<element, getLiteral(s, o.src[2])>>)
           load == mkinstr("movq", <<Var(o.dst), element>>)
<1>1. /\ o \in PortableOp /\ LoweredOp(s, s.blocks[j].code, k)
      /\ \A n \in DOMAIN o.src : o.src[n] \in DOMAIN s.literals \cup WrittenRegs(s)
      /\ ResultsOf(s, o) \subseteq WrittenRegs(s)
  BY LoweredFacts
<1>2. /\ o.opcode = "record_set" => Len(o.src) = 2
      /\ o.opcode = "record_get" => Len(o.src) = 1
      /\ o.src[1] \notin DOMAIN s.literals
  BY <1>1 DEF LoweredOp
<1>3. 1 \in DOMAIN o.src /\ (o.opcode = "record_set" => 2 \in DOMAIN o.src)
  <2>1. o.src \in Seq(STRING)
    BY <1>1 DEF PortableOp
  <2> QED
    BY <1>2, <2>1
<1>4. Target(s, Var(o.src[1])) /\ Target(s, rbase) /\ Target(s, element)
  <2>1. o.src[1] \in WrittenRegs(s)
    BY <1>1, <1>2, <1>3
  <2> QED
    BY <2>1, Operands
<1>5. "movq" \in Opcodes
  BY DEF Opcodes, Simple
<1>6. Fine(s, base)
  BY <1>4, <1>5, TwoOperands DEF Target
<1>7. CASE o.opcode = "record_set"
  <2>1. c = <<base, store>> /\ ResultsOf(s, o) = {}
    BY <1>7 DEF SelectOp, ResultsOf
  <2>2. Target(s, getLiteral(s, o.src[2]))
    BY <1>1, <1>3, <1>7, Operands
  <2>3. Fine(s, store)
    BY <1>4, <1>5, <2>2, TwoOperands DEF Target
  <2> HIDE DEF o, c, base, store
  <2>4. Holds(c, {base, store})
    BY <2>1, Tuples
  <2>5. Piece(s, c, {})
    BY <1>6, <2>3, <2>4, PieceOf
  <2> QED
    BY <1>7, <2>1, <2>5 DEF SelectedAs, o, c
<1>8. CASE o.opcode = "record_get"
  <2>1. c = <<base, load>> /\ ResultsOf(s, o) = {o.dst}
    BY <1>8 DEF SelectOp, ResultsOf
  <2>2. Target(s, Var(o.dst))
    BY <1>1, <2>1, Operands
  <2>3. Fine(s, load) /\ Gives(load, o.dst)
    <3> HIDE DEF o
    <3> QED
      BY <1>4, <1>5, <2>2, TwoOperands, Giving DEF Target
  <2> HIDE DEF o, c, base, load
  <2>4. Holds(c, {base, load})
    BY <2>1, Tuples
  <2>5. Piece(s, c, {o.dst})
    BY <1>6, <2>3, <2>4, PieceOf
  <2> QED
    BY <1>8, <2>1, <2>5 DEF SelectedAs, o, c
<1> QED
  BY <1>7, <1>8

LEMMA SelectsTest ==
  ASSUME Convention, NEW s, Lowered(s), NEW j \in DOMAIN s.blocks,
         NEW k \in DOMAIN s.blocks[j].code,
         s.blocks[j].code[k].opcode \in {"literal", "compare", "branch", "return"}
  PROVE  SelectedAs(s, s.blocks[j].code[k], SelectOp(s, s.blocks[j].code, k))
<1> DEFINE ops == s.blocks[j].code
           o == ops[k]
           c == SelectOp(s, ops, k)
<1>1. /\ o \in PortableOp /\ LoweredOp(s, ops, k)
      /\ k \in Nat /\ (k > 1 => LoweredOp(s, ops, k - 1))
      /\ \A n \in DOMAIN o.src : o.src[n] \in DOMAIN s.literals \cup WrittenRegs(s)
  BY LoweredFacts
<1>2. o.src \in Seq(STRING) /\ o.label \in Seq(Nat)
  BY <1>1 DEF PortableOp
<1>3. ResultsOf(s, o) = {}
  BY DEF ResultsOf
<1>4. \A n \in DOMAIN o.src : Target(s, getLiteral(s, o.src[n]))
  BY <1>1, Operands
<1>5. ASSUME NEW T, Holds(c, T), \A op \in T : Fine(s, op),
             T # {} \/ o.opcode \notin {"branch", "return"}
      PROVE  SelectedAs(s, o, c)
  <2> HIDE DEF c, o
  <2>1. Piece(s, c, {})
    BY <1>5, PieceOf
  <2>2. T # {} => c # <<>>
    <3>1. ToSet(<<>>) = {}
      BY DEF ToSet
    <3> QED
      BY <1>5, <3>1 DEF Holds
  <2>3. o.opcode # "jump"
    BY DEF o
  <2> QED
    BY <1>3, <1>5, <2>1, <2>2, <2>3 DEF SelectedAs
<1>6. CASE o.opcode = "literal"
  <2>1. c = <<>>
    BY <1>6 DEF SelectOp
  <2> QED
    BY <1>5, <1>6, <2>1, Tuples
<1>7. CASE o.opcode = "compare"
  <2> DEFINE test == mkinstr("cmpq", <<getLiteral(s, o.src[1]), getLiteral(s, o.src[2])>>)
  <2>1. c = <<test>>
    BY <1>7 DEF SelectOp
  <2>2. Len(o.src) = 2
    BY <1>1, <1>7 DEF LoweredOp
  <2>3. 1 \in DOMAIN o.src /\ 2 \in DOMAIN o.src
    BY <1>2, <2>2
  <2>4. "cmpq" \in Opcodes /\ "cmpq" \notin Simple
    BY DEF Opcodes, Simple, SetIf
  <2>5. Fine(s, test)
    BY <1>4, <2>3, <2>4, TwoOperands DEF Target
  <2>6. Holds(c, {test})
    BY <2>1, Tuples
  <2> HIDE DEF test
  <2>7. {test} # {} /\ \A op \in {test} : Fine(s, op)
    BY <2>5
  <2> QED
    BY <1>5, <2>6, <2>7
<1>8. CASE o.opcode = "branch"
  <2> DEFINE yes == mkjump(cc[ops[k - 1].variant], o.label[1])
             no  == mkjump("", o.label[2])
  <2>1. c = <<yes, no>>
    BY <1>8 DEF SelectOp
  <2>2. /\ k > 1 /\ ops[k - 1].opcode = "compare"
        /\ Len(o.label) = 2 /\ ToSet(o.label) \subseteq 2..Len(s.blocks)
    BY <1>1, <1>8 DEF LoweredOp
  <2>3. ops[k - 1].variant \in Compares
    BY <1>1, <2>2 DEF LoweredOp
  <2>4. o.label[1] \in 2..Len(s.blocks) /\ o.label[2] \in 2..Len(s.blocks)
    BY <1>2, <2>2 DEF ToSet
  <2>5. Fine(s, yes) /\ Fine(s, no)
    BY <2>3, <2>4, NoOperand
  <2>6. Holds(c, {yes, no})
    BY <2>1, Tuples
  <2> HIDE DEF yes, no
  <2>7. {yes, no} # {} /\ \A op \in {yes, no} : Fine(s, op)
    BY <2>5
  <2> QED
    BY <1>5, <2>6, <2>7
<1>9. CASE o.opcode = "return"
  <2> DEFINE result == mkinstr("movq", <<rax, getLiteral(s, o.src[1])>>)
  <2>1. c = <<result>>
    BY <1>9 DEF SelectOp
  <2>2. Len(o.src) = 1
    BY <1>1, <1>9 DEF LoweredOp
  <2>3. 1 \in DOMAIN o.src
    BY <1>2, <2>2
  <2>4. "movq" \in Opcodes /\ Target(s, rax)
    BY Operands DEF Opcodes, Simple
  <2>5. Fine(s, result)
    BY <1>4, <2>3, <2>4, TwoOperands DEF Target
  <2>6. Holds(c, {result})
    BY <2>1, Tuples
  <2> HIDE DEF result
  <2>7. {result} # {} /\ \A op \in {result} : Fine(s, op)
    BY <2>5
  <2> QED
    BY <1>5, <2>6, <2>7
<1> QED
  BY <1>6, <1>7, <1>8, <1>9

LEMMA SelectsOp ==
  ASSUME Convention, NEW s, Lowered(s), NEW j \in DOMAIN s.blocks,
         NEW k \in DOMAIN s.blocks[j].code
  PROVE  SelectedAs(s, s.blocks[j].code[k], SelectOp(s, s.blocks[j].code, k))
<1> DEFINE ops == s.blocks[j].code
           o == ops[k]
<1>1. /\ o \in PortableOp /\ LoweredOp(s, ops, k)
      /\ \A n \in DOMAIN o.src : o.src[n] \in DOMAIN s.literals \cup WrittenRegs(s)
      /\ ResultsOf(s, o) \subseteq WrittenRegs(s)
  BY LoweredFacts
<1>2. CASE o.opcode = "binop"
  <2>1. SelectOp(s, ops, k) = SelectBinOp(s, o) /\ ResultsOf(s, o) = {o.dst}
    BY <1>2 DEF SelectOp, ResultsOf
  <2>2. o.variant \in {"*", "/", "+", "-"} \cup Compares /\ Len(o.src) = 2
    BY <1>1, <1>2 DEF LoweredOp
  <2>3. 1 \in DOMAIN o.src /\ 2 \in DOMAIN o.src
    <3>1. o.src \in Seq(STRING)
      BY <1>1 DEF PortableOp
    <3> QED
      BY <2>2, <3>1
  <2>4. /\ Target(s, Var(o.dst)) /\ Target(s, getLiteral(s, o.src[1]))
        /\ Target(s, getLiteral(s, o.src[2]))
    BY <1>1, <2>1, <2>3, Operands
  <2> HIDE DEF o, ops
  <2>5. Piece(s, SelectBinOp(s, o), {o.dst}) /\ SelectBinOp(s, o) # <<>>
    BY <2>2, <2>4, SelectsBinOp
  <2> QED
    BY <2>1, <2>5 DEF SelectedAs, o, ops
<1>3. CASE o.opcode = "jump"
  <2>1. SelectOp(s, ops, k) = SelectJump(s, o)
    BY <1>3 DEF SelectOp
  <2> QED
    BY <1>3, <2>1, SelectsJump
<1>4. CASE o.opcode = "call"
  <2>1. SelectOp(s, ops, k) = SelectCall(s, o)
    BY <1>4 DEF SelectOp
  <2> QED
    BY <1>4, <2>1, SelectsCall
<1>5. CASE o.opcode \in {"record_set", "record_get"}
  BY <1>5, SelectsRecord
<1>6. CASE o.opcode \in {"literal", "compare", "branch", "return"}
  BY <1>6, SelectsTest
<1> QED
  BY <1>1, <1>2, <1>3, <1>4, <1>5, <1>6 DEF LoweredOp

-----------------------------------------------------------------------------
(* The program                                                             *)

LEMMA SelectsBlock ==
  ASSUME Convention, NEW s, Lowered(s), NEW j \in DOMAIN s.blocks
  PROVE  LET ops == s.blocks[j].code
             c   == SelectInstructions(s, ops)
         IN  /\ IsSeq(c) /\ c # <<>>
             /\ \A op \in ToSet(c) : Fine(s, op)
             /\ \A o \in ToSet(ops) : \A r \in ResultsOf(s, o) : \E op \in ToSet(c) : Gives(op, r)
<1> DEFINE ops == s.blocks[j].code
           c == SelectInstructions(s, ops)
           ss == [k \in DOMAIN ops |-> SelectOp(s, ops, k)]
<1>1. Len(ops) \in Nat /\ DOMAIN ops = 1..Len(ops) /\ ops # <<>> /\ Len(ops) # 0
      /\ ops[Len(ops)].opcode \in {"branch", "jump", "return"}
  <2>1. s.blocks[j] \in PortableBlock
    BY DEF Lowered
  <2>2. ops \in Seq(PortableOp)
    BY <2>1 DEF PortableBlock
  <2>3. ops # <<>> /\ ops[Len(ops)].opcode \in {"branch", "jump", "return"}
    BY DEF Lowered
  <2> QED
    BY <2>2, <2>3
<1>2. \A k \in DOMAIN ops : SelectedAs(s, ops[k], ss[k])
  BY SelectsOp
<1>3. c = FlattenSeq(ss)
  BY DEF SelectInstructions
<1>4. IsSeq(ss) /\ DOMAIN ss = DOMAIN ops
  <2> HIDE DEF ops
  <2>1. ss = [k \in 1..Len(ops) |-> ss[k]]
    BY <1>1
  <2> QED
    BY <1>1, <2>1, SeqMade
<1> HIDE DEF ops, c, ss
<1>5. \A k \in DOMAIN ss : IsSeq(ss[k])
  BY <1>2, <1>4 DEF SelectedAs, Piece
<1>6. IsSeq(c) /\ ToSet(c) = UNION {ToSet(ss[k]) : k \in DOMAIN ss}
  BY <1>3, <1>4, <1>5, Flat
<1>7. \A op \in ToSet(c) : Fine(s, op)
  BY <1>2, <1>4, <1>6 DEF SelectedAs, Piece
<1>8. c # <<>>
  <2> DEFINE last == ss[Len(ops)]
  <2>1. Len(ops) \in DOMAIN ops
    BY <1>1
  <2>2. last # <<>> /\ IsSeq(last)
    BY <1>1, <1>2, <1>5, <1>4, <2>1 DEF SelectedAs
  <2>3. ToSet(last) # {}
    <3>1. Len(last) \in Nat /\ DOMAIN last = 1..Len(last) /\ Len(last) # 0
      BY <2>2, SeqParts
    <3>2. 1 \in DOMAIN last
      BY <3>1
    <3> QED
      BY <3>2 DEF ToSet
  <2>4. ToSet(last) \subseteq ToSet(c)
    BY <1>4, <1>6, <2>1
  <2>5. ToSet(<<>>) = {}
    BY DEF ToSet
  <2> QED
    BY <2>3, <2>4, <2>5
<1>9. ASSUME NEW o \in ToSet(ops), NEW r \in ResultsOf(s, o)
      PROVE  \E op \in ToSet(c) : Gives(op, r)
  <2>1. PICK k \in DOMAIN ops : o = ops[k]
    BY DEF ToSet
  <2>2. PICK op \in ToSet(ss[k]) : Gives(op, r)
    BY <1>2, <2>1 DEF SelectedAs, Piece
  <2> QED
    BY <1>4, <1>6, <2>2
<1> QED
  BY <1>6, <1>7, <1>8, <1>9 DEF ops, c

(***************************************************************************)
(* Of every function that lower can make, SelectInstructions makes code    *)
(* that leaves the frame to addStackFrameInstructions: it neither pushes   *)
(* nor pops nor names a stack pointer as a destination, does not go back   *)
(* to the first block, has no empty block, and gives a value to every      *)
(* variable it reads (asm.go:398-560).                                     *)
(***************************************************************************)
THEOREM SelectsWhole ==
  ASSUME Convention, NEW s, Lowered(s)
  PROVE  Selected(AsmProg(s)) /\ NoEmptyBlock(AsmProg(s)) /\ WritesAll(AsmProg(s))
<1> DEFINE p == AsmProg(s)
<1>1. DOMAIN p.blocks = DOMAIN s.blocks
      /\ \A j \in DOMAIN s.blocks : p.blocks[j].code = SelectInstructions(s, s.blocks[j].code)
  BY DEF AsmProg
<1>2. Len(s.blocks) \in Nat /\ DOMAIN s.blocks = 1..Len(s.blocks) /\ Len(s.blocks) # 0
  BY DEF Lowered
<1>3. Len(p.blocks) = Len(s.blocks) /\ p.blocks # <<>>
  <2>1. p.blocks = [j \in 1..Len(s.blocks) |-> p.blocks[j]]
    BY <1>2 DEF AsmProg
  <2> HIDE DEF p
  <2>2. IsSeq(p.blocks) /\ Len(p.blocks) = Len(s.blocks)
    BY <1>2, <2>1, SeqMade
  <2> QED
    BY <1>2, <2>2, SeqParts
<1> HIDE DEF p
<1>4. ASSUME NEW j \in DOMAIN p.blocks
      PROVE  /\ IsSeq(p.blocks[j].code) /\ p.blocks[j].code # <<>>
             /\ \A op \in ToSet(p.blocks[j].code) : Fine(s, op)
             /\ \A o \in ToSet(s.blocks[j].code) : \A r \in ResultsOf(s, o) :
                  \E op \in ToSet(p.blocks[j].code) : Gives(op, r)
  BY <1>1, <1>4, SelectsBlock
<1>5. NoEmptyBlock(p)
  BY <1>4 DEF NoEmptyBlock
<1>6. Instrs(p) = UNION {ToSet(p.blocks[j].code) : j \in DOMAIN p.blocks}
  BY DEF Instrs, ToSet
<1>7. \A op \in Instrs(p) : Fine(s, op)
  BY <1>4, <1>6
<1>8. Selected(p)
  <2> SUFFICES ASSUME NEW j \in DOMAIN p.blocks, NEW k \in DOMAIN p.blocks[j].code
               PROVE  LET op == p.blocks[j].code[k] IN
                        /\ Ordinary(op, Len(p.blocks), Scratch)
                        /\ op.tag = "instr" => Len(op.args) \in 1..2 \/ op.variant = "cqto"
                        /\ \A n \in DOMAIN op.args : isVar(op.args[n]) \/ Placed(op.args[n], 0)
    BY <1>3 DEF Selected
  <2>1. Fine(s, p.blocks[j].code[k])
    BY <1>4 DEF ToSet
  <2>2. \A a : Source(s, a) => isVar(a) \/ Placed(a, 0)
    BY Kinds DEF Source
  <2> QED
    BY <1>3, <2>1, <2>2 DEF Fine
<1>9. WritesAll(p)
  <2> SUFFICES ASSUME NEW op \in Instrs(p), NEW v \in Args(op), isVar(v)
               PROVE  \E w \in Instrs(p) : v \in dest(w)
    BY DEF WritesAll
  <2>1. Source(s, v)
    BY <1>7 DEF Fine, Args
  <2>2. PICK r \in WrittenRegs(s) : v = Var(r)
    BY <2>1 DEF Source
  <2>3. PICK o \in Ops(s) : r \in ResultsOf(s, o)
    BY DEF WrittenRegs
  <2>4. PICK j \in DOMAIN s.blocks : o \in ToSet(s.blocks[j].code)
    BY DEF Ops
  <2>5. PICK w \in ToSet(p.blocks[j].code) : Gives(w, r)
    BY <1>1, <1>4, <2>3, <2>4
  <2> QED
    BY <1>1, <1>6, <2>2, <2>4, <2>5 DEF Gives
<1> QED
  BY <1>5, <1>8, <1>9 DEF p
=============================================================================
