------------------------------- MODULE Lower -------------------------------
(***************************************************************************)
(* lower (lower.go): from a syntax tree to portable code.                  *)
(*                                                                         *)
(* The compiler and its functions are one record c that the visits pass    *)
(* on: the blocks made so far, named by their number; for each function    *)
(* the list f.blocks and the types of its registers; and, as the results   *)
(* of a visit, the block b where the code goes on and the register dst.    *)
(* err is Error after errorf and Panic when the compiler would stop.  A    *)
(* scope maps names to registers.                                          *)
(***************************************************************************)
EXTENDS PortableCode, Types

NewBlock(g) == [func |-> g, args |-> <<>>, code |-> <<>>, succ |-> <<>>, pred |-> <<>>]

NoType == <<"no type">>

fail(c, how)  == [c EXCEPT !.err = multiError({@, how})]
funcOf(c)     == c.blocks[c.b].func
emit(c, o)    == [c EXCEPT !.blocks[c.b].code = Append(@, o)]
newreg_NoCount(c) == [c EXCEPT !.dst = "r" \o ToString(c.lastreg + 1)]
newreg(c)     == [c EXCEPT !.lastreg = @ + 1, !.dst = "r" \o ToString(c.lastreg + 1)]
setType_Forgotten(c, t) == c
setType(c, t) == [c EXCEPT !.regtype[funcOf(c)] = With(@, c.dst, t)]
getType(c, r) == LET types == c.regtype[funcOf(c)]
                 IN  IF r \in DOMAIN types THEN types[r] ELSE NoType

\* getType stops the compiler when dst has no type in this function
needType(c) == IF getType(c, c.dst) = NoType THEN fail(c, Panic) ELSE c

\* a new register of type t, and the op o that sets it
define(c, t, o) ==
  LET d == newreg(c)
  IN  emit(IF t = NoType THEN d ELSE setType(d, t), [o EXCEPT !.dst = d.dst])

\* The number of a new block is the length of c.blocks; it is in f.blocks
\* only when it is listed.
newblock(c) == [c EXCEPT !.blocks = Append(@, NewBlock(funcOf(c)))]
list(c, n)  == [c EXCEPT !.listed[c.blocks[n].func] = Append(@, n)]
goto(c, n)  == [c EXCEPT !.b = n]

leave_NoPred(c, o) == [emit(c, o) EXCEPT !.blocks[c.b].succ = @ \o o.label]

\* the block ends with o, a jump or branch, and has its targets as succ
leave(c, o) ==
  FoldLeft(LAMBDA d, n : [d EXCEPT !.blocks[n].pred = Append(@, c.b)],
           [emit(c, o) EXCEPT !.blocks[c.b].succ = @ \o o.label], o.label)

branchIf_Swapped(c, variant, x, y, then, else) ==
  leave(emit(newreg(c), CompareOp(variant, x, y)), BranchOp(else, then))

\* if x op y goto then else goto else
branchIf(c, variant, x, y, then, else) ==
  leave(emit(newreg(c), CompareOp(variant, x, y)), BranchOp(then, else))

ptrmask_Shifted(types) ==
  FoldFunction(+, 0, [n \in DOMAIN types |-> IF isTupleT(types[n]) THEN 2 ^ n ELSE 0])

\* the bit of every element that is a tuple
ptrmask(types) ==
  FoldFunction(+, 0, [n \in DOMAIN types |-> IF isTupleT(types[n]) THEN 2 ^ (n - 1) ELSE 0])

newtuple(c, regs) ==
  LET types == [n \in DOMAIN regs |-> getType(c, regs[n])]
      len   == define(c, NoType, LiteralOp("", Len(regs)))
      mask  == define(len, NoType, LiteralOp("", ptrmask(types)))
      call  == define(mask, TupleT(<<>>, types), CallOp("psc_newtuple", "", <<len.dst, mask.dst>>))
  IN  FoldLeftDomain(LAMBDA d, n : emit(d, RecordSetOp(call.dst, n - 1, regs[n])), call, regs)

\* the element type is looked up in the slice of the types, which may panic
recordGet(c, index) ==
  LET t == getType(c, c.dst)
  IN  IF isTupleT(t) /\ index < Len(t[3])
      THEN define(c, t[3][index + 1], RecordGetOp("", c.dst, index))
      ELSE fail(c, Panic)

RECURSIVE visitExpr(_, _, _)
RECURSIVE visitCond(_, _, _)
RECURSIVE visitCond2(_, _, _, _, _)

\* the nodes of es from left to right: the compiler and their registers
visitAll(c, s, es) ==
  FoldLeft(LAMBDA p, e : LET v == visitExpr(p[1], s, e) IN <<v, Append(p[2], v.dst)>>,
           <<c, <<>>>>, es)

\* The value of an if, and, or or: both branches jump to a new block, whose
\* parameter is taken for a BoolT.
visitBranches(c, s, cond, then, else) ==
  LET n  == Len(c.blocks)
      v  == visitCond(c, s, cond)
      bt == visitExpr(goto(v, n + 1), s, then)
      bf == visitExpr(goto(bt, n + 2), s, else)
      n3 == Len(bf.blocks) + 1
      be == setType(newreg(list(newblock(bf), n3)), BoolT)
      t  == leave(goto(be, bt.b), JumpOp(n3, <<bt.dst>>))
      f  == leave(goto(t, bf.b), JumpOp(n3, <<bf.dst>>))
  IN  goto([f EXCEPT !.blocks[n3].args = <<f.dst>>], n3)

\* The entry of a function is in no list, and its parameters have no type.
visitFunc(c, s, e) ==
  LET g      == Len(c.listed) + 1
      entry  == [c EXCEPT !.blocks = Append(@, NewBlock(g)), !.b = Len(c.blocks) + 1,
                          !.listed = Append(@, <<>>), !.regtype = Append(@, <<>>)]
      own    == IF e.name # "" THEN Bound(s, e.name, "<uninitialized>") ELSE s
      params == FoldLeft(LAMBDA p, x : LET r == newreg(p[1]) IN <<r, Bound(p[2], x, r.dst)>>,
                         <<entry, own>>, e.params)
      body   == visitExpr(params[1], params[2], e.body)
  IN  [needType(emit(body, ReturnOp(body.dst))) EXCEPT !.funcs = Append(@, g), !.b = c.b]

visitExpr(c, s, e) ==
  CASE e.expr = "var" /\ e.name \in DOMAIN s -> [c EXCEPT !.dst = s[e.name]]
    [] e.expr = "var" /\ e.name \notin DOMAIN s -> fail(setType(newreg(c), AnyT), Error)
    [] e.expr = "bool" -> define(c, BoolT, LiteralOp("", IF e.truth THEN 1 ELSE 0))
    [] e.expr = "int"  -> define(c, IntT, LiteralOp("", e.number))
    [] e.expr = "let"  -> LET v == visitExpr(c, s, e.val)
                          IN  visitExpr(v, Bound(s, e.var, v.dst), e.body)
    [] e.expr = "if"   -> visitBranches(c, s, e.cond, e.then, e.else)
    [] e.expr \in {"and", "or"} -> visitBranches(c, s, e, BoolExpr(TRUE), BoolExpr(FALSE))
    [] e.expr = "func" -> define(visitFunc(c, s, e), NoType, FuncLiteralOp("", Len(c.listed) + 1))
    [] e.expr = "call" -> LET p == visitAll(c, s, Children(e))
                          IN  define(p[1], NoType, CallOp("", "", p[2]))
    [] e.expr = "bin"  -> LET p == visitAll(c, s, Children(e))
                          IN  define(p[1], IF e.op \in Arithmetic THEN IntT ELSE BoolT, BinOp(e.op, "", p[2]))
    [] e.expr = "dot"  -> LET v == visitExpr(c, s, e.left)
                          IN  define(v, NoType, BinOp(".", "", <<v.dst>>))
    [] e.expr = "tuple" -> LET p == FoldLeft(LAMBDA q, x : LET v == needType(visitExpr(q[1], s, x))
                                                           IN  <<v, Append(q[2], v.dst)>>,
                                             <<c, <<>>>>, e.elems)
                           IN  newtuple(p[1], p[2])
    [] e.expr = "index" -> recordGet(visitExpr(c, s, e.base), e.index)

visitCond_Early(c, s, e) ==
  LET n == Len(c.blocks)
  IN  visitCond2(list(list(newblock(newblock(c)), n + 1), n + 2), s, e, n + 1, n + 2)

\* e decides where to go: the targets are listed after what it needs
visitCond(c, s, e) ==
  LET n == Len(c.blocks)
      v == visitCond2(newblock(newblock(c)), s, e, n + 1, n + 2)
  IN  list(list(v, n + 1), n + 2)

visitCond2(c, s, e, then, else) ==
  LET n == Len(c.blocks) IN
  CASE e.expr = "bool" -> leave(c, JumpOp(IF e.truth THEN then ELSE else, <<>>))
    [] e.expr = "var" /\ e.name \in DOMAIN s ->
         LET false == define(c, NoType, LiteralOp("", 0))
         IN  branchIf(false, "ne", s[e.name], false.dst, then, else)
    [] e.expr = "bin" /\ e.op \in Compares ->
         LET p == visitAll(c, s, Children(e))
         IN  branchIf(p[1], e.op, p[2][1], p[2][2], then, else)
    [] \/ e.expr = "var" /\ e.name \notin DOMAIN s
       \/ e.expr = "bin" /\ e.op \notin Compares -> fail(c, Error)
    [] e.expr \in {"and", "or"} ->
         LET v == IF e.expr = "and" THEN visitCond2(newblock(c), s, e.left, n + 1, else)
                                    ELSE visitCond2(newblock(c), s, e.left, then, n + 1)
         IN  list(visitCond2(goto(v, n + 1), s, e.right, then, else), n + 1)
    [] e.expr = "if" ->
         LET v == visitCond(c, s, e.cond)
             t == visitCond2(goto(v, n + 1), s, e.then, then, else)
         IN  visitCond2(goto(t, n + 2), s, e.else, then, else)
    [] e.expr = "let" ->
         LET v == visitExpr(c, s, e.val)
         IN  visitCond2(v, Bound(s, e.var, v.dst), e.body, then, else)
    [] OTHER -> fail(c, Panic)

\* What lower returns.  It does not look at the errors, and neither does
\* its caller.
lower(e) ==
  LET c == visitExpr([blocks |-> <<NewBlock(1)>>, listed |-> <<<<1>>>>, regtype |-> <<<<>>>>,
                      lastreg |-> 0, funcs |-> <<1>>, err |-> Ok, b |-> 1, dst |-> ""], <<>>, e)
  IN  emit(c, ReturnOp(c.dst))

\* The first function of a program, which the driver compiles, with the
\* blocks named by their positions in its list.
Toplevel(c) ==
  LET ids    == c.listed[1]
      pos(n) == CHOOSE k \in DOMAIN ids : ids[k] = n
      all(ns) == [k \in DOMAIN ns |-> pos(ns[k])]
      rename(bl) == [args |-> bl.args, succ |-> all(bl.succ), pred |-> all(bl.pred),
                     code |-> [k \in DOMAIN bl.code |-> [bl.code[k] EXCEPT !.label = all(@)]]]
  IN  Func([k \in DOMAIN ids |-> rename(c.blocks[ids[k]])],
           {r \in DOMAIN c.regtype[1] : isTupleT(c.regtype[1][r])})
=============================================================================
