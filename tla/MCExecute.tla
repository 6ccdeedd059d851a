----------------------------- MODULE MCExecute -----------------------------
EXTENDS ExecuteInv, RegAllocInv, Lower, SmallExprs

TwoRegisters == <<"rcx", "rdx">>
TwoSaved     == <<"rdx", "rbx", "r12">>
SomeArgs     == <<"rdi", "rsi", "rdx">>
Clobbered    == {"rdi", "rsi", "rdx", "rcx", "r8", "r9", "r10", "r11"}
Preserved    == {"rbx", "r12", "r13", "r14", "r15"}

(* let t = tuple(10) in tuple(if 1 < 2 then t else t end) end: the join is  *)
(* a BoolT (lower.go:479), so it is not gcable and has no bit in the mask.  *)
OneLess == BinExpr("<", IntExpr(1), IntExpr(2))
IfTuple == LetExpr("t", TupleExpr(<<IntExpr(10)>>),
                   TupleExpr(<<IfExpr(OneLess, VarExpr("t"), VarExpr("t"))>>))

(* 1 < 2 and (2 < 1 and 1 < 2): visitCond2 (lower.go:739) lists the block   *)
(* of the inner conjunction before the block that branches to it.           *)
RightNested == AndExpr(OneLess, AndExpr(BinExpr("<", IntExpr(2), IntExpr(1)), OneLess))

(* let x = 1 in if cond then x else 2 + x end end, for many conditions *)
Branches(depth) ==
            {LetExpr("x", IntExpr(1), IfExpr(cond, VarExpr("x"), BinExpr("+", IntExpr(2), VarExpr("x")))) :
               cond \in Conds(depth, {BoolExpr(FALSE), BinExpr("<", VarExpr("x"), IntExpr(1))})}

Compiled(sources) == {Toplevel(lower(e)) : e \in sources}
Assembled(funcs)  == {AsmProg(s) : s \in funcs}

TupleFuncs   == Compiled(Straight(4, {"-"}, {1, 2}))
SavedFuncs   == Compiled(Straight(4, {"-"}, {1}) \cup Straight(4, {}, {2}) \cup Ifs(2, 0, {"-"}, {1}) \cup Branches(1))
AllFuncs     == Compiled(Straight(4, {"/", "eq"}, {}) \cup Straight(4, {"-", "neg"}, {}) \cup Straight(4, {"-"}, {1, 2})
                         \cup Straight(5, {}, {1}) \cup Ifs(2, 1, {"-"}, {1})
                         \cup Branches(2) \cup {RightNested})
ProductFuncs == Compiled(Straight(4, {"-", "*"}, {}))
IfTupleFuncs == Compiled({IfTuple})
NestedFuncs  == Compiled({RightNested})

TuplePrograms   == Assembled(TupleFuncs)
SavedPrograms   == Assembled(SavedFuncs)
AllPrograms     == Assembled(AllFuncs)
ProductPrograms == Assembled(ProductFuncs)
IfTuplePrograms == Assembled(IfTupleFuncs)
NestedPrograms  == Assembled(NestedFuncs)

(* The theorems about the back end ask this of the functions and of the     *)
(* calling convention, and those about regalloc of what becomes of them.    *)
ASSUME WholeFunctions == \A s \in Funcs : Lowered(s)
ASSUME WholePrograms == \A p \in Programs : NoEmptyBlock(p) /\ WritesAll(p)
ASSUME SomeConvention == Convention
=============================================================================
