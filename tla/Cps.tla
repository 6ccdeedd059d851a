-------------------------------- MODULE Cps --------------------------------
(***************************************************************************)
(* cpsConvert (cps.go): a tree in continuation passing style, k being the  *)
(* expression of the continuation.  Operands, arguments and conditions are *)
(* taken to be trivial and are copied.                                     *)
(***************************************************************************)
EXTENDS Expr

\* stands for the panic of a node there is no case for
Unhandled == [expr |-> "panic"]

funcWith_First(e, k, body) == FuncExpr(e.name, <<k>> \o e.params, body)

\* the continuation is the last argument and the last parameter
funcWith(e, k, body) == FuncExpr(e.name, Append(e.params, k), body)

RECURSIVE cpsConvert(_, _)
cpsConvert(k, e) ==
  CASE e.expr \in {"var", "int", "dot", "bin"} -> CallExpr(k, <<e>>)
    [] e.expr = "call" -> CallExpr(e.func, Append(e.args, k))
    [] e.expr = "let"  -> cpsConvert(FuncExpr("", <<e.var>>, cpsConvert(k, e.body)), e.val)
    [] e.expr = "if"   -> IfExpr(e.cond, cpsConvert(k, e.then), cpsConvert(k, e.else))
    [] e.expr = "func" -> CallExpr(k, <<funcWith(e, "k", cpsConvert(VarExpr("k"), e.body))>>)
    [] OTHER -> Unhandled
=============================================================================
