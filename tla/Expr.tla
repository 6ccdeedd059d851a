-------------------------------- MODULE Expr --------------------------------
(***************************************************************************)
(* The syntax tree (ast.go).  A node is a record whose field expr names    *)
(* its kind; the parser makes the kinds up to FuncExpr, the compiler makes *)
(* the others.  A number is its value and not its text.                    *)
(***************************************************************************)
EXTENDS Integers, SequencesExt

VarExpr(name)             == [expr |-> "var", name |-> name]
IntExpr(n)                == [expr |-> "int", number |-> n]
BinExpr(op, x, y)         == [expr |-> "bin", op |-> op, left |-> x, right |-> y]
AndExpr(x, y)             == [expr |-> "and", left |-> x, right |-> y]
OrExpr(x, y)              == [expr |-> "or", left |-> x, right |-> y]
CallExpr(func, args)      == [expr |-> "call", func |-> func, args |-> args]
DotExpr(x, field)         == [expr |-> "dot", left |-> x, field |-> field]
LetExpr(var, val, body)   == [expr |-> "let", var |-> var, val |-> val, body |-> body]
IfExpr(cond, then, else)  == [expr |-> "if", cond |-> cond, then |-> then, else |-> else]
FuncExpr(name, args, body) == [expr |-> "func", name |-> name, params |-> args, body |-> body]

BoolExpr(b)               == [expr |-> "bool", truth |-> b]
TupleExpr(args)           == [expr |-> "tuple", elems |-> args]
TupleIndexExpr(x, index)  == [expr |-> "index", base |-> x, index |-> index]

Arithmetic == {"+", "-", "*", "/"}
Orders     == {"<", "<=", ">=", ">"}
isInt(e)   == e.expr = "int"

\* the nodes right below e, from left to right
Children(e) ==
  CASE e.expr \in {"bin", "and", "or"} -> <<e.left, e.right>>
    [] e.expr = "call"  -> <<e.func>> \o e.args
    [] e.expr = "dot"   -> <<e.left>>
    [] e.expr = "let"   -> <<e.val, e.body>>
    [] e.expr = "if"    -> <<e.cond, e.then, e.else>>
    [] e.expr = "func"  -> <<e.body>>
    [] e.expr = "tuple" -> e.elems
    [] e.expr = "index" -> <<e.base>>
    [] OTHER            -> <<>>

\* e and all the nodes below it
RECURSIVE Nodes(_)
Nodes(e) == {e} \cup UNION {Nodes(x) : x \in ToSet(Children(e))}

\* the names that e mentions and does not bind
RECURSIVE FreeNames(_)
FreeNames(e) ==
  CASE e.expr = "var"  -> {e.name}
    [] e.expr = "let"  -> FreeNames(e.val) \cup (FreeNames(e.body) \ {e.var})
    [] e.expr = "func" -> FreeNames(e.body) \ (ToSet(e.params) \cup {e.name})
    [] OTHER           -> UNION {FreeNames(x) : x \in ToSet(Children(e))}
=============================================================================
