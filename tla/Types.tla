------------------------------- MODULE Types -------------------------------
(***************************************************************************)
(* The type checker (types.go).  Basic types are values and the others are *)
(* pointers, so two tuple types are equal only if one node made both:      *)
(* such a type carries the place of its node in the tree.                  *)
(*                                                                         *)
(* A result is a type and how the check of the node went; a panic or an    *)
(* error somewhere below a node is the node's too (multiError).            *)
(***************************************************************************)
EXTENDS Expr, FiniteSetsExt, TLC

IntT  == <<"IntT">>
BoolT == <<"BoolT">>
AnyT  == <<"AnyT">>
TupleT(at, types)        == <<"TupleT", at, types>>
FuncT(at, params, return) == <<"FuncT", at, params, return>>

isTupleT(t) == t[1] = "TupleT"
isFuncT(t)  == t[1] = "FuncT"
sameType(t, u) == t = u

comparableTypes(t, u) ==
  \/ t = u /\ t \in {IntT, BoolT, AnyT}
  \/ AnyT \in {t, u} /\ {t, u} \subseteq {IntT, BoolT, AnyT}

Ok    == 0
Error == 1
Panic == 2

Typed(t, err)    == [type |-> t, err |-> err]
multiError(errs) == Max(errs)
ErrorUnless(p)   == IF p THEN Ok ELSE Error

\* s with the name bound
Bound(s, name, x) == (name :> x) @@ s

\* the kinds of node with operands of one type: what a pair of operand
\* types gives
typecheckOperands(e, t, u) ==
  CASE e.expr = "bin" /\ e.op \in Arithmetic ->
         Typed(IntT, ErrorUnless({t, u} \subseteq {IntT, AnyT}))
    [] e.expr = "bin" /\ e.op \in Orders -> Typed(BoolT, ErrorUnless({t, u} = {IntT}))
    [] e.expr = "bin" /\ e.op = "eq" -> Typed(BoolT, ErrorUnless(comparableTypes(t, u)))
    [] e.expr \in {"and", "or"} -> Typed(BoolT, ErrorUnless({t, u} = {BoolT}))

\* get indexes the slice of the element types without comparing the index
typecheckGet(args, base) ==
  CASE base.err # Ok -> Typed(AnyT, base.err)
    [] ~isTupleT(base.type) \/ ~isInt(args[2]) -> Typed(AnyT, Error)
    [] args[2].number >= Len(base.type[3]) -> Typed(AnyT, Panic)
    [] OTHER -> Typed(base.type[3][args[2].number + 1], Ok)

\* the branches must have one type, pointers compared
typecheckBranches(c, t, u) ==
  LET same == sameType(t.type, u.type)
      cond == IF c.err = Ok THEN ErrorUnless(c.type = BoolT) ELSE c.err
      both == IF {t.err, u.err} = {Ok} THEN ErrorUnless(same) ELSE Ok
  IN  Typed(IF same THEN t.type ELSE AnyT, multiError({cond, t.err, u.err, both}))

typecheckArgs_AnyNumber(f, args) ==
  Typed(f.type[4], multiError({Ok} \cup {args[n].err : n \in DOMAIN args}))

\* Parameters have type AnyT, so only the number of arguments matters.  An
\* error in the called function itself is forgotten, a panic is not.
typecheckArgs(f, args) ==
  Typed(f.type[4], multiError({args[n].err : n \in DOMAIN args} \cup (IF f.err = Panic THEN {Panic} ELSE {})
                              \cup {ErrorUnless(f.type[3] = Len(args))}))

RECURSIVE typecheckExpr(_, _, _)
typecheckExpr(s, e, at) ==
  LET sub(n) == typecheckExpr(s, Children(e)[n], Append(at, n))
      arg(n) == typecheckExpr(s, e.args[n], Append(at, n + 1))
      args   == [n \in DOMAIN e.args |-> arg(n)]
      builtin(name) == e.func.expr = "var" /\ e.func.name = name /\ name \notin DOMAIN s
  IN
  CASE e.expr = "var"  -> IF e.name \in DOMAIN s THEN Typed(s[e.name], Ok) ELSE Typed(AnyT, Error)
    [] e.expr = "int"  -> Typed(IntT, Ok)
    [] e.expr = "bool" -> Typed(BoolT, Ok)
    [] e.expr = "dot"  -> Typed(AnyT, Error)
    [] e.expr \in {"bin", "and", "or"} ->
         LET t == sub(1)
             u == sub(2)
         IN  IF {t.err, u.err} = {Ok} THEN typecheckOperands(e, t.type, u.type)
             ELSE Typed(IF e.expr = "bin" THEN AnyT ELSE BoolT, multiError({t.err, u.err}))
    [] e.expr = "if"   -> typecheckBranches(sub(1), sub(2), sub(3))
    [] e.expr = "let"  ->
         LET val  == sub(1)
             body == typecheckExpr(Bound(s, e.var, val.type), e.body, Append(at, 2))
         IN  Typed(body.type, multiError({val.err, body.err}))
    [] e.expr = "func" ->
         LET own   == FuncT(Append(at, 0), Len(e.params), AnyT)
             inner == [x \in ToSet(e.params) |-> AnyT]
                      @@ (IF e.name # "" THEN Bound(s, e.name, own) ELSE s)
             body  == typecheckExpr(inner, e.body, Append(at, 1))
         IN  Typed(FuncT(at, Len(e.params), body.type), body.err)
    [] e.expr = "call" /\ builtin("tuple") ->
         Typed(TupleT(at, [n \in DOMAIN args |-> args[n].type]),
               multiError({Ok} \cup {args[n].err : n \in DOMAIN args}))
    [] e.expr = "call" /\ builtin("get") ->
         IF Len(e.args) = 2 THEN typecheckGet(e.args, arg(1)) ELSE Typed(AnyT, Error)
    [] OTHER ->
         LET f == sub(1)
         IN  IF isFuncT(f.type) THEN typecheckArgs(f, args)
                                ELSE Typed(AnyT, multiError({f.err, Error}))

typecheck(e) == typecheckExpr(("true" :> BoolT) @@ ("false" :> BoolT), e, <<>>)
=============================================================================
