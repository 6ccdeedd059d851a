------------------------------- MODULE Front -------------------------------
(***************************************************************************)
(* The passes of front.go, which replace the builtins by nodes of their    *)
(* own: uncoverBools the names true and false, uncoverTuples the calls of  *)
(* tuple and get.  A scope is the set of the names it has.                 *)
(***************************************************************************)
EXTENDS Expr

\* e with xs for the nodes below it
Rebuild(e, xs) ==
  CASE e.expr \in {"bin", "and", "or"} -> [e EXCEPT !.left = xs[1], !.right = xs[2]]
    [] e.expr = "dot"  -> [e EXCEPT !.left = xs[1]]
    [] e.expr = "call" -> [e EXCEPT !.func = xs[1], !.args = Tail(xs)]
    [] e.expr = "let"  -> [e EXCEPT !.val = xs[1], !.body = xs[2]]
    [] e.expr = "if"   -> [e EXCEPT !.cond = xs[1], !.then = xs[2], !.else = xs[3]]
    [] e.expr = "func" -> [e EXCEPT !.body = xs[1]]
    [] OTHER           -> e

\* the scope the n-th node below e is visited in: for the body of a function
\* it is the one around it
inner(s, e, n) == IF e.expr = "let" /\ n = 2 THEN s \cup {e.var} ELSE s

\* the condition of an if is not visited
Copied(e, n) == e.expr = "if" /\ n = 1

RECURSIVE uncoverBoolsExpr(_, _)
uncoverBoolsExpr_Unscoped(s, e) ==
  LET below  == Children(e)
      sub(n) == IF Copied(e, n) THEN below[n] ELSE uncoverBoolsExpr(inner(s, e, n), below[n])
  IN  IF e.expr = "var" /\ e.name \in {"true", "false"}
      THEN BoolExpr(e.name = "true")
      ELSE Rebuild(e, [n \in DOMAIN below |-> sub(n)])

uncoverBoolsExpr(s, e) ==
  LET below  == Children(e)
      sub(n) == IF Copied(e, n) THEN below[n] ELSE uncoverBoolsExpr(inner(s, e, n), below[n])
  IN  IF e.expr = "var" /\ e.name \in {"true", "false"} \ s
      THEN BoolExpr(e.name = "true")
      ELSE Rebuild(e, [n \in DOMAIN below |-> sub(n)])

uncoverBools(e) == uncoverBoolsExpr({}, e)

\* Of a call of a name that is not in scope.  A call that is no builtin
\* comes back as it was, with its arguments as they were.
uncoverTupleBuiltins(e, args) ==
  CASE e.func.name = "tuple" -> TupleExpr(args)
    [] e.func.name = "get" /\ Len(args) = 2 /\ isInt(args[2]) ->
         TupleIndexExpr(args[1], args[2].number)
    [] OTHER -> e

RECURSIVE uncoverTuplesExpr(_, _)
uncoverTuplesExpr(s, e) ==
  LET below  == Children(e)
      sub(n) == IF Copied(e, n) THEN below[n] ELSE uncoverTuplesExpr(inner(s, e, n), below[n])
      subs   == [n \in DOMAIN below |-> sub(n)]
  IN  IF e.expr = "call" /\ e.func.expr = "var" /\ e.func.name \notin s
      THEN uncoverTupleBuiltins(e, Tail(subs))
      ELSE Rebuild(e, subs)

uncoverTuples(e) == uncoverTuplesExpr({}, e)
=============================================================================
