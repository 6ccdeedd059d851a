------------------------------ MODULE Meaning ------------------------------
(***************************************************************************)
(* What an expression means: the reference the passes are compared with.   *)
(* It is the language as the type checker and the lowering take it (names  *)
(* are lexical, operands are evaluated from left to right, and and or stop *)
(* at the first operand that decides, division truncates), on the tree the *)
(* parser makes and on the trees of the passes.                            *)
(*                                                                         *)
(* A value is a number, a truth value, a tuple, a closure or a failure,    *)
(* <<"fail", why>>.  depth bounds the calls that nest.                     *)
(***************************************************************************)
EXTENDS Expr, TLC

IntV(n)     == <<"int", n>>
BoolV(b)    == <<"bool", b>>
TupleV(vs)  == <<"tuple", vs>>
FuncV(e, env) == <<"func", e, env>>
Fail(why)   == <<"fail", why>>

Abs(n) == IF n < 0 THEN -n ELSE n
Quotient(m, n) == LET q == Abs(m) \div Abs(n) IN IF (m < 0) = (n < 0) THEN q ELSE -q

Arith(op, m, n) ==
  CASE op = "+" -> IntV(m + n)
    [] op = "-" -> IntV(m - n)
    [] op = "*" -> IntV(m * n)
    [] op = "/" -> IF n = 0 THEN Fail("divide") ELSE IntV(Quotient(m, n))

Holds(op, m, n) ==
  CASE op = "<"  -> m < n
    [] op = "<=" -> m <= n
    [] op = ">=" -> m >= n
    [] op = ">"  -> m > n

Operate(op, x, y) ==
  CASE op = "eq" /\ x[1] = y[1] /\ x[1] \in {"int", "bool"} -> BoolV(x[2] = y[2])
    [] op \in Arithmetic /\ <<x[1], y[1]>> = <<"int", "int">> -> Arith(op, x[2], y[2])
    [] op \in Orders /\ <<x[1], y[1]>> = <<"int", "int">> -> BoolV(Holds(op, x[2], y[2]))
    [] OTHER -> Fail("operand")

Element(v, index) ==
  CASE v[1] # "tuple" -> Fail("operand")
    [] v[1] = "tuple" /\ index >= Len(v[2]) -> Fail("index")
    [] OTHER -> v[2][index + 1]

\* v, unless one of the values before it is a failure: then the first one
After(vs, v) ==
  LET failures == SelectSeq(vs, LAMBDA x : x[1] = "fail")
  IN  IF failures = <<>> THEN v ELSE Head(failures)

RECURSIVE Eval(_, _, _)

\* the call of a closure
Apply(depth, f, args) ==
  LET e   == f[2]
      own == IF e.name # "" THEN (e.name :> f) @@ f[3] ELSE f[3]
      inner == [x \in ToSet(e.params) |-> args[CHOOSE n \in DOMAIN e.params : e.params[n] = x]]
  IN  CASE Len(args) # Len(e.params) -> Fail("arity")
        [] Len(args) = Len(e.params) /\ depth = 0 -> Fail("depth")
        [] OTHER -> Eval(depth - 1, inner @@ own, e.body)

Eval(depth, env, e) ==
  LET of(x)  == Eval(depth, env, x)
      all(xs) == [n \in DOMAIN xs |-> of(xs[n])]
      sub(n) == of(Children(e)[n])
      builtin(name) == e.func.expr = "var" /\ e.func.name = name /\ name \notin DOMAIN env
      bool(v) == IF v[1] = "bool" THEN v ELSE Fail("operand")
  IN
  CASE e.expr = "int"   -> IntV(e.number)
    [] e.expr = "bool"  -> BoolV(e.truth)
    [] e.expr = "tuple" -> LET vs == all(e.elems) IN After(vs, TupleV(vs))
    [] e.expr = "index" -> LET v == sub(1) IN After(<<v>>, Element(v, e.index))
    [] e.expr = "func"  -> FuncV(e, env)
    [] e.expr = "var"   -> CASE e.name \in DOMAIN env -> env[e.name]
                             [] e.name \notin DOMAIN env /\ e.name \in {"true", "false"} ->
                                  BoolV(e.name = "true")
                             [] OTHER -> Fail("unbound")
    [] e.expr = "bin"   -> LET x == sub(1)
                               y == sub(2)
                           IN  After(<<x, y>>, Operate(e.op, x, y))
    [] e.expr \in {"and", "or"} ->
         LET x == sub(1)
         IN  After(<<x, bool(x)>>, IF x[2] = (e.expr = "and") THEN LET y == sub(2) IN After(<<y>>, bool(y))
                                   ELSE x)
    [] e.expr = "if"    -> LET c == sub(1)
                           IN  CASE c[1] = "fail" -> c
                                 [] c[1] = "bool" -> of(IF c[2] THEN e.then ELSE e.else)
                                 [] OTHER -> Fail("condition")
    [] e.expr = "let"   -> LET v == sub(1)
                           IN  After(<<v>>, Eval(depth, (e.var :> v) @@ env, e.body))
    [] e.expr = "call" /\ builtin("tuple") -> LET vs == all(e.args) IN After(vs, TupleV(vs))
    [] e.expr = "call" /\ builtin("get") ->
         IF Len(e.args) = 2 /\ isInt(e.args[2])
         THEN LET v == of(e.args[1]) IN After(<<v>>, Element(v, e.args[2].number))
         ELSE Fail("arity")
    [] e.expr = "call"  -> LET f == of(e.func)
                               vs == all(e.args)
                           IN  After(<<f>> \o vs, IF f[1] = "func" THEN Apply(depth, f, vs)
                                                  ELSE Fail("callee"))
    [] OTHER -> Fail("field")
=============================================================================
