----------------------------- MODULE MCCompiler -----------------------------
(***************************************************************************)
(* Sources for the compiler.  Small ones are made of every node the parser *)
(* makes, whether they typecheck or not; larger ones are of the kinds that *)
(* typecheck, to nest what the small ones do not.                          *)
(***************************************************************************)
EXTENDS Compiler, SmallExprs

X     == VarExpr("x")
True  == VarExpr("true")
False == VarExpr("false")
One   == IntExpr(1)
tuple(xs)  == CallExpr(VarExpr("tuple"), xs)
get(x, n)  == CallExpr(VarExpr("get"), <<x, IntExpr(n)>>)
less(x, y) == BinExpr("<", x, y)
fun(x)     == FuncExpr("", <<"x">>, x)
Binary == {"+", "<", "eq"}

\* the nodes with one child from Es and the others from As
Above(Es, As) ==
  {BinExpr(o, e, a) : o \in Binary, e \in Es, a \in As}
  \cup {BinExpr(o, a, e) : o \in Binary, e \in Es, a \in As}
  \cup UNION {{AndExpr(e, a), AndExpr(a, e), OrExpr(e, a), OrExpr(a, e), tuple(<<e, a>>),
               LetExpr("x", e, a), LetExpr("x", a, e), CallExpr(e, <<a>>), CallExpr(a, <<e>>)} :
                e \in Es, a \in As}
  \cup UNION {{IfExpr(e, a, b), IfExpr(a, e, b), IfExpr(a, b, e)} : e \in Es, a, b \in As}
  \cup UNION {{fun(e), CallExpr(e, <<>>), get(e, 0), get(e, 1), DotExpr(e, "x"), tuple(<<e>>)} : e \in Es}

(* What can be made of one, true and x, two deep. *)
Atoms  == {One, True, X}
Small  == LET one == Atoms \cup Above(Atoms, Atoms)
          IN  one \cup Above(one, Atoms)

(* Conditions in conditions, as the condition of an if and as a value. *)
Tests   == {less(X, One), VarExpr("p")}
Nested  == Tests \cup UNION {{AndExpr(a, b), OrExpr(a, b), LetExpr("q", a, b), LetExpr("q", a, VarExpr("q"))} :
                               a, b \in Tests}
                 \cup {IfExpr(VarExpr("p"), a, b) : a, b \in Tests}
Deeper  == UNION {{AndExpr(a, b), OrExpr(a, b), LetExpr("q", a, b)} : a, b \in Nested}
           \cup UNION {{IfExpr(a, VarExpr("p"), False), IfExpr(a, b, less(X, One)), IfExpr(less(X, One), b, a)} :
                          a \in Nested, b \in Tests}
Conditional == {LetExpr("x", n, LetExpr("p", BinExpr("eq", X, One), e)) :
                  n \in {IntExpr(0), One},
                  e \in Deeper \cup {IfExpr(c, X, IntExpr(5)) : c \in Deeper}}

(* Numbers, and ifs that give them, with every operator. *)
Numbers == {IntExpr(2), BinExpr("-", IntExpr(0), IntExpr(7)), X, BinExpr("-", X, One),
            IfExpr(less(X, One), IntExpr(3), BinExpr("*", X, X))}
Numeric == {LetExpr("x", One, e) :
              e \in {BinExpr(o, a, b) : o \in Arithmetic \cup Orders \cup {"eq"}, a, b \in Numbers}
                    \cup {BinExpr("/", BinExpr(o, a, b), BinExpr("-", b, a)) :
                             o \in Arithmetic, a, b \in Numbers}}

(* Tuples of tuples, elements of elements. *)
Pairs   == {tuple(<<One>>), tuple(<<True, IntExpr(2)>>)}
Tuples  == Pairs \cup {tuple(<<>>)} \cup {tuple(<<a, X, b>>) : a, b \in Pairs \cup {One}}
Taken   == {get(t, n) : t \in Tuples, n \in 0..2}
Tupled  == {LetExpr("x", IntExpr(4), e) :
              e \in Tuples \cup Taken \cup {get(e, n) : e \in Taken, n \in 0..1}
                    \cup {LetExpr("t", t, BinExpr("+", get(VarExpr("t"), n), get(get(VarExpr("t"), 2), 1))) :
                             t \in Tuples, n \in 0..1}
                    \cup {LetExpr("t", t, tuple(<<VarExpr("t"), get(VarExpr("t"), 0), VarExpr("t")>>)) : t \in Tuples}
                    \cup {IfExpr(c, get(t, 1), IntExpr(8)) : t \in Tuples, c \in {get(X, 0), less(X, One), True}}
                    \cup {LetExpr("t", t, BinExpr("eq", VarExpr("t"), VarExpr("t"))) : t \in Pairs}
                    \cup {IfExpr(get(t, 0), X, IntExpr(8)) : t \in Tuples}}

(* Functions, called under their names and under others, and the builtins' *)
(* names bound again.                                                      *)
Calls == {CallExpr(VarExpr("f"), <<a>>) : a \in {One, True, VarExpr("y")}}
         \cup {CallExpr(VarExpr("f"), <<>>), CallExpr(VarExpr("f"), <<CallExpr(VarExpr("f"), <<One>>)>>)}
Bodies == {VarExpr("y"), BinExpr("+", VarExpr("y"), One), BinExpr("eq", VarExpr("y"), One),
           CallExpr(VarExpr("f"), <<VarExpr("y")>>), VarExpr("f"), tuple(<<VarExpr("y")>>),
           IfExpr(BinExpr("eq", VarExpr("y"), IntExpr(0)), IntExpr(0),
                  BinExpr("+", One, CallExpr(VarExpr("f"), <<BinExpr("-", VarExpr("y"), One)>>))),
           IfExpr(True, False, BinExpr("eq", VarExpr("y"), One))}
Functional == {LetExpr("f", FuncExpr(name, <<"y">>, b), c) :
                 name \in {"", "f", "g"}, b \in Bodies,
                 c \in Calls \cup {LetExpr("z", c, VarExpr("z")) : c \in Calls}
                       \cup {LetExpr("y", One, c) : c \in Calls}}
              \cup {LetExpr(n, v, e) :
                      n \in {"true", "tuple", "get"},
                      v \in {One, FuncExpr("", <<"y">>, VarExpr("y")), FuncExpr("", <<"y", "z">>, VarExpr("z"))},
                      e \in Pairs \cup {True, BinExpr("+", True, One), get(tuple(<<True>>), 0),
                                        get(One, 7), tuple(<<get(One, 0)>>)}}

\* if true then 1 else 5 end
IfTrue == {IfExpr(True, One, IntExpr(5))}

AllSources == Small \cup {LetExpr("x", One, e) : e \in Small}
              \cup Conditional \cup Numeric \cup Tupled \cup Functional
=============================================================================
