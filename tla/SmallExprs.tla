----------------------------- MODULE SmallExprs -----------------------------
(***************************************************************************)
(* Families of small sources for the runs of the back end, in the form the *)
(* front end leaves them: all the sequences of a number of definitions,    *)
(*     let v1 = .. in let v2 = .. in .. v2 end end,                        *)
(* and those whose next definition is an if.                               *)
(*                                                                         *)
(* A piece is its definitions so far; one is <<name, expression, elems>>   *)
(* and elems is the sequence of the elems of the elements of a tuple, and  *)
(* <<>> for a number.                                                      *)
(***************************************************************************)
EXTENDS Expr

Names == <<"v1", "v2", "v3", "v4", "v5", "v6", "v7", "v8">>

Use(d)     == VarExpr(d[1])
Elems(d)   == d[3]
isTuple(d) == Elems(d) # <<>>

\* the expressions that can come next, with their elems: zero + a number
\* is a number in a register of its own
Nexts(p, variants, lengths) ==
  LET all     == ToSet(p)
      numbers == {d \in all : ~isTuple(d)}
  IN  {<<BinExpr("+", IntExpr(10 * Len(p) + 10), IntExpr(0)), <<>>>>}
      \cup {<<BinExpr(o, Use(x), Use(y)), <<>>>> : o \in variants \ {"neg"}, x, y \in numbers}
      \cup {<<BinExpr("-", IntExpr(0), Use(x)), <<>>>> : x \in IF "neg" \in variants THEN numbers ELSE {}}
      \cup UNION {{<<TupleExpr([j \in DOMAIN ds |-> Use(ds[j])]), [j \in DOMAIN ds |-> Elems(ds[j])]>> :
                     ds \in [1..n -> all]} : n \in lengths}
      \cup UNION {{<<TupleIndexExpr(Use(d), j - 1), Elems(d)[j]>> : j \in DOMAIN Elems(d)} : d \in all}

Define1(p, e) == Append(p, <<Names[Len(p) + 1]>> \o e)

Pieces(n, variants, lengths) ==
  LET of[k \in 0..n] ==
        IF k = 0 THEN {<<>>}
        ELSE UNION {{Define1(p, e) : e \in Nexts(p, variants, lengths)} : p \in of[k - 1]}
  IN  of[n]

\* the source that makes the definitions of p and gives the last one
Lets(p) == FoldRight(LAMBDA d, body : LetExpr(d[1], d[2], body), p, Use(Last(p)))

Straight(n, variants, lengths) == {Lets(p) : p \in Pieces(n, variants, lengths)}

\* n definitions, an if whose branches are numbers, and m definitions
Ifs(n, m, variants, lengths) ==
  UNION {
    LET numbers == SelectSeq(p, LAMBDA d : ~isTuple(d))
        cond    == BinExpr("<", Use(Head(numbers)), Use(Last(numbers)))
        branch  == {e[1] : e \in {e \in Nexts(p, variants, lengths) : e[2] = <<>>}}
        joined[k \in 0..m] ==
          IF k = 0 THEN {Define1(p, <<IfExpr(cond, t, u), <<>>>>) : t, u \in branch}
          ELSE UNION {{Define1(q, e) : e \in Nexts(q, variants, lengths)} : q \in joined[k - 1]}
    IN  {Lets(q) : q \in joined[m]} :
    p \in Pieces(n, variants, lengths)}

\* Conditions made of leaves and, depth times, of one such condition: no and
\* or or has a right operand that needs blocks of its own.
Conds(depth, leaves) ==
  LET of[k \in 0..depth] ==
        IF k = 0 THEN leaves
        ELSE of[k - 1]
             \cup {AndExpr(x, y) : x \in of[k - 1], y \in leaves}
             \cup {OrExpr(x, y) : x \in of[k - 1], y \in leaves}
             \cup {IfExpr(y, x, z) : x \in of[k - 1], y, z \in leaves}
             \cup {IfExpr(x, y, z) : x \in of[k - 1], y, z \in leaves}
             \cup {LetExpr("b", x, y) : x \in of[k - 1], y \in leaves \cup {VarExpr("b")}}
  IN  of[depth]
=============================================================================
