------------------------------ MODULE Compiler ------------------------------
(***************************************************************************)
(* The driver (main.go): main3 takes a source through uncoverBools,        *)
(* typecheck, uncoverTuples and lower, and the portable code it makes then *)
(* runs; main2 converts a source to continuation passing style.            *)
(***************************************************************************)
EXTENDS Front, Lower, Meaning, Cps

CONSTANTS Sources, \* the trees the parser may make
          Depth    \* how many calls may nest when a source is evaluated

VARIABLES source,  \* what the parser made
          tree,    \* what the passes have made of it
          stage,   \* the pass that was last
          checked, \* what typecheck found
          prog,    \* the compiler of lower.go when it is done
          fn, at, env, fields, trace    \* the portable code and its run

front_vars == <<source, tree, checked, prog>>
run_vars == <<at, env, fields, trace>>

----------------------------------------------------------------------------
(* The portable code runs with the numbers of the machine, to which truth  *)
(* values are 1 and 0.                                                     *)

Word(v) == IF v[1] = "bool" THEN IntV(IF v[2] THEN 1 ELSE 0) ELSE v

Computed(variant, x, y) == Word(Operate(variant, x, y))
Decided(variant, x, y) ==
  {IF variant = "ne" THEN x # y ELSE Operate(variant, x, y) = BoolV(TRUE)}

Code == INSTANCE Portable WITH Result <- Computed, Outcomes <- Decided

----------------------------------------------------------------------------

Init ==
  /\ source \in Sources /\ tree = source
  /\ stage = "parsed" /\ checked = Typed(AnyT, Ok) /\ prog = <<>> /\ fn = <<>>
  /\ Code!CodeInit

UncoverBools ==
  /\ stage = "parsed" /\ stage' = "bools"
  /\ tree' = uncoverBools(tree)
  /\ UNCHANGED <<source, checked, prog, fn, run_vars>>

Typecheck ==
  /\ stage = "bools"
  /\ checked' = typecheck(tree)
  /\ stage' = CASE checked'.err = Ok -> "checked"
                [] checked'.err = Error -> "rejected"
                [] checked'.err = Panic -> "crashed"
  /\ UNCHANGED <<source, tree, prog, fn, run_vars>>

UncoverTuples ==
  /\ stage = "checked" /\ stage' = "tuples"
  /\ tree' = uncoverTuples(tree)
  /\ UNCHANGED <<source, checked, prog, fn, run_vars>>

LowerTree ==
  /\ stage = "tuples"
  /\ prog' = lower(tree)
  /\ IF prog'.err = Panic THEN stage' = "crashed" /\ UNCHANGED fn
                          ELSE stage' = "lowered" /\ fn' = Toplevel(prog')
  /\ UNCHANGED <<source, tree, checked, run_vars>>

\* The back end has no code for functions, and what it makes of a program
\* that lower reported errors of means nothing.
Begin ==
  /\ stage = "lowered" /\ prog.err = Ok /\ Len(prog.funcs) = 1
  /\ stage' = "running"
  /\ UNCHANGED <<front_vars, fn, run_vars>>

Traps == Code!op.opcode = "binop" /\ Code!op.variant = "/" /\ Code!Value(Code!op.src[2]) = IntV(0)

Run ==
  /\ stage = "running"
  /\ \/ ~Traps /\ Code!DoOp /\ UNCHANGED stage
     \/ Traps /\ stage' = "trapped" /\ UNCHANGED run_vars
     \/ Code!DoReturn /\ stage' = "returned"
  /\ UNCHANGED <<front_vars, fn>>

CpsConvert ==
  /\ stage = "parsed"
  /\ tree' = cpsConvert(VarExpr("return"), tree)
  /\ stage' = IF Unhandled \in Nodes(tree') THEN "crashed" ELSE "converted"
  /\ UNCHANGED <<source, checked, prog, fn, run_vars>>

Next == \/ UncoverBools \/ Typecheck \/ UncoverTuples \/ LowerTree \/ Begin \/ Run
        \/ CpsConvert

Spec == Init /\ [][Next]_<<front_vars, stage, fn, run_vars>>

----------------------------------------------------------------------------
(* What kinds of source the properties tell apart. *)

Has(e, kinds) == \E x \in Nodes(e) : x.expr \in kinds
ByName(e)     == \A x \in Nodes(e) : x.expr = "call" => x.func.expr = "var"
Binders(x)    == CASE x.expr = "let"  -> <<x.var>>
                   [] x.expr = "func" -> x.params \o (IF x.name # "" THEN <<x.name>> ELSE <<>>)
                   [] OTHER           -> <<>>

\* the names of all binders of e, repeated names repeated
RECURSIVE Bindings(_)
Bindings(e) == LET below == Children(e)
               IN  Binders(e) \o FlattenSeq([n \in DOMAIN below |-> Bindings(below[n])])

\* the nodes that a condition e ends in
RECURSIVE Leaves(_)
Leaves(e) == CASE e.expr \in {"and", "or"} -> Leaves(e.left) \cup Leaves(e.right)
               [] e.expr = "if"  -> Leaves(e.then) \cup Leaves(e.else)
               [] e.expr = "let" -> Leaves(e.body)
               [] OTHER          -> {e}

Conditions(e) ==
  UNION {CASE x.expr = "if" -> Leaves(x.cond)
           [] x.expr \in {"and", "or"} -> Leaves(x)
           [] OTHER -> {} : x \in Nodes(e)}

\* no if can have a tuple for its value
ScalarIfs(e) ==
  \/ ~Has(e, {"tuple"})
  \/ \A x \in Nodes(e) : x.expr = "if" =>
       {x.then.expr, x.else.expr} \subseteq {"int", "bool", "bin", "and", "or", "if"}

----------------------------------------------------------------------------
(* The type checker. *)

RECURSIVE HasType(_, _)
HasType(v, t) ==
  CASE t = AnyT  -> v[1] # "fail"
    [] t = IntT  -> v[1] = "int"
    [] t = BoolT -> v[1] = "bool"
    [] isFuncT(t)  -> v[1] = "func" /\ Len(v[2].params) = t[3]
    [] isTupleT(t) -> /\ v[1] = "tuple" /\ Len(v[2]) = Len(t[3])
                      /\ \A n \in DOMAIN t[3] : HasType(v[2][n], t[3][n])

(***************************************************************************)
(* What typecheck lets pass does not go wrong: the value has the type, and *)
(* only a division fails.  With functions, whose parameters are AnyT, an   *)
(* operand may be wrong too, and nothing else may: not a name, a callee, a *)
(* number of arguments, a condition or an index.                           *)
(***************************************************************************)
TypesSound ==
  stage = "checked" /\ ByName(source) =>
    LET v == Eval(Depth, <<>>, source)
    IN  \/ HasType(v, checked.type)
        \/ v \in {Fail("divide"), Fail("depth")}
        \/ Has(source, {"func"}) /\ v = Fail("operand")

----------------------------------------------------------------------------
(* The passes keep the meaning. *)

\* what can be seen of a value from outside
RECURSIVE Visible(_)
Visible(v) == CASE v[1] = "func"  -> <<"func">>
                [] v[1] = "tuple" -> TupleV([n \in DOMAIN v[2] |-> Visible(v[2][n])])
                [] OTHER -> v

(***************************************************************************)
(* Uncovering booleans and tuples does not change what a source means, if  *)
(* no function or parameter has the name of a builtin: front.go visits the *)
(* body of a function in the scope around it.                              *)
(***************************************************************************)
UncoverKeepsMeaning ==
  stage = "tuples"
  /\ (\A x \in Nodes(source) : x.expr = "func" =>
        ToSet(Binders(x)) \cap {"true", "false", "tuple", "get"} = {}) =>
    Visible(Eval(Depth, <<>>, tree)) = Visible(Eval(Depth, <<>>, source))

(***************************************************************************)
(* "the uncover-bools pass replaces any unshadowed "true" or "false"       *)
(* variables with a BoolExpr" (front.go:13).                               *)
(***************************************************************************)
UncoversUnshadowed == stage = "bools" => FreeNames(tree) \cap {"true", "false"} = {}

\* the operands, arguments and conditions of e, which cps.go takes to be
\* trivial, neither call nor make a function
Direct(e) ==
  \A x \in Nodes(e) :
    LET copied == CASE x.expr \in {"bin", "dot", "call"} -> ToSet(Children(x))
                    [] x.expr = "if" -> {x.cond}
                    [] OTHER -> {}
    IN  \A y \in copied : ~Has(y, {"call", "func"})

Returning(v) == "return" :> FuncV(FuncExpr("", <<v>>, VarExpr(v)), <<>>)

(***************************************************************************)
(* In continuation passing style a source gives its value to return, if no *)
(* two of its binders have the same name, none is k or return, no builtin  *)
(* is called (it would get a continuation too) and what is copied is       *)
(* trivial.                                                                *)
(***************************************************************************)
CpsKeepsMeaning ==
  stage = "converted" /\ Direct(source)
  /\ IsInjective(Bindings(source)) /\ ToSet(Bindings(source)) \cap {"k", "return"} = {}
  /\ FreeNames(source) \cap {"tuple", "get"} = {} =>
    LET v == Eval(Depth, <<>>, source)
    IN  v = Fail("depth") \/ Visible(Eval(8 * Depth, Returning("v"), tree)) = Visible(v)

----------------------------------------------------------------------------
(* The code that lower makes. *)

Lowered == stage = "lowered" /\ prog.err = Ok

Succ(n) == ToSet(fn.blocks[n].succ)
Pred(n) == ToSet(fn.blocks[n].pred)

(***************************************************************************)
(* A program without functions that typechecks is lowered, unless a name   *)
(* is left that the passes did not uncover (errorf) or a condition is a    *)
(* get or a call (panic), or the value of an if may be a tuple.            *)
(***************************************************************************)
LowersUnless ==
  stage \in {"lowered", "crashed"} /\ prog # <<>> /\ ~Has(source, {"func"}) /\ ScalarIfs(tree) =>
    LET bad == \E x \in Conditions(tree) : x.expr \in {"index", "call"}
    IN  prog.err = CASE bad -> Panic
                     [] ~bad /\ FreeNames(tree) # {} -> Error
                     [] OTHER -> Ok

(***************************************************************************)
(* The lists of successors and predecessors, the jumps and the parameters  *)
(* of the blocks agree; a block is left at its end and nowhere else, and   *)
(* only the last block returns, where asm.go puts the way out.             *)
(***************************************************************************)
CFGConsistent ==
  Lowered =>
    /\ \A n \in DOMAIN fn.blocks :
         LET bl   == fn.blocks[n]
             last == Len(bl.code)
         IN  /\ \A m \in DOMAIN bl.code :
                  (bl.code[m].opcode \in {"jump", "branch", "return"}) <=> m = last
             /\ bl.succ = bl.code[last].label
             /\ bl.code[last].opcode = "return" <=> n = Len(fn.blocks)
             /\ bl.code[last].opcode = "jump" =>
                  Len(bl.code[last].src) = Len(fn.blocks[bl.succ[1]].args)
    /\ \A m, n \in DOMAIN fn.blocks : n \in Succ(m) <=> m \in Pred(n)

\* the blocks that can be reached from those of S without going through n
RECURSIVE Without(_, _)
Without(n, S) == LET more == (S \cup UNION {Succ(m) : m \in S}) \ {n}
                 IN  IF more = S THEN S ELSE Without(n, more)

Defined(ops) == {ops[m].dst : m \in DOMAIN ops} \ {""}
Sets(bl)     == ToSet(bl.args) \cup Defined(bl.code)

(***************************************************************************)
(* Static single assignment: no register is set twice, in all functions,   *)
(* and every use comes after the definition on every path to it.           *)
(***************************************************************************)
SingleAssignment ==
  Lowered =>
    /\ LET all == FlattenSeq([n \in DOMAIN prog.blocks |->
                    prog.blocks[n].args
                    \o SelectSeq([m \in DOMAIN prog.blocks[n].code |-> prog.blocks[n].code[m].dst],
                                 LAMBDA r : r # "")])
       IN  IsInjective(all)
    /\ \A n \in DOMAIN fn.blocks : \A m \in DOMAIN fn.blocks[n].code :
         \A r \in ToSet(fn.blocks[n].code[m].src) :
           \/ r \in ToSet(fn.blocks[n].args) \cup Defined(SubSeq(fn.blocks[n].code, 1, m - 1))
           \/ \E d \in DOMAIN fn.blocks \ {n} :
                r \in Sets(fn.blocks[d]) /\ n \notin Without(d, {1} \ {d})

(***************************************************************************)
(* Every block is listed before its successors, as regalloc needs it, just *)
(* when no and or or has a right operand that needs blocks of its own.     *)
(* (With constant conditions, whose jumps skip blocks, it may be so too.)  *)
(***************************************************************************)
InOrderUnlessNested ==
  Lowered /\ Len(prog.funcs) = 1 =>
    LET inOrder  == \A n \in DOMAIN fn.blocks : \A m \in Succ(n) : n < m
        nested   == \E x \in Nodes(tree) : x.expr \in {"and", "or"} /\ Has(x.right, {"if", "and", "or"})
        constant == \E x \in Conditions(tree) : x.expr = "bool"
    IN  /\ ~nested => inOrder
        /\ nested /\ ~constant => ~inOrder

----------------------------------------------------------------------------
(* The run of the portable code. *)

\* the value w of a register is v
RECURSIVE Shows(_, _)
Shows(w, v) ==
  IF v[1] # "tuple" THEN w = Word(v)
  ELSE /\ w[1] = "tuple" /\ Cardinality(DOMAIN fields[w[2]]) = Len(v[2])
       /\ \A n \in DOMAIN v[2] : Shows(fields[w[2]][n - 1], v[2][n])

(***************************************************************************)
(* The portable code returns what the source means, and traps just when a  *)
(* division by zero is what it means.                                      *)
(***************************************************************************)
SameMeaning ==
  /\ stage = "returned" => Shows(Last(trace).of, Eval(Depth, <<>>, source))
  /\ stage = "trapped"  => Eval(Depth, <<>>, source) = Fail("divide")

(***************************************************************************)
(* The collector and the register allocator are told of every tuple: the   *)
(* registers of fn.tuples are those that hold one, and the mask of a tuple *)
(* names the elements that are tuples.  (Not when an if gives a tuple.)    *)
(***************************************************************************)
TuplesKnown ==
  stage = "running" /\ ScalarIfs(tree) =>
    LET masks == [n \in DOMAIN fields |->
                    SelectSeq(trace, LAMBDA e : e.event = "call")[n].of[2][2]]
    IN  /\ \A r \in DOMAIN env : env[r][1] = "tuple" <=> r \in fn.tuples
        /\ \A n \in DOMAIN fields : \A index \in DOMAIN fields[n] :
             fields[n][index][1] = "tuple" <=> (masks[n] \div 2 ^ index) % 2 = 1
=============================================================================
