---------------------------- MODULE PortableCode ----------------------------
(***************************************************************************)
(* The portable code of lower.go.  A Func is its blocks and the registers  *)
(* whose type is a tuple; a label is the position of a block.              *)
(***************************************************************************)
EXTENDS Integers, SequencesExt

Op(opcode, variant, dst, srcs, labels, value) ==
  [opcode |-> opcode, variant |-> variant, dst |-> dst, src |-> srcs,
   label |-> labels, value |-> value]

LiteralOp(r, n)          == Op("literal", "", r, <<>>, <<>>, n)
FuncLiteralOp(r, n)      == Op("func_literal", "", r, <<>>, <<>>, n)
BinOp(variant, r, srcs)  == Op("binop", variant, r, srcs, <<>>, 0)
CompareOp(variant, x, y) == Op("compare", variant, "", <<x, y>>, <<>>, 0)
BranchOp(then, else)     == Op("branch", "", "", <<>>, <<then, else>>, 0)
JumpOp(to, args)         == Op("jump", "", "", args, <<to>>, 0)
CallOp(fn, r, args)      == Op("call", fn, r, args, <<>>, 0)
RecordSetOp(t, index, x) == Op("record_set", "", "", <<t, x>>, <<>>, index)
RecordGetOp(r, t, index) == Op("record_get", "", r, <<t>>, <<>>, index)
ReturnOp(x)              == Op("return", "", "", <<x>>, <<>>, 0)

Compares == {"eq", "ne", "<", "<=", ">", ">="}
cc == [v \in Compares |-> CASE v = "eq" -> "z"  [] v = "ne" -> "nz"
                            [] v = "<"  -> "l"  [] v = "<=" -> "le"
                            [] v = ">"  -> "g"  [] v = ">=" -> "ge"]

(* f.literals: a literal comes before its uses, in the list of blocks too  *)
(* (where it does not, a block comes before the one that jumps to it).     *)
Literals(blocks) ==
  LET ops == {o \in UNION {ToSet(bl.code) : bl \in ToSet(blocks)} :
                o.opcode = "literal"}
  IN  [r \in {o.dst : o \in ops} |-> (CHOOSE o \in ops : o.dst = r).value]

Func(blocks, tuples) == [blocks |-> blocks, tuples |-> tuples, literals |-> Literals(blocks)]

\* g with g[x] = v, whether g had an x or not
With(g, x, v) == [y \in DOMAIN g \cup {x} |-> IF y = x THEN v ELSE g[y]]
=============================================================================
