------------------------------ MODULE Portable ------------------------------
(***************************************************************************)
(* Portable code runs.  What it does that matters (branches, calls, writes *)
(* to tuples, its result) is written to trace.                             *)
(*                                                                         *)
(* A value is <<"int", n>>, a pointer <<"tuple", k>> to the k-th tuple, or *)
(* what Result makes of two others.                                        *)
(***************************************************************************)
EXTENDS PortableCode

CONSTANTS Result(_, _, _),   \* the value of an operator and two values
          Outcomes(_, _, _)  \* whether a comparison of two values may hold

VARIABLES fn,     \* the function
          at,     \* the block and the op that runs next
          env,    \* the values of the registers
          fields, \* the elements of the tuples
          trace   \* what the code did

code_state == <<at, env, fields, trace>>

Int64(n) == <<"int", n>>

CodeInit == at = <<1, 1>> /\ env = <<>> /\ fields = <<>> /\ trace = <<>>

op == fn.blocks[at[1]].code[at[2]]

Value(r) == IF r \in DOMAIN fn.literals THEN Int64(fn.literals[r]) ELSE env[r]
Values(rs) == [n \in DOMAIN rs |-> Value(rs[n])]

Emit(event) == trace' = Append(trace, event)
GoOn == at' = <<at[1], at[2] + 1>>

\* parameters and arguments are assigned together
Bind(params, args) ==
  [r \in DOMAIN env \cup ToSet(params) |->
     IF r \in ToSet(params) THEN args[CHOOSE n \in DOMAIN params : params[n] = r] ELSE env[r]]

DoLiteral == op.opcode = "literal" /\ GoOn /\ UNCHANGED <<env, fields, trace>>

DoBinOp ==
  /\ op.opcode = "binop"
  /\ env' = With(env, op.dst, Result(op.variant, Value(op.src[1]), Value(op.src[2])))
  /\ GoOn /\ UNCHANGED <<fields, trace>>

\* a compare and the branch after it
DoBranch ==
  /\ op.opcode = "compare"
  /\ \E taken \in Outcomes(op.variant, Value(op.src[1]), Value(op.src[2])) :
       /\ Emit([event |-> "branch", cc |-> cc[op.variant], of |-> Values(op.src), taken |-> taken])
       /\ LET branch == fn.blocks[at[1]].code[at[2] + 1]
          IN  at' = <<branch.label[IF taken THEN 1 ELSE 2], 1>>
  /\ UNCHANGED <<env, fields>>

DoJump ==
  /\ op.opcode = "jump"
  /\ env' = Bind(fn.blocks[op.label[1]].args, Values(op.src))
  /\ at' = <<op.label[1], 1>>
  /\ UNCHANGED <<fields, trace>>

DoCall ==
  /\ op.opcode = "call"
  /\ Emit([event |-> "call", of |-> Values(op.src)])
  /\ fields' = Append(fields, <<>>)
  /\ env' = With(env, op.dst, <<"tuple", Len(fields) + 1>>)
  /\ GoOn

DoRecordSet ==
  /\ op.opcode = "record_set"
  /\ LET t == Value(op.src[1])[2]
         x == Value(op.src[2])
     IN  /\ fields' = [fields EXCEPT ![t] = With(@, op.value, x)]
         /\ Emit([event |-> "set", of |-> <<t, op.value, x>>])
  /\ GoOn /\ UNCHANGED env

DoRecordGet ==
  /\ op.opcode = "record_get"
  /\ env' = With(env, op.dst, fields[Value(op.src[1])[2]][op.value])
  /\ GoOn /\ UNCHANGED <<fields, trace>>

DoReturn ==
  /\ op.opcode = "return"
  /\ Emit([event |-> "return", of |-> Value(op.src[1])])
  /\ at' = <<1, 1>>
  /\ UNCHANGED <<env, fields>>

DoOp == DoLiteral \/ DoBinOp \/ DoBranch \/ DoJump \/ DoCall \/ DoRecordSet \/ DoRecordGet
=============================================================================
