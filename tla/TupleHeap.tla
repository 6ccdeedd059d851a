----------------------------- MODULE TupleHeap -----------------------------
(***************************************************************************)
(* What the tuple heap of runtime.c promises the program that uses it.     *)
(*                                                                         *)
(* A tuple is an identity, the set of its elements that are pointers, and  *)
(* its elements.  The program holds tuples in its root stack and in one    *)
(* register.  It may make tuples, fill the one it has just made, and read  *)
(* pointers out of those it can reach.  There are no addresses here, no    *)
(* spaces and no collector: at any time some tuples that the root stack    *)
(* does not reach may disappear, and that is all a collection may do.      *)
(* Module Runtime is shown to implement this one.                          *)
(***************************************************************************)
EXTENDS Integers, Sequences, SequencesExt

CONSTANTS Ids,        \* the identities of tuples
          NElems,     \* the tuple lengths the program asks for
          StackSlots, \* the most entries on the root stack
          Data,       \* values that are not pointers
          NULL,       \* the null pointer
          JUNK        \* what a new tuple holds before it is filled

VARIABLES heap,       \* the tuples there are, by identity
          rootstack,  \* the root stack: tuples or NULL
          reg         \* the tuple in the program's register, or NULL

vars == <<heap, rootstack, reg>>

Ptr == Ids \cup {NULL}

Roots == ToSet(rootstack) \ {NULL}

\* The tuples that tuple i points to.
Targets(i) == {heap[i].elem[k] : k \in heap[i].isptr} \ {NULL, JUNK}

Closed(S) == \A i \in S : Targets(i) \subseteq S

-----------------------------------------------------------------------------
Init == /\ heap = <<>>
        /\ rootstack = <<>>
        /\ reg = NULL

New(i, n, isptr) ==
  /\ i \in Ids \ DOMAIN heap
  /\ heap' = [j \in DOMAIN heap \cup {i} |->
                IF j = i THEN [isptr |-> isptr, elem |-> [k \in 1..n |-> JUNK]]
                         ELSE heap[j]]
  /\ reg' = i
  /\ UNCHANGED rootstack

\* The program gives a tuple its elements once, right after it made it.
Fill(elem) ==
  /\ reg # NULL
  /\ DOMAIN elem = DOMAIN heap[reg].elem
  /\ \A k \in DOMAIN elem : /\ heap[reg].elem[k] = JUNK
                            /\ k \in heap[reg].isptr
                                 => elem[k] \in Roots \cup {reg, NULL}
                            /\ k \notin heap[reg].isptr => elem[k] \in Data
  /\ heap' = [heap EXCEPT ![reg].elem = elem]
  /\ UNCHANGED <<rootstack, reg>>

Push(v) ==
  /\ v \in {reg, NULL}
  /\ Len(rootstack) < StackSlots
  /\ rootstack' = Append(rootstack, v)
  /\ UNCHANGED <<heap, reg>>

Store(j) ==
  /\ reg # NULL
  /\ rootstack' = [rootstack EXCEPT ![j] = reg]
  /\ UNCHANGED <<heap, reg>>

Pop == /\ rootstack # <<>>
       /\ rootstack' = Front(rootstack)
       /\ UNCHANGED <<heap, reg>>

Load(j) == /\ reg' = rootstack[j]
           /\ UNCHANGED <<heap, rootstack>>

Get(j, k) == /\ rootstack[j] # NULL
             /\ k \in heap[rootstack[j]].isptr
             /\ reg' = heap[rootstack[j]].elem[k]
             /\ UNCHANGED <<heap, rootstack>>

Forget == /\ reg' = NULL
          /\ UNCHANGED <<heap, rootstack>>

\* Tuples disappear.  Those that stay include all that the roots reach, are
\* unchanged, and the register is not counted among the roots.
Reclaim(keep) ==
  /\ reg = NULL
  /\ Roots \subseteq keep
  /\ Closed(keep)
  /\ heap' = [i \in keep |-> heap[i]]
  /\ UNCHANGED <<rootstack, reg>>

Next ==
  \/ \E i \in Ids, n \in NElems : \E isptr \in SUBSET (1..n) : New(i, n, isptr)
  \/ \E n \in NElems : \E elem \in [1..n -> Ptr \cup Data] : Fill(elem)
  \/ \E v \in {reg, NULL} : Push(v)
  \/ \E j \in DOMAIN rootstack : Store(j) \/ Load(j)
  \/ \E j \in DOMAIN rootstack :
       rootstack[j] # NULL /\ \E k \in heap[rootstack[j]].isptr : Get(j, k)
  \/ Pop
  \/ Forget
  \/ \E keep \in SUBSET DOMAIN heap : Reclaim(keep)

Spec == Init /\ [][Next]_vars
=============================================================================
