------------------------- MODULE RuntimeStepsProof -------------------------
(***************************************************************************)
(* Every step of module Runtime keeps HeapInv when no tuple is longer than *)
(* isptr, and the theorems about the heap that follow from it.  Together   *)
(* with HeapInv, ContentInv is inductive as well: what is in a tuple       *)
(* survives the collection, and only tuples that the roots reach do.       *)
(***************************************************************************)
EXTENDS RuntimeProof

\* Programs ask psc_newtuple for tuples that isptr has room for.
ShortTuples == NElems \subseteq 0..MaxElem

-----------------------------------------------------------------------------
(* Steps that leave the heap alone                                         *)

\* The process ends.
LEMMA DeadStep ==
  ASSUME HeapInv, [Next]_vars, pc' \in {"crash", "abort"},
         UNCHANGED <<heapVars, clientVars, ret, req, collectVars>>
  PROVE  HeapInv'
<1>1. ShapeInv' /\ LayoutInv'
  BY HeapSame
<1>2. TypeOK' /\ ReqInv'
  BY DEF heapVars, clientVars, collectVars, HeapInv, TypeOK, ReqInv
<1>3. SizeInv'
  BY SizeStep DEF HeapInv
<1>4. GrowInv'
  BY DEF GrowInv, Growing, Collecting
<1> QED
  BY <1>1, <1>2, <1>3, <1>4 DEF HeapInv, Idle, Dead, Copying, Updating

\* The program runs, or psc_alloc goes on, without touching the heap.
LEMMA QuietStep ==
  ASSUME HeapInv, [Next]_vars, Idle, Idle',
         UNCHANGED <<heapVars, ret, collectVars>>,
         rootstack' \in Seq(Ptr), reg' \in Ptr, req' \in [n : Nat, isptr : SUBSET Nat],
         pc' # "grown", pc' # "fill", ReqInv',
         \A j \in DOMAIN rootstack' : rootstack'[j] \in Refs(fromspace),
         reg' \in Refs(fromspace), pc' # "client" => reg' = NULL,
         pc # "fill",
         pc' = "bump" => free_ptr + bytes' <= size[fromspace]
  PROVE  HeapInv'
<1>1. /\ ShapeInv' /\ LayoutInv' /\ tospace' = tospace
      /\ \A s : Begins(s)' = Begins(s) /\ Refs(s)' = Refs(s)
      /\ \A a, s : PointsInto(a, s)' <=> PointsInto(a, s)
  BY HeapSame
<1>2. SizeInv'
  BY SizeStep DEF HeapInv
<1>3. TypeOK'
  BY <1>2 DEF heapVars, collectVars, HeapInv, TypeOK, SizeInv
<1>4. GrowInv'
  BY DEF GrowInv, Growing, Collecting, Idle, Updating, Copying
<1>5. IdleInv
  BY DEF HeapInv
<1>6. IdleInv'
  <2>1. Begins(tospace)' = {}
    BY <1>1, <1>5 DEF IdleInv
  <2>2. ASSUME NEW a \in Begins(fromspace)'
        PROVE  mem'[a].forwarding = NULL /\ PointsInto(a, fromspace)'
    BY <1>1, <1>5, <2>2 DEF IdleInv, heapVars, PointsInto, Refs, Begins
  <2>3. /\ \A j \in DOMAIN rootstack' : rootstack'[j] \in Refs(fromspace)'
        /\ reg' \in Refs(fromspace)'
    BY <1>1 DEF heapVars, Refs, Begins
  <2> QED
    BY <2>1, <2>2, <2>3 DEF IdleInv, heapVars
<1> QED
  BY <1>1, <1>2, <1>3, <1>4, <1>6 DEF HeapInv, Idle

LEMMA ClientStep == HeapInv /\ ShortTuples /\ Client /\ ~CallCollect => HeapInv'
<1> SUFFICES ASSUME HeapInv, ShortTuples, Client, ~CallCollect PROVE HeapInv'
  OBVIOUS
<1> USE DEF clientVars
<1>0. [Next]_vars
  BY DEF Next
<1>1. pc = "client" /\ Idle
  BY DEF Client, PushRoot, StoreRoot, LoadRoot, GetElem, PopRoot, CallCollect,
         CallNewTuple, Idle, Dead, Copying, Updating
<1>2. /\ IdleInv /\ rootstack \in Seq(Ptr) /\ reg \in Ptr
      /\ req \in [n : Nat, isptr : SUBSET Nat] /\ ReqInv
  BY <1>1 DEF HeapInv, TypeOK
<1>2a. \A j \in DOMAIN rootstack : rootstack[j] \in Refs(fromspace)
  BY <1>2 DEF IdleInv
<1>2b. reg \in Refs(fromspace)
  BY <1>2 DEF IdleInv
<1>3. ASSUME UNCHANGED <<heapVars, reg, pc, ret, req, collectVars>>,
             rootstack' \in Seq(Ptr),
             \A j \in DOMAIN rootstack' : rootstack'[j] \in Refs(fromspace)
      PROVE  HeapInv'
  BY <1>0, <1>1, <1>2, <1>2b, <1>3, QuietStep
     DEF ReqInv, Idle, Dead, Copying, Updating
<1>4. ASSUME NEW v \in {reg, NULL}, PushRoot(v) PROVE HeapInv'
  <2>1. v \in Ptr /\ v \in Refs(fromspace)
    BY <1>2, <1>2b DEF Refs, Ptr
  <2>2. /\ rootstack' = Append(rootstack, v) /\ rootstack' \in Seq(Ptr)
        /\ Len(rootstack') = Len(rootstack) + 1
        /\ \A j \in 1..Len(rootstack) : rootstack'[j] = rootstack[j]
        /\ rootstack'[Len(rootstack) + 1] = v
    BY <1>2, <1>4, <2>1, AppendProperties DEF PushRoot
  <2>3. \A j \in DOMAIN rootstack' : rootstack'[j] \in Refs(fromspace)
    BY <1>2a, <1>2, <2>1, <2>2
  <2> QED
    BY <1>3, <1>4, <2>2, <2>3 DEF PushRoot
<1>5. ASSUME NEW j \in DOMAIN rootstack, StoreRoot(j) PROVE HeapInv'
  <2>1. rootstack' = [rootstack EXCEPT ![j] = reg] /\ j \in 1..Len(rootstack)
    BY <1>2, <1>5 DEF StoreRoot
  <2>2. /\ rootstack' \in Seq(Ptr) /\ DOMAIN rootstack' = DOMAIN rootstack
        /\ \A i \in DOMAIN rootstack : rootstack'[i] = IF i = j THEN reg ELSE rootstack[i]
    BY <1>2, <2>1, ExceptSeq
  <2> QED
    BY <1>2a, <1>2b, <1>3, <1>5, <2>2 DEF StoreRoot
<1>6. CASE PopRoot
  <2>1. /\ rootstack # <<>> /\ Len(rootstack) \in Nat
        /\ rootstack' = SubSeq(rootstack, 1, Len(rootstack) - 1)
    BY <1>2, <1>6 DEF PopRoot, Front
  <2>2. Len(rootstack) >= 1
    BY <1>2, <2>1, EmptySeq
  <2>3. /\ rootstack' \in Seq(Ptr) /\ Len(rootstack') = Len(rootstack) - 1
        /\ \A i \in 1..(Len(rootstack) - 1) : rootstack'[i] = rootstack[i]
    <3>1. PICK n \in Nat : n = Len(rootstack) - 1
      BY <2>1, <2>2
    <3>2. \A i \in 1..n : rootstack[i] \in Ptr
      BY <1>2, <2>1, <3>1, ElementOfSeq
    <3>3. /\ SubSeq(rootstack, 1, n) \in Seq(Ptr)
          /\ Len(SubSeq(rootstack, 1, n)) = IF 1 <= n THEN n - 1 + 1 ELSE 0
          /\ \A i \in 1..(n - 1 + 1) :
               SubSeq(rootstack, 1, n)[i] = rootstack[1 + i - 1]
      BY <3>2, SubSeqProperties
    <3>4. rootstack' = SubSeq(rootstack, 1, n)
      BY <2>1, <3>1
    <3>5. Len(rootstack') = n /\ rootstack' \in Seq(Ptr)
      BY <3>3, <3>4
    <3>6. ASSUME NEW i \in 1..n PROVE rootstack'[i] = rootstack[i]
      <4>1. i \in 1..(n - 1 + 1) /\ 1 + i - 1 = i
        OBVIOUS
      <4> QED
        BY <3>3, <3>4, <4>1
    <3> QED
      BY <3>1, <3>5, <3>6
  <2>4. \A i \in DOMAIN rootstack' : rootstack'[i] \in Refs(fromspace)
    BY <1>2, <1>2a, <2>1, <2>3
  <2> QED
    BY <1>3, <1>6, <2>3, <2>4 DEF PopRoot
<1>7. ASSUME UNCHANGED <<heapVars, rootstack, pc, ret, req, collectVars>>,
             reg' \in Refs(fromspace)
      PROVE  HeapInv'
  BY <1>0, <1>1, <1>2, <1>2a, <1>7, QuietStep, RefIsPtr
     DEF ReqInv, Idle, Dead, Copying, Updating
<1>8. ASSUME NEW j \in DOMAIN rootstack, LoadRoot(j) PROVE HeapInv'
  BY <1>2a, <1>7, <1>8 DEF LoadRoot
<1>9. ASSUME NEW j \in DOMAIN rootstack, NEW k, GetElem(j, k) PROVE HeapInv'
  <2>1. rootstack[j] \in Begins(fromspace)
    BY <1>2a, <1>9 DEF GetElem, Refs
  <2>2. PointsInto(rootstack[j], fromspace)
    BY <1>1, <1>2, <2>1 DEF IdleInv
  <2> QED
    BY <1>7, <1>9, <2>2 DEF GetElem, PointsInto
<1>10. ASSUME NEW n \in NElems, NEW isptr \in SUBSET (1..n), CallNewTuple(n, isptr)
       PROVE  HeapInv'
  <2>1. n \in Nat /\ n <= MaxElem
    BY SizeAssumption DEF ShortTuples
  <2>2. /\ req' = [n |-> n, isptr |-> isptr]
        /\ req' \in [n : Nat, isptr : SUBSET Nat] /\ ReqInv'
    BY <1>10, <2>1 DEF CallNewTuple, ReqInv
  <2>3. NULL \in Ptr /\ NULL \in Refs(fromspace)
    BY DEF Ptr, Refs
  <2> QED
    BY <1>0, <1>1, <1>2, <1>2a, <1>10, <2>2, <2>3, QuietStep
       DEF CallNewTuple, Idle, Dead, Copying, Updating
<1> QED
  BY <1>4, <1>5, <1>6, <1>8, <1>9, <1>10 DEF Client

LEMMA GcInitStep ==
  ASSUME HeapInv, NEW h \in HeapSizes, GcInit(h)
  PROVE  HeapInv'
<1> USE DEF clientVars, collectVars
<1>1. /\ pc = "boot" /\ pc' = "client" /\ RoundUp(h, Align) <= HeapBound
      /\ size' = [s \in {"A", "B"} |-> RoundUp(h, Align)]
      /\ UNCHANGED <<mem, fromspace, free_ptr, ret, req, rootstack, reg,
                     scan_ptr, end_ptr, idx>>
  BY DEF GcInit
<1>2. RoundUp(h, Align) \in 0..HeapBound
  BY <1>1, RoundUpType, SizeAssumption
<1>3. size' \in [{"A", "B"} -> 0..HeapBound]
  BY <1>1, <1>2
<1>4. TypeOK' /\ ReqInv'
  BY <1>1, <1>3 DEF HeapInv, TypeOK, ReqInv
<1>5. SizeInv'
  BY SizeStep DEF HeapInv, Next
<1>6. ShapeInv'
  BY <1>1 DEF HeapInv, ShapeInv
<1>7. free_ptr <= 0
  BY <1>1 DEF HeapInv, LayoutInv, SizeInv, Growing, Collecting
<1>8. TiledUpTo(fromspace, free_ptr)'
  BY <1>1 DEF HeapInv, LayoutInv, TiledUpTo, Begins, EndOf
<1>9. free_ptr' <= size'[fromspace']
  BY <1>1, <1>2, <1>7 DEF HeapInv, TypeOK
<1>10. IdleInv
  BY <1>1 DEF HeapInv, Idle, Dead, Copying, Updating
<1>11. IdleInv'
  BY <1>1, <1>10 DEF IdleInv, Begins, Refs, PointsInto, tospace
<1> QED
  BY <1>1, <1>4, <1>5, <1>6, <1>8, <1>9, <1>11
     DEF HeapInv, LayoutInv, GrowInv, Growing, Collecting, Copying, Updating

-----------------------------------------------------------------------------
(* A collection begins                                                     *)

LEMMA CollectStep ==
  ASSUME HeapInv, [Next]_vars, Idle, pc # "fill",
         NEW r \in {"client", "retry", "grown"}, Collect(r), reg' = NULL,
         UNCHANGED <<mem, fromspace, free_ptr, rootstack, req>>,
         size' \in [{"A", "B"} -> 0..HeapBound], size'[fromspace] = size[fromspace],
         r = "grown" => size'[fromspace] + bytes <= size'[tospace]
  PROVE  HeapInv'
<1>1. /\ pc' = "roots" /\ ret' = r
      /\ scan_ptr' = 0 /\ end_ptr' = 0 /\ idx' = 1
  BY DEF Collect
<1>2. IdleInv /\ TypeOK
  BY DEF HeapInv
<1>3. TypeOK' /\ ReqInv'
  BY <1>1, <1>2 DEF HeapInv, TypeOK, ReqInv, Ptr
<1>4. SizeInv'
  BY SizeStep DEF HeapInv
<1>5. ShapeInv' /\ LayoutInv'
  BY DEF HeapInv, ShapeInv, LayoutInv, TiledUpTo, Begins, EndOf
<1>6. /\ tospace' = tospace
      /\ \A s : Begins(s)' = Begins(s) /\ Refs(s)' = Refs(s)
      /\ \A a, s : PointsInto(a, s)' <=> PointsInto(a, s)
  BY DEF tospace, Begins, Refs, PointsInto
<1>7. GrowInv'
  BY <1>1, <1>6 DEF GrowInv, Growing, Collecting, Copying, bytes
<1>8. Begins(tospace)' = {} /\ \A s : Begins(s)' = Begins(s)
  BY <1>2, <1>6 DEF IdleInv
<1>9. TiledUpTo(tospace, end_ptr)'
  BY <1>1, <1>8 DEF TiledUpTo
<1>10. ForwardInv'
  <2>1. \A a \in Begins(fromspace)' : mem'[a].forwarding = NULL
    BY <1>2, <1>8 DEF IdleInv, Begins
  <2> QED
    BY <1>8, <2>1 DEF ForwardInv
<1>11. \A a \in Begins(fromspace)' : PointsInto(a, fromspace)'
  BY <1>2, <1>6 DEF IdleInv, PointsInto, Begins, Refs
<1>12. \A j \in DOMAIN rootstack' :
         /\ rootstack'[j] \in Refs(fromspace)'
         /\ ~(j < idx')
  BY <1>1, <1>2 DEF IdleInv, Refs, Begins, TypeOK
<1>13. CopyInv'
  BY <1>1, <1>2, <1>8, <1>9, <1>10, <1>11, <1>12 DEF CopyInv, TypeOK
<1> QED
  BY <1>1, <1>3, <1>4, <1>5, <1>7, <1>13 DEF HeapInv, Idle, Copying, Updating

LEMMA CallCollectStep == HeapInv /\ CallCollect => HeapInv'
<1> SUFFICES ASSUME HeapInv, CallCollect PROVE HeapInv'
  OBVIOUS
<1>1. [Next]_vars
  BY DEF Next, Client
<1>2. Idle /\ pc # "fill"
  BY DEF CallCollect, Idle, Dead, Copying, Updating
<1>3. size \in [{"A", "B"} -> 0..HeapBound]
  BY DEF HeapInv, TypeOK
<1> QED
  BY <1>1, <1>2, <1>3, CollectStep DEF CallCollect, heapVars

LEMMA AllocShrinkStep == HeapInv /\ AllocShrink => HeapInv'
<1> SUFFICES ASSUME HeapInv, AllocShrink PROVE HeapInv'
  OBVIOUS
<1>1. [Next]_vars
  BY DEF Next, Allocator
<1>2. Idle /\ pc = "alloc"
  BY DEF AllocShrink, Idle, Dead, Copying, Updating
<1>3. size \in [{"A", "B"} -> 0..HeapBound] /\ reg' = NULL
  BY <1>2 DEF HeapInv, TypeOK, IdleInv, AllocShrink, clientVars
<1> QED
  BY <1>1, <1>2, <1>3, CollectStep DEF AllocShrink, heapVars, clientVars

LEMMA GrowStep == HeapInv /\ Grow => HeapInv'
<1> SUFFICES ASSUME HeapInv, Grow PROVE HeapInv'
  OBVIOUS
<1> DEFINE new == GrowTo(size[fromspace], bytes)
<1>1. [Next]_vars
  BY DEF Next, Allocator
<1>2. /\ Idle /\ pc = "retry" /\ new # NULL /\ new <= HeapBound
      /\ size' = [size EXCEPT ![tospace] = new] /\ Collect("grown")
      /\ UNCHANGED <<mem, fromspace, free_ptr, rootstack, reg, req>>
  BY DEF Grow, Idle, Dead, Copying, Updating, clientVars
<1>3. reg' = NULL /\ TypeOK
  BY <1>2 DEF HeapInv, IdleInv
<1>4. bytes \in Nat
  BY <1>3, BytesType DEF bytes, TypeOK
<1>5. size[fromspace] \in Nat
  BY <1>3, SpaceFacts
<1>6. new \in Nat /\ new - size[fromspace] >= bytes
  BY <1>2, <1>4, <1>5, GrowToGrows
<1> HIDE DEF new
<1>7. new \in 0..HeapBound
  BY <1>2, <1>6, SizeAssumption
<1>8. /\ size' \in [{"A", "B"} -> 0..HeapBound]
      /\ size'[fromspace] = size[fromspace] /\ size'[tospace] = new
  BY <1>2, <1>3, <1>7, SpaceFacts DEF TypeOK
<1>9. size'[fromspace] + bytes <= size'[tospace]
  BY <1>4, <1>5, <1>6, <1>8
<1> QED
  BY <1>1, <1>2, <1>3, <1>8, <1>9, CollectStep

-----------------------------------------------------------------------------
(* psc_alloc and psc_newtuple                                              *)

LEMMA AllocFitsStep == HeapInv /\ AllocFits => HeapInv'
<1> SUFFICES ASSUME HeapInv, AllocFits PROVE HeapInv'
  OBVIOUS
<1>1. [Next]_vars
  BY DEF Next, Allocator
<1>2. /\ Idle /\ Idle' /\ pc \in {"alloc", "retry"} /\ pc' = "bump" /\ Fits
      /\ UNCHANGED <<heapVars, rootstack, reg, ret, req, collectVars>>
  BY DEF AllocFits, Idle, Dead, Copying, Updating, clientVars
<1>3. /\ IdleInv /\ TypeOK /\ ReqInv
  BY <1>2 DEF HeapInv
<1>4. free_ptr + bytes' <= size[fromspace]
  <2>1. bytes \in Nat
    BY <1>3, BytesType DEF bytes, TypeOK
  <2>2. free_ptr \in Nat
    BY <1>3 DEF TypeOK
  <2>3. size[fromspace] \in Nat
    BY <1>3, SpaceFacts
  <2>4. size[fromspace] - free_ptr >= bytes /\ bytes' = bytes
    BY <1>2 DEF Fits, bytes
  <2> QED
    BY <2>1, <2>2, <2>3, <2>4
<1>5. /\ \A j \in DOMAIN rootstack : rootstack[j] \in Refs(fromspace)
      /\ reg = NULL /\ NULL \in Refs(fromspace) /\ NULL \in Ptr
  BY <1>2, <1>3 DEF IdleInv, Refs, Ptr
<1> QED
  BY <1>1, <1>2, <1>3, <1>4, <1>5, QuietStep DEF TypeOK, ReqInv

LEMMA GrowBackStep == HeapInv /\ GrowBack => HeapInv'
<1> SUFFICES ASSUME HeapInv, GrowBack PROVE HeapInv'
  OBVIOUS
<1>1. /\ pc = "grown" /\ pc' = "bump"
      /\ size' = [size EXCEPT ![tospace] = size[fromspace]]
      /\ UNCHANGED <<mem, fromspace, free_ptr, ret, req, rootstack, reg,
                     scan_ptr, end_ptr, idx>>
  BY DEF GrowBack, clientVars, collectVars
<1>2. TypeOK /\ IdleInv
  BY <1>1 DEF HeapInv, Idle, Dead, Copying, Updating
<1>3. TypeOK' /\ ReqInv' /\ size'[fromspace] = size[fromspace]
  BY <1>1, <1>2, SpaceFacts DEF HeapInv, TypeOK, ReqInv
<1>4. SizeInv'
  BY SizeStep DEF HeapInv, Next, Allocator
<1>5. ShapeInv' /\ LayoutInv'
  BY <1>1, <1>3 DEF HeapInv, ShapeInv, LayoutInv, TiledUpTo, Begins, EndOf
<1>6. GrowInv' /\ free_ptr + bytes <= size[fromspace]
  BY <1>1 DEF HeapInv, GrowInv, Growing, Collecting, Copying
<1>7. IdleInv'
  BY <1>1, <1>2, <1>3, <1>6 DEF IdleInv, Begins, Refs, PointsInto, tospace, bytes
<1> QED
  BY <1>1, <1>3, <1>4, <1>5, <1>6, <1>7 DEF HeapInv, Copying, Updating

\* What the stores that follow psc_newtuple do to the tuple in the register.
LEMMA FillEffect ==
  ASSUME HeapInv, NEW n \in NElems,
         NEW elem \in [1..n -> ToSet(rootstack) \cup {reg, NULL} \cup Data],
         FillTuple(elem)
  PROVE  /\ reg \in Begins(fromspace) /\ reg \in Addr
         /\ mem[reg].len = n /\ DOMAIN mem[reg].elem = 1..n /\ Len(elem) = n
         /\ \A v \in ToSet(rootstack) \cup {reg, NULL} : v \in Refs(fromspace)
         /\ mem' \in [Addr -> Tuple \cup {NULL}]
         /\ \A a \in Addr : a # reg => mem'[a] = mem[a]
         /\ mem'[reg] # NULL /\ mem'[reg].elem = elem
         /\ mem'[reg].len = mem[reg].len /\ mem'[reg].isptr = mem[reg].isptr
         /\ mem'[reg].forwarding = mem[reg].forwarding
         /\ mem'[reg].id = mem[reg].id
<1>1. /\ pc = "fill" /\ Len(elem) = Len(mem[reg].elem)
      /\ mem' = [mem EXCEPT ![reg].elem = elem]
  BY DEF FillTuple
<1>2. IdleInv /\ TypeOK /\ ShapeInv
  BY <1>1 DEF HeapInv, Idle, Dead, Copying, Updating
<1>3. /\ reg \in Begins(fromspace) /\ reg \in Addr /\ mem[reg] # NULL
      /\ mem[reg] \in Tuple /\ mem[reg].elem \in Seq(Value)
      /\ Len(mem[reg].elem) = mem[reg].len
  BY <1>1, <1>2, TupleFacts DEF IdleInv, Refs, Begins, ShapeInv
<1>4. \A v \in ToSet(rootstack) \cup {reg, NULL} : v \in Refs(fromspace)
  <2>1. \A v \in ToSet(rootstack) : v \in Refs(fromspace)
    BY <1>2 DEF ToSet, IdleInv
  <2> QED
    BY <1>2, <2>1 DEF IdleInv, Refs
<1>5. elem \in Seq(Value) /\ Len(elem) = n
  <2>1. ToSet(rootstack) \cup {reg, NULL} \cup Data \subseteq Value
    BY <1>4, RefIsPtr DEF Value
  <2>2. n \in Nat
    BY SizeAssumption
  <2>3. \A k \in 1..n : elem[k] \in Value
    BY <2>1
  <2>4. elem = [k \in 1..n |-> elem[k]]
    OBVIOUS
  <2>5. [k \in 1..n |-> elem[k]] \in Seq(Value) /\ Len([k \in 1..n |-> elem[k]]) = n
    BY <2>2, <2>3, IsASeq
  <2> QED
    BY <2>4, <2>5
<1> DEFINE t == [mem[reg] EXCEPT !.elem = elem]
<1>6. /\ t \in Tuple /\ t.elem = elem /\ t.len = mem[reg].len
      /\ t.isptr = mem[reg].isptr /\ t.forwarding = mem[reg].forwarding
      /\ t.id = mem[reg].id
  BY <1>3, <1>5 DEF Tuple
<1>7. mem' = [mem EXCEPT ![reg] = t]
  BY <1>1
<1> HIDE DEF t
<1>8. /\ mem' \in [Addr -> Tuple \cup {NULL}]
      /\ mem'[reg] = t /\ \A a \in Addr : a # reg => mem'[a] = mem[a]
  BY <1>2, <1>3, <1>6, <1>7 DEF TypeOK
<1>9. t # NULL
  BY <1>6, ValueAssumption
<1>10. mem[reg].len = n /\ DOMAIN mem[reg].elem = 1..n
  BY <1>1, <1>3, <1>5
<1> QED
  BY <1>3, <1>4, <1>5, <1>6, <1>8, <1>9, <1>10

LEMMA FillStep == HeapInv /\ Fill => HeapInv'
<1> SUFFICES ASSUME HeapInv, Fill PROVE HeapInv'
  OBVIOUS
<1>1. PICK n \in NElems :
        \E elem \in [1..n -> ToSet(rootstack) \cup {reg, NULL} \cup Data] : FillTuple(elem)
  BY DEF Fill
<1>1a. PICK elem \in [1..n -> ToSet(rootstack) \cup {reg, NULL} \cup Data] : FillTuple(elem)
  BY <1>1
<1>2. /\ pc = "fill" /\ pc' = "client"
      /\ \A k \in DOMAIN elem :
           elem[k] \in IF k \in mem[reg].isptr
                         THEN ToSet(rootstack) \cup {reg, NULL} ELSE Data
      /\ UNCHANGED <<size, fromspace, free_ptr, rootstack, reg, ret, req,
                     scan_ptr, end_ptr, idx>>
  BY <1>1a DEF FillTuple, clientVars, collectVars
<1>3. IdleInv /\ TypeOK /\ ShapeInv
  BY <1>2 DEF HeapInv, Idle, Dead, Copying, Updating
<1>4. /\ reg \in Begins(fromspace) /\ reg \in Addr /\ mem[reg] # NULL
      /\ mem[reg].len = n /\ Len(elem) = n
  BY <1>1a, FillEffect DEF Begins
<1>5. \A v \in ToSet(rootstack) \cup {reg, NULL} : v \in Refs(fromspace)
  BY <1>1a, FillEffect
<1>7. /\ mem'[reg].elem = elem /\ mem'[reg].len = mem[reg].len
      /\ mem'[reg].isptr = mem[reg].isptr
      /\ mem'[reg].forwarding = mem[reg].forwarding
  BY <1>1a, FillEffect
<1>9. /\ mem' \in [Addr -> Tuple \cup {NULL}]
      /\ \A a \in Addr : a # reg => mem'[a] = mem[a]
  BY <1>1a, FillEffect
<1>10. mem'[reg] # NULL
  BY <1>1a, FillEffect
<1>11. TypeOK' /\ ReqInv'
  BY <1>2, <1>3, <1>9 DEF HeapInv, TypeOK, ReqInv
<1>12. SizeInv'
  BY SizeStep DEF HeapInv, Next
<1>13. ShapeInv'
  BY <1>2, <1>3, <1>4, <1>7, <1>9 DEF ShapeInv
<1>14. /\ \A s : Begins(s)' = Begins(s) /\ Refs(s)' = Refs(s)
       /\ \A a \in Addr : mem[a] # NULL => EndOf(a)' = EndOf(a)
       /\ tospace' = tospace
  BY <1>2, <1>4, <1>7, <1>9, <1>10 DEF Begins, Refs, EndOf, Size, tospace
<1>14a. /\ Begins(fromspace)' = Begins(fromspace)
        /\ Begins(tospace)' = Begins(tospace)
        /\ \A a \in Begins(fromspace) : a \in Addr /\ mem[a] # NULL
  BY <1>2, <1>4, <1>9, <1>10, <1>14 DEF Begins
<1>15. LayoutInv'
  BY <1>2, <1>14, <1>14a DEF HeapInv, LayoutInv, TiledUpTo
<1>16. GrowInv'
  BY <1>2 DEF GrowInv, Growing, Collecting
<1>17. IdleInv'
  <2>1. Begins(tospace)' = {} /\ Begins(fromspace)' = Begins(fromspace)
        /\ Refs(fromspace)' = Refs(fromspace)
    BY <1>3, <1>14a DEF IdleInv, Refs
  <2>2. ASSUME NEW a \in Begins(fromspace)
        PROVE  mem'[a].forwarding = NULL /\ PointsInto(a, fromspace)'
    <3>1. CASE a = reg
      <4>1. ASSUME NEW k \in mem'[reg].isptr PROVE mem'[reg].elem[k] \in Refs(fromspace)
        <5>1. k \in 1..n
          BY <1>3, <1>4, <1>7, <4>1 DEF ShapeInv
        <5> QED
          BY <1>2, <1>5, <1>7, <4>1, <5>1
      <4> QED
        BY <1>3, <1>4, <1>7, <1>9, <2>1, <3>1, <4>1 DEF IdleInv, PointsInto
    <3>2. CASE a # reg
      BY <1>3, <1>9, <2>1, <2>2, <3>2 DEF IdleInv, PointsInto, Begins
    <3> QED
      BY <3>1, <3>2
  <2> QED
    BY <1>2, <1>3, <2>1, <2>2 DEF IdleInv
<1> QED
  BY <1>2, <1>11, <1>12, <1>13, <1>15, <1>16, <1>17 DEF HeapInv, Copying, Updating

\* The identities in use are fewer than the tuples that fit in a space.
LEMMA FreshIdIsFresh ==
  ASSUME TypeOK, LayoutInv, free_ptr <= HeapBound
  PROVE  /\ FreshId \in Ids
         /\ \A a \in Begins(fromspace) : mem[a].id # FreshId
<1> DEFINE S == Begins(fromspace)
           at == [i \in Ids |-> CHOOSE a \in S : mem[a].id = i]
           f  == [i \in Ids |-> at[i][2]]
<1>1. SUFFICES ASSUME \A i \in Ids : \E a \in S : mem[a].id = i
               PROVE  FALSE
  BY DEF FreshId
<1>2. \A i \in Ids : at[i] \in S /\ mem[at[i]].id = i
  BY <1>1
<1> HIDE DEF at
<1>3. free_ptr \in Nat
  BY DEF TypeOK
<1>4. \A a \in S : a \in Addr /\ a[1] = fromspace /\ a[2] \in Nat /\ a[2] < free_ptr
  BY <1>3, TilingEnds, AddrFacts DEF Begins, LayoutInv
<1>5. \A i \in Ids : f[i] \in 0..(free_ptr - 1)
  BY <1>2, <1>3, <1>4
<1>6. ASSUME NEW i \in Ids, NEW j \in Ids, f[i] = f[j]
      PROVE  i = j
  <2>1. at[i] = at[j]
    BY <1>2, <1>4, <1>6, AddrEqual
  <2> QED
    BY <1>2, <2>1
<1>7. PICK m : m = HeapBound + 1
  OBVIOUS
<1>8. m \in Nat /\ Ids = 0..(m - 1)
  BY <1>7, SizeAssumption DEF Ids
<1>9. f \in [0..(m - 1) -> 0..(free_ptr - 1)]
  BY <1>5, <1>8
<1> HIDE DEF f
<1>10. m <= free_ptr
  BY <1>3, <1>6, <1>8, <1>9, InjectionBound
<1> QED
  BY <1>3, <1>7, <1>10, SizeAssumption

\* What psc_newtuple does: the new tuple is at free_ptr and holds nothing.
LEMMA NewTupleEffect ==
  ASSUME HeapInv, NewTuple, NEW c, c = From(free_ptr)
  PROVE  /\ c \in Addr /\ c[1] = fromspace /\ c[2] = free_ptr /\ mem[c] = NULL
         /\ req.n \in Nat /\ req.n <= MaxElem /\ req.isptr \subseteq 1..req.n
         /\ free_ptr \in Nat /\ bytes \in Nat \ {0} /\ bytes = TupleSize(req.n)
         /\ FreshId \in Ids /\ \A a \in Begins(fromspace) : mem[a].id # FreshId
         /\ mem' \in [Addr -> Tuple \cup {NULL}]
         /\ \A a \in Addr : a # c => mem'[a] = mem[a]
         /\ mem'[c] # NULL
         /\ mem'[c].len = req.n /\ mem'[c].isptr = req.isptr
         /\ mem'[c].elem = [k \in 1..req.n |-> JUNK] /\ Len(mem'[c].elem) = req.n
         /\ mem'[c].forwarding = NULL /\ mem'[c].id = FreshId
         /\ Begins(fromspace)' = Begins(fromspace) \cup {c}
         /\ Begins(tospace)' = {}
         /\ tospace' = tospace
<1> DEFINE t == [len |-> req.n % (MaxLen + 1),
                 isptr |-> req.isptr \cap (1..MaxElem),
                 elem |-> [k \in 1..req.n |-> JUNK],
                 forwarding |-> NULL,
                 id |-> FreshId]
<1>1. /\ pc = "bump" /\ pc' = "fill" /\ ret' = "client"
      /\ mem' = [mem EXCEPT ![From(free_ptr)] = t]
      /\ reg' = From(free_ptr) /\ free_ptr' = free_ptr + bytes
      /\ req' = [n |-> 0, isptr |-> {}]
      /\ UNCHANGED <<size, fromspace, rootstack, scan_ptr, end_ptr, idx>>
  BY DEF NewTuple, collectVars
<1>2. /\ IdleInv /\ TypeOK /\ ShapeInv /\ LayoutInv /\ ReqInv
      /\ free_ptr + bytes <= size[fromspace]
  BY <1>1 DEF HeapInv, Idle, Dead, Copying, Updating, IdleInv
<1>3. req.n \in Nat /\ req.n <= MaxElem /\ req.isptr \subseteq 1..req.n
  BY <1>2 DEF TypeOK, ReqInv
<1>4. bytes \in Nat \ {0} /\ bytes = TupleSize(req.n)
  BY <1>3, BytesType DEF bytes
<1>5. free_ptr \in Nat /\ size[fromspace] \in 0..HeapBound
  BY <1>2, SpaceFacts DEF TypeOK
<1>6. free_ptr + bytes <= HeapBound
  BY <1>2, <1>4, <1>5, SizeAssumption
<1>7. c = From(free_ptr)
  OBVIOUS
<1>8. c \in Addr /\ c[1] = fromspace /\ c[2] = free_ptr
  <2>1. free_ptr \in 0..HeapBound
    BY <1>4, <1>5, <1>6, SizeAssumption
  <2> QED
    BY <1>2, <1>7, <2>1, SpaceFacts, AddrFacts DEF From
<1>9. FreshId \in Ids /\ \A a \in Begins(fromspace) : mem[a].id # FreshId
  <2>1. free_ptr <= HeapBound
    BY <1>4, <1>5, <1>6, SizeAssumption
  <2> QED
    BY <1>2, <2>1, FreshIdIsFresh
<1>10. req.n % (MaxLen + 1) = req.n /\ req.n \in 0..MaxLen
  <2>1. req.n <= MaxLen /\ MaxLen \in Nat
    BY <1>3, SizeAssumption
  <2> QED
    BY <1>3, <2>1
<1>11. /\ t \in Tuple /\ t # NULL /\ t.len = req.n /\ t.forwarding = NULL
       /\ Len(t.elem) = req.n /\ t.elem = [k \in 1..req.n |-> JUNK]
       /\ t.isptr = req.isptr /\ t.id = FreshId
  <2>1. [k \in 1..req.n |-> JUNK] \in Seq(Value) /\ Len([k \in 1..req.n |-> JUNK]) = req.n
    <3>1. JUNK \in Value
      BY DEF Value
    <3> QED
      BY <1>3, <3>1
  <2>2. NULL \in Ptr /\ req.isptr \cap (1..MaxElem) \subseteq 1..MaxElem
    BY DEF Ptr
  <2>3. t \in Tuple
    BY <1>9, <1>10, <2>1, <2>2 DEF Tuple
  <2>4. req.isptr \cap (1..MaxElem) = req.isptr
    BY <1>3, SizeAssumption
  <2> QED
    BY <1>3, <1>10, <2>1, <2>3, <2>4, ValueAssumption
<1> HIDE DEF t
<1>12. /\ mem' \in [Addr -> Tuple \cup {NULL}] /\ mem'[c] = t
       /\ \A a \in Addr : a # c => mem'[a] = mem[a]
  BY <1>1, <1>2, <1>7, <1>8, <1>11 DEF TypeOK
<1>13. c \notin Begins(fromspace) /\ mem[c] = NULL
  <2>1. c \notin Begins(fromspace)
    BY <1>2, <1>5, <1>8, TilingEnds DEF LayoutInv
  <2> QED
    BY <1>8, <2>1 DEF Begins
<1>14. /\ tospace' = tospace /\ tospace # fromspace
       /\ Begins(fromspace)' = Begins(fromspace) \cup {c}
       /\ Begins(tospace)' = {}
  <2>1. tospace' = tospace /\ tospace # fromspace
    BY <1>1, <1>2, SpaceFacts DEF tospace
  <2> QED
    BY <1>1, <1>2, <1>8, <1>11, <1>12, <2>1 DEF Begins, IdleInv
<1> QED
  BY <1>3, <1>4, <1>5, <1>8, <1>9, <1>11, <1>12, <1>13, <1>14

LEMMA NewTupleStep == HeapInv /\ NewTuple => HeapInv'
<1> SUFFICES ASSUME HeapInv, NewTuple PROVE HeapInv'
  OBVIOUS
<1>1. /\ pc = "bump" /\ pc' = "fill" /\ ret' = "client"
      /\ reg' = From(free_ptr) /\ free_ptr' = free_ptr + bytes
      /\ req' = [n |-> 0, isptr |-> {}]
      /\ UNCHANGED <<size, fromspace, rootstack, scan_ptr, end_ptr, idx>>
  BY DEF NewTuple, collectVars
<1>2. /\ IdleInv /\ TypeOK /\ ShapeInv /\ LayoutInv /\ ReqInv
      /\ free_ptr + bytes <= size[fromspace]
  BY <1>1 DEF HeapInv, Idle, Dead, Copying, Updating, IdleInv
<1>7. PICK c : c = From(free_ptr)
  OBVIOUS
<1>8. c \in Addr /\ c[1] = fromspace /\ c[2] = free_ptr
  BY <1>7, NewTupleEffect
<1>3. req.n \in Nat /\ req.n <= MaxElem /\ req.isptr \subseteq 1..req.n
  BY <1>7, NewTupleEffect
<1>4. bytes \in Nat \ {0} /\ bytes = TupleSize(req.n)
  BY <1>7, NewTupleEffect
<1>5. free_ptr \in Nat /\ size[fromspace] \in 0..HeapBound
  BY <1>2, SpaceFacts DEF TypeOK
<1>11. /\ mem'[c] # NULL /\ mem'[c].len = req.n /\ mem'[c].isptr = req.isptr
       /\ Len(mem'[c].elem) = req.n /\ mem'[c].forwarding = NULL
  BY <1>7, NewTupleEffect
<1>12. /\ mem' \in [Addr -> Tuple \cup {NULL}]
       /\ \A a \in Addr : a # c => mem'[a] = mem[a]
  BY <1>7, NewTupleEffect
<1>13. c \notin Begins(fromspace) /\ mem[c] = NULL
  BY <1>7, NewTupleEffect DEF Begins
<1>14. TypeOK'
  <2>1. free_ptr' \in Nat /\ reg' \in Ptr
    BY <1>1, <1>4, <1>5, <1>7, <1>8 DEF Ptr
  <2> QED
    BY <1>1, <1>2, <1>12, <2>1 DEF TypeOK
<1>15. SizeInv'
  BY SizeStep DEF HeapInv, Next, Allocator
<1>16. ReqInv' /\ GrowInv'
  BY <1>1, SizeAssumption DEF ReqInv, GrowInv, Growing, Collecting
<1>17. ShapeInv'
  BY <1>2, <1>3, <1>11, <1>12 DEF ShapeInv
<1>18. /\ tospace' = tospace
       /\ Begins(fromspace)' = Begins(fromspace) \cup {c}
       /\ Begins(tospace)' = {}
  BY <1>7, NewTupleEffect
<1>19. LayoutInv'
  <2>1. PICK s, e : s = fromspace /\ e = free_ptr + bytes
    OBVIOUS
  <2>2. s \in {"A", "B"} /\ e \in Nat /\ TiledUpTo(s, free_ptr) /\ c[1] = s
    BY <1>2, <1>4, <1>5, <1>8, <2>1, SpaceFacts DEF LayoutInv
  <2>3. e = free_ptr + Size(mem'[c]) /\ mem'[c] # NULL
    BY <1>4, <1>11, <1>12, <2>1 DEF Size
  <2>4. /\ \A a \in Addr : a # c => (mem'[a] # NULL <=> mem[a] # NULL)
        /\ \A a \in Addr : mem[a] # NULL => mem'[a].len = mem[a].len
    BY <1>12, <1>13
  <2>5. TiledUpTo(s, e)'
    BY <1>2, <1>5, <1>8, <1>14, <2>2, <2>3, <2>4, TilingGrows
  <2>6. fromspace' = s /\ free_ptr' = e
    BY <1>1, <2>1
  <2>7. TiledUpTo(fromspace, free_ptr)'
    BY <2>5, <2>6 DEF TiledUpTo
  <2> QED
    BY <1>1, <1>2, <2>7 DEF LayoutInv
<1>20. IdleInv'
  <2>1. Refs(fromspace) \subseteq Refs(fromspace)' /\ c \in Refs(fromspace)'
    BY <1>18 DEF Refs
  <2>2. ASSUME NEW a \in Begins(fromspace)'
        PROVE  mem'[a].forwarding = NULL /\ (PointsInto(a, fromspace)' \/ a = c)
    <3>1. CASE a = c
      BY <1>11, <1>12, <3>1
    <3>2. CASE a \in Begins(fromspace) /\ a # c
      <4>1. mem'[a] = mem[a] /\ mem[a].forwarding = NULL /\ PointsInto(a, fromspace)
        BY <1>1, <1>2, <1>12, <3>2 DEF IdleInv, Begins
      <4> QED
        BY <2>1, <4>1 DEF PointsInto
    <3> QED
      BY <1>18, <2>2, <3>1, <3>2
  <2>3. c # NULL
    BY <1>8, ValueAssumption
  <2> QED
    BY <1>1, <1>2, <1>7, <1>18, <2>1, <2>2, <2>3 DEF IdleInv
<1> QED
  BY <1>1, <1>14, <1>15, <1>16, <1>17, <1>19, <1>20 DEF HeapInv, Copying, Updating

-----------------------------------------------------------------------------
(* The theorems                                                            *)

LEMMA HeapInit == ShortTuples /\ Init => HeapInv
<1> SUFFICES ASSUME ShortTuples, Init PROVE HeapInv
  OBVIOUS
<1>1. /\ mem = [a \in Addr |-> NULL] /\ size = [s \in {"A", "B"} |-> 0]
      /\ fromspace = "A" /\ free_ptr = 0 /\ rootstack = <<>> /\ reg = NULL
      /\ pc = "boot" /\ ret = "client" /\ req = [n |-> 0, isptr |-> {}]
      /\ scan_ptr = 0 /\ end_ptr = 0 /\ idx = 1
  BY DEF Init
<1>2. 0 \in 0..HeapBound
  BY SizeAssumption
<1>3. TypeOK
  BY <1>1, <1>2 DEF TypeOK, Ptr
<1>4. SizeInv
  BY SizeInit
<1>5. ShapeInv /\ ReqInv
  BY <1>1, SizeAssumption DEF ShapeInv, ReqInv
<1>6. \A s : Begins(s) = {}
  BY <1>1 DEF Begins
<1>7. LayoutInv
  BY <1>1, <1>6 DEF LayoutInv, TiledUpTo
<1>8. IdleInv
  BY <1>1, <1>6 DEF IdleInv, Refs
<1> QED
  BY <1>1, <1>3, <1>4, <1>5, <1>7, <1>8
     DEF HeapInv, GrowInv, Growing, Collecting, Copying, Updating

LEMMA HeapStutter == HeapInv /\ UNCHANGED vars => HeapInv'
<1> SUFFICES ASSUME HeapInv, UNCHANGED vars PROVE HeapInv'
  OBVIOUS
<1>1. UNCHANGED <<mem, size, fromspace, free_ptr, rootstack, reg, pc, ret, req,
                  scan_ptr, end_ptr, idx>>
  BY DEF vars
<1>2. ShapeInv' /\ LayoutInv' /\ tospace' = tospace
      /\ \A s : Begins(s)' = Begins(s) /\ Refs(s)' = Refs(s)
      /\ \A a, t : PointsInto(a, t)' <=> PointsInto(a, t)
  BY <1>1, HeapSame DEF heapVars
<1>3. SizeInv'
  BY SizeStep DEF HeapInv
<1>4. TypeOK' /\ ReqInv' /\ GrowInv'
  BY <1>1 DEF HeapInv, TypeOK, ReqInv, GrowInv, Growing, Collecting, Copying,
     bytes, tospace
<1>5. Idle' => IdleInv'
  BY <1>1 DEF HeapInv, Idle, Dead, Copying, Updating, IdleInv, Refs, Begins,
     PointsInto, tospace, bytes
<1>6. Copying' => CopyInv'
  BY <1>1 DEF HeapInv, Copying, CopyInv, ForwardInv, TiledUpTo, EndOf, Refs,
     Begins, PointsInto, Scanned, IsTuple, To, tospace
<1>7. Updating' => UpdateInv'
  BY <1>1 DEF HeapInv, Updating, UpdateInv, Refs, Begins, PointsInto, tospace
<1> QED
  BY <1>2, <1>3, <1>4, <1>5, <1>6, <1>7 DEF HeapInv

LEMMA HeapStep == ShortTuples /\ HeapInv /\ [Next]_vars => HeapInv'
<1> SUFFICES ASSUME ShortTuples, HeapInv, [Next]_vars PROVE HeapInv'
  OBVIOUS
<1>1. ASSUME NEW h \in HeapSizes, GcInit(h) PROVE HeapInv'
  BY <1>1, GcInitStep
<1>2. CASE Client
  BY <1>2, ClientStep, CallCollectStep
<1>3. CASE Fill
  BY <1>3, FillStep
<1>4. CASE Collector
  <2>1. CASE RootAbort \/ ScanAbort \/ UpdateCrash
    BY <2>1, DeadStep DEF RootAbort, ScanAbort, UpdateCrash
  <2> QED
    BY <1>4, <2>1, RootSkipStep, RootCopyStep, RootsDoneStep, ScanSkipStep,
       ScanForwardedStep, ScanCopyStep, ScanNextStep, SwapStep, UpdateRootStep,
       UpdateDoneStep DEF Collector
<1>5. CASE Allocator
  <2>1. CASE GrowCrash \/ ReallocAbort
    BY <2>1, DeadStep DEF GrowCrash, ReallocAbort
  <2> QED
    BY <1>5, <2>1, AllocFitsStep, AllocShrinkStep, GrowStep, GrowBackStep,
       NewTupleStep DEF Allocator
<1>6. CASE UNCHANGED vars
  BY <1>6, HeapStutter
<1> QED
  BY <1>1, <1>2, <1>3, <1>4, <1>5, <1>6 DEF Next

\* The inductive invariant: what is true of the heap while the program runs,
\* while psc_gccollect copies and while it updates the roots.
THEOREM HeapInvariant == ASSUME ShortTuples PROVE Spec => []HeapInv
<1>1. Init => HeapInv
  BY HeapInit
<1>2. HeapInv /\ [Next]_vars => HeapInv'
  BY HeapStep
<1> QED
  BY <1>1, <1>2, PTL DEF Spec

\* The variables of the runtime have their types.
THEOREM TypeOKHolds == ASSUME ShortTuples PROVE Spec => []TypeOK
<1>1. HeapInv => TypeOK
  BY DEF HeapInv
<1> QED
  BY <1>1, HeapInvariant, PTL

\* Memory is handed out by psc_newtuple and by the collector without gap or
\* overlap.
THEOREM HeapTiledHolds == ASSUME ShortTuples PROVE Spec => []HeapTiled
<1>1. HeapInv => HeapTiled
  BY DEF HeapInv, LayoutInv, CopyInv, Copying, HeapTiled
<1> QED
  BY <1>1, HeapInvariant, PTL

\* The copying loops, which do not compare end_ptr with tospace_end, never
\* run past it.
THEOREM CopiesFitHolds == ASSUME ShortTuples PROVE Spec => []CopiesFit
<1>1. ASSUME HeapInv, Copying PROVE CopiesFit
  BY <1>1, CopiesRoom DEF CopiesFit, CopySpace, Copying
<1>2. ASSUME HeapInv, Updating PROVE CopiesFit
  BY <1>2 DEF HeapInv, UpdateInv, LayoutInv, CopiesFit, CopySpace, Updating
<1>3. HeapInv => CopiesFit
  BY <1>1, <1>2 DEF CopiesFit, Collecting, Copying, Updating
<1> QED
  BY <1>3, HeapInvariant, PTL

\* What psc_alloc hands out lies in from-space, by whichever of its paths.
THEOREM AllocInBoundsHolds == ASSUME ShortTuples PROVE Spec => []AllocInBounds
<1>1. HeapInv => AllocInBounds
  BY DEF HeapInv, IdleInv, Idle, Dead, Copying, Updating, AllocInBounds
<1> QED
  BY <1>1, HeapInvariant, PTL

\* The assertions of psc_gccollect on the pointers it meets never fail.
THEOREM CollectorAssertsHolds == ASSUME ShortTuples PROVE Spec => []CollectorAsserts
<1>1. ASSUME HeapInv, NEW p \in Begins(fromspace) PROVE InFrom(p)
  <2>1. TypeOK /\ LayoutInv
    BY <1>1 DEF HeapInv
  <2>2. free_ptr \in Nat /\ size[fromspace] \in Nat /\ free_ptr <= size[fromspace]
    BY <2>1, SpaceFacts DEF TypeOK, LayoutInv
  <2>3. p[2] < free_ptr
    BY <1>1, <2>1, <2>2, TilingEnds DEF LayoutInv
  <2>4. p \in Addr /\ p[1] = fromspace
    BY DEF Begins
  <2>5. p[2] \in Nat
    BY <2>4, AddrFacts
  <2> QED
    BY <2>2, <2>3, <2>4, <2>5 DEF InFrom
<1>2. ASSUME HeapInv, RootLoop, Root(idx) # NULL PROVE InFrom(Root(idx))
  <2>1. Copying /\ CopyInv
    BY <1>2 DEF HeapInv, RootLoop, Copying
  <2>2. Root(idx) \in Begins(fromspace)
    BY <1>2, <2>1 DEF CopyInv, RootLoop, Root, Refs
  <2> QED
    BY <1>1, <1>2, <2>2
<1>3. ASSUME HeapInv, ScanPtr PROVE InFrom(cur.elem[idx])
  <2>1. /\ Scanning /\ idx \in cur.isptr /\ cur.elem[idx] # NULL
    BY <1>3 DEF ScanPtr, ScanElem
  <2>2. /\ CopyInv /\ To(scan_ptr) \in Begins(tospace) /\ cur = mem[To(scan_ptr)]
        /\ To(scan_ptr)[2] = scan_ptr /\ scan_ptr \in Nat /\ idx \in Nat
    BY <1>3, <2>1, ScanFacts
  <2>3. cur.elem[idx] \in Begins(fromspace)
    BY <2>1, <2>2 DEF CopyInv, Scanned, Refs
  <2> QED
    BY <1>1, <1>3, <2>3
<1>4. ASSUME HeapInv, pc = "scan" PROVE scan_ptr <= size[tospace]
  <2>1. /\ Copying /\ CopyInv /\ TypeOK
    BY <1>4 DEF HeapInv, Copying
  <2>2. /\ scan_ptr <= end_ptr /\ end_ptr <= size[tospace]
    BY <1>4, <2>1, CopiesRoom DEF CopyInv
  <2>3. scan_ptr \in Nat /\ end_ptr \in Nat /\ size[tospace] \in Nat
    BY <2>1, SpaceFacts DEF TypeOK
  <2> QED
    BY <2>2, <2>3
<1>5. ASSUME HeapInv, UpdateLoop, Root(idx) # NULL
      PROVE  mem[Root(idx)].forwarding # NULL
  <2>1. UpdateInv /\ TypeOK
    BY <1>5 DEF HeapInv, UpdateLoop, Updating
  <2>2. ~(idx < idx)
    BY <2>1 DEF TypeOK
  <2>3. mem[Root(idx)].forwarding \in Begins(fromspace)
    BY <1>5, <2>1, <2>2 DEF UpdateInv, UpdateLoop, Root
  <2> QED
    BY <2>3, ValueAssumption DEF Begins
<1>6. HeapInv => CollectorAsserts
  BY <1>2, <1>3, <1>4, <1>5 DEF CollectorAsserts
<1> QED
  BY <1>6, HeapInvariant, PTL

-----------------------------------------------------------------------------
(* What tuples hold                                                        *)

LEMMA PcFacts ==
  ASSUME TypeOK
  PROVE  /\ Copying  <=> pc = "roots" \/ pc = "scan"
         /\ Updating <=> pc = "update"
         /\ Collecting <=> Copying \/ Updating
BY DEF Copying, Updating, Collecting

LEMMA BeginsFacts ==
  /\ \A s : \A a \in Begins(s) : a \in Addr /\ mem[a] # NULL /\ a[1] = s /\ a # NULL
  /\ \A s : NULL \notin Begins(s)
BY ValueAssumption DEF Begins

-----------------------------------------------------------------------------
(* Steps outside the copying loops                                         *)

\* The tuples of from-space are what they were.
LEMMA ContentQuiet ==
  ASSUME ContentInv, UNCHANGED <<mem, fromspace>>, ~Copying', ~Updating',
         pc' = "fill" => pc = "fill" /\ reg' = reg, AskedInv'
  PROVE  ContentInv'
<1>1. Begins(fromspace)' = Begins(fromspace)
  BY DEF Begins
<1>2. NamesInv'
  BY <1>1 DEF ContentInv, NamesInv
<1>3. DataInv'
  BY <1>1 DEF ContentInv, DataInv
<1> QED
  BY <1>2, <1>3 DEF ContentInv

\* psc_gccollect is entered: nothing has been copied.
LEMMA ContentCollect ==
  ASSUME HeapInv, ContentInv, Idle, NEW r \in {"client", "retry", "grown"},
         Collect(r), UNCHANGED <<mem, fromspace>>, AskedInv'
  PROVE  ContentInv'
<1>1. Begins(fromspace)' = Begins(fromspace) /\ pc' = "roots"
  BY DEF Begins, Collect
<1>2. \A a \in Begins(fromspace) : mem[a].forwarding = NULL
  BY DEF HeapInv, IdleInv
<1>3. NamesInv' /\ DataInv'
  BY <1>1 DEF ContentInv, NamesInv, DataInv
<1>4. CopiedInv' /\ NeededInv'
  BY <1>1, <1>2 DEF CopiedInv, NeededInv
<1> QED
  BY <1>1, <1>3, <1>4 DEF ContentInv, Updating

LEMMA ContentClient ==
  ASSUME HeapInv, ContentInv, Client
  PROVE  ContentInv'
<1> USE DEF heapVars, clientVars, collectVars
<1>1. CASE CallCollect
  <2>1. Idle /\ Collect("client")
    BY <1>1 DEF CallCollect, Idle, Dead, Copying, Updating
  <2>2. AskedInv'
    BY <2>1 DEF Collect, AskedInv
  <2> QED
    BY <1>1, <2>1, <2>2, ContentCollect DEF CallCollect
<1>2. ASSUME NEW n \in NElems, NEW isptr, CallNewTuple(n, isptr)
      PROVE  ContentInv'
  <2>1. /\ pc' = "alloc" /\ req'.n = n /\ UNCHANGED <<mem, fromspace>>
    BY <1>2 DEF CallNewTuple
  <2> QED
    BY <2>1, ContentQuiet DEF AskedInv, Copying, Updating
<1>3. ASSUME pc = "client", UNCHANGED <<mem, fromspace, pc>>
      PROVE  ContentInv'
  BY <1>3, ContentQuiet DEF AskedInv, Collecting, Copying, Updating
<1>4. ASSUME NEW v, PushRoot(v) PROVE ContentInv'
  BY <1>3, <1>4 DEF PushRoot
<1>5. ASSUME NEW j, StoreRoot(j) \/ LoadRoot(j) PROVE ContentInv'
  BY <1>3, <1>5 DEF StoreRoot, LoadRoot
<1>6. ASSUME NEW j, NEW k, GetElem(j, k) PROVE ContentInv'
  BY <1>3, <1>6 DEF GetElem
<1>7. CASE PopRoot
  BY <1>3, <1>7 DEF PopRoot
<1> QED
  BY <1>1, <1>2, <1>4, <1>5, <1>6, <1>7 DEF Client

\* The steps that end a call, the process, or move psc_alloc on.
LEMMA ContentAlloc ==
  ASSUME HeapInv, ContentInv,
         \/ \E h \in HeapSizes : GcInit(h)
         \/ RootAbort \/ ScanAbort \/ UpdateCrash
         \/ AllocFits \/ AllocShrink \/ Grow \/ GrowCrash \/ GrowBack
         \/ ReallocAbort
  PROVE  ContentInv'
<1> USE DEF heapVars, clientVars, collectVars
<1>1. ASSUME UNCHANGED <<mem, fromspace>>, pc' \in {"client", "crash", "abort"}
      PROVE  ContentInv'
  BY <1>1, ContentQuiet DEF AskedInv, Collecting, Copying, Updating
<1>2. CASE \E h \in HeapSizes : GcInit(h)
  BY <1>1, <1>2 DEF GcInit
<1>3. CASE RootAbort \/ ScanAbort \/ UpdateCrash \/ GrowCrash \/ ReallocAbort
  BY <1>1, <1>3 DEF RootAbort, ScanAbort, UpdateCrash, GrowCrash, ReallocAbort
<1>4. CASE AllocFits \/ GrowBack
  <2>1. /\ pc \in {"alloc", "retry", "grown"} /\ pc' = "bump"
        /\ UNCHANGED <<mem, fromspace, req>>
    BY <1>4 DEF AllocFits, GrowBack
  <2>2. AskedInv'
    BY <2>1 DEF ContentInv, AskedInv
  <2> QED
    BY <2>1, <2>2, ContentQuiet DEF Copying, Updating
<1>5. CASE AllocShrink \/ Grow
  <2>1. PICK r \in {"retry", "grown"} :
          /\ pc \in {"alloc", "retry"} /\ Collect(r) /\ UNCHANGED <<mem, fromspace, req>>
    BY <1>5 DEF AllocShrink, Grow
  <2>2. AskedInv' /\ Idle
    BY <2>1 DEF ContentInv, AskedInv, Idle, Dead, Copying, Updating
  <2> QED
    BY <2>1, <2>2, ContentCollect
<1> QED
  BY <1>2, <1>3, <1>4, <1>5

LEMMA ContentFill ==
  ASSUME HeapInv, ContentInv, Fill
  PROVE  ContentInv'
<1>1. PICK n \in NElems :
        \E elem \in [1..n -> ToSet(rootstack) \cup {reg, NULL} \cup Data] : FillTuple(elem)
  BY DEF Fill
<1>2. PICK elem \in [1..n -> ToSet(rootstack) \cup {reg, NULL} \cup Data] : FillTuple(elem)
  BY <1>1
<1>3. /\ pc' = "client" /\ UNCHANGED <<fromspace, reg>>
      /\ \A k \in 1..n : k \notin mem[reg].isptr => elem[k] \in Data
  BY <1>2 DEF FillTuple, clientVars
<1>4. /\ reg \in Addr /\ mem[reg].len = n /\ mem[reg] # NULL
      /\ \A a \in Addr : a # reg => mem'[a] = mem[a]
      /\ mem'[reg] # NULL /\ mem'[reg].elem = elem
      /\ mem'[reg].len = mem[reg].len /\ mem'[reg].isptr = mem[reg].isptr
      /\ mem'[reg].id = mem[reg].id
  BY <1>2, FillEffect, BeginsFacts
<1>5. Begins(fromspace)' = Begins(fromspace)
  BY <1>3, <1>4 DEF Begins
<1>6. NamesInv'
  BY <1>4, <1>5, BeginsFacts DEF ContentInv, NamesInv
<1>7. DataInv'
  <2>1. ASSUME NEW a \in Begins(fromspace), NEW k \in 1..mem'[a].len, k \notin mem'[a].isptr
        PROVE  mem'[a].elem[k] \in Data \cup {JUNK}
    BY <1>3, <1>4, <2>1, BeginsFacts DEF ContentInv, DataInv
  <2> QED
    BY <1>3, <1>5, <2>1 DEF DataInv
<1> QED
  BY <1>3, <1>6, <1>7 DEF ContentInv, AskedInv, Collecting, Copying, Updating

LEMMA ContentNew ==
  ASSUME HeapInv, ContentInv, NewTuple
  PROVE  ContentInv'
<1>1. PICK c : c = From(free_ptr)
  OBVIOUS
<1>2. /\ c \in Addr /\ mem[c] = NULL
      /\ \A a \in Begins(fromspace) : mem[a].id # FreshId
      /\ \A a \in Addr : a # c => mem'[a] = mem[a]
      /\ mem'[c].len = req.n /\ mem'[c].elem = [k \in 1..req.n |-> JUNK]
      /\ mem'[c].id = FreshId
      /\ Begins(fromspace)' = Begins(fromspace) \cup {c}
  BY <1>1, NewTupleEffect
<1>3. pc' = "fill" /\ reg' = c
  BY <1>1 DEF NewTuple
<1>4. \A a \in Begins(fromspace) : a \in Addr /\ a # c /\ mem'[a] = mem[a]
  BY <1>2, BeginsFacts
<1>5. NamesInv'
  BY <1>2, <1>4 DEF ContentInv, NamesInv
<1>6. \A k \in 1..mem'[c].len : mem'[c].elem[k] = JUNK
  BY <1>2
<1>7. DataInv'
  BY <1>2, <1>3, <1>4, <1>6 DEF ContentInv, DataInv
<1> QED
  BY <1>3, <1>5, <1>7 DEF ContentInv, AskedInv, Collecting, Copying, Updating

-----------------------------------------------------------------------------
(* The copying loops                                                       *)

\* Nothing happens to the tuples of from-space but that some get a copy.
OriginalsSame ==
  /\ UNCHANGED <<fromspace, rootstack, ret, req>>
  /\ Begins(fromspace)' = Begins(fromspace)
  /\ \A a \in Begins(fromspace) :
       /\ mem'[a].len = mem[a].len /\ mem'[a].isptr = mem[a].isptr
       /\ mem'[a].id = mem[a].id
       /\ \A k \in 1..mem[a].len : mem'[a].elem[k] = mem[a].elem[k]
       /\ mem[a].forwarding # NULL => mem'[a].forwarding = mem[a].forwarding

\* Element k of copy d is as it was, or has been found to be NULL, or has
\* been made to lead to a copy.
ElementStep(d, k) ==
  \/ /\ mem'[d].elem[k] = mem[d].elem[k]
     /\ k \in mem[d].isptr
          => (Scanned(d, k)' <=> Scanned(d, k)) \/ mem[d].elem[k] = NULL
  \/ /\ k \in mem[d].isptr /\ ~Scanned(d, k) /\ Scanned(d, k)'
     /\ mem[d].elem[k] \in Begins(fromspace)
     /\ mem'[d].elem[k] = mem'[mem[d].elem[k]].forwarding
     /\ mem'[d].elem[k] # NULL

CopiesStep ==
  \A d \in Begins(tospace) :
    /\ mem'[d].isptr = mem[d].isptr /\ mem'[d].id = mem[d].id
    /\ \A k \in 1..mem[d].len : ElementStep(d, k)

\* S is closed and holds the roots.
Holds(S) ==
  /\ \A j \in DOMAIN rootstack : rootstack[j] \in S \cup {NULL}
  /\ Closed(S)

\* A tuple that is copied now is copied whole, and something needs it.
NewCopies ==
  \A a \in Begins(fromspace) :
    mem[a].forwarding = NULL /\ mem'[a].forwarding # NULL =>
      /\ IsCopy(mem[a].forwarding, a)'
      /\ \A S \in SUBSET Begins(fromspace) : Holds(S) => a \in S

LEMMA CopiedStep ==
  ASSUME HeapInv, Copying, CopiedInv, OriginalsSame, CopiesStep, NewCopies
  PROVE  CopiedInv'
<1>1. ForwardInv /\ ShapeInv /\ TypeOK
  BY DEF HeapInv, CopyInv
<1> SUFFICES ASSUME NEW a \in Begins(fromspace), mem'[a].forwarding # NULL
             PROVE  IsCopy(mem[a].forwarding, a)'
  BY DEF CopiedInv, OriginalsSame
<1>2. CASE mem[a].forwarding = NULL
  BY <1>2 DEF NewCopies
<1>3. CASE mem[a].forwarding # NULL
  <2>1. PICK d : d = mem[a].forwarding
    OBVIOUS
  <2>2. /\ d \in Begins(tospace) /\ mem[d].len = mem[a].len /\ IsCopy(d, a)
        /\ mem'[a].forwarding = d
    BY <1>1, <1>3, <2>1 DEF ForwardInv, CopiedInv, OriginalsSame
  <2>3. /\ mem'[d].isptr = mem'[a].isptr /\ mem'[d].id = mem'[a].id
        /\ mem'[a].isptr = mem[a].isptr /\ mem'[a].len = mem[a].len
        /\ mem[d].isptr = mem[a].isptr
    BY <2>2 DEF IsCopy, CopiesStep, OriginalsSame
  <2>4. ASSUME NEW k \in 1..mem[a].len
        PROVE  IF k \in mem[a].isptr /\ Scanned(d, k)'
                 THEN /\ mem'[d].elem[k] = Forwarded(mem[a].elem[k])'
                      /\ mem'[a].elem[k] # NULL => mem'[d].elem[k] # NULL
                 ELSE mem'[d].elem[k] = mem'[a].elem[k]
    <3>1. PICK p, q, r, s : /\ p = mem[a].elem[k] /\ q = mem[d].elem[k]
                            /\ r = mem'[d].elem[k] /\ s = mem'[a].elem[k]
      OBVIOUS
    <3>2. s = p
      BY <3>1 DEF OriginalsSame
    <3>3. ElementStep(d, k)
      BY <2>2 DEF CopiesStep
    <3>4. k \in mem[a].isptr => p \in Begins(fromspace) \/ p = NULL
      BY <3>1 DEF HeapInv, CopyInv, PointsInto, Refs
    <3>5. CASE k \notin mem[a].isptr
      BY <2>2, <2>3, <3>1, <3>2, <3>3, <3>5 DEF ElementStep, IsCopy
    <3>6. CASE k \in mem[a].isptr /\ Scanned(d, k)
      <4>1. q = Forwarded(p) /\ (p # NULL => q # NULL)
        BY <2>2, <3>1, <3>6 DEF IsCopy
      <4>2. Forwarded(p)' = Forwarded(p)
        <5>1. CASE p = NULL
          BY <5>1 DEF Forwarded
        <5>2. CASE p # NULL
          <6>1. p \in Begins(fromspace) /\ mem[p].forwarding # NULL
            BY <3>4, <3>6, <4>1, <5>2 DEF Forwarded
          <6> QED
            BY <5>2, <6>1 DEF Forwarded, OriginalsSame
        <5> QED
          BY <5>1, <5>2
      <4>3. r = q /\ (Scanned(d, k)' \/ q = NULL)
        BY <2>3, <3>1, <3>3, <3>6 DEF ElementStep
      <4> QED
        BY <3>1, <3>2, <3>6, <4>1, <4>2, <4>3
    <3>7. CASE k \in mem[a].isptr /\ ~Scanned(d, k)
      <4>1. q = p
        BY <2>2, <3>1, <3>7 DEF IsCopy
      <4>2. CASE r = q /\ (~Scanned(d, k)' \/ q = NULL)
        BY <3>1, <3>2, <4>1, <4>2 DEF Forwarded
      <4>3. CASE /\ Scanned(d, k)' /\ p \in Begins(fromspace)
                 /\ r = mem'[p].forwarding /\ r # NULL
        <5>1. p # NULL
          BY <4>3, BeginsFacts
        <5> QED
          BY <3>1, <3>2, <3>7, <4>3, <5>1 DEF Forwarded
      <4> QED
        BY <2>3, <3>1, <3>3, <3>7, <4>1, <4>2, <4>3 DEF ElementStep
    <3> QED
      BY <3>5, <3>6, <3>7
  <2> QED
    BY <2>2, <2>3, <2>4 DEF IsCopy
<1> QED
  BY <1>2, <1>3

\* Holds reads nothing of a tuple that a step of the copying loops changes.
LEMMA HoldsSame ==
  ASSUME HeapInv, OriginalsSame, NEW S \in SUBSET Begins(fromspace)
  PROVE  Holds(S)' <=> Holds(S)
<1>1. \A a \in S : mem'[a].isptr = mem[a].isptr /\ mem[a].isptr \subseteq 1..mem[a].len
  BY BeginsFacts DEF OriginalsSame, HeapInv, ShapeInv
<1>2. \A a \in S : \A k \in mem[a].isptr : mem'[a].elem[k] = mem[a].elem[k]
  BY <1>1 DEF OriginalsSame
<1>3. Closed(S)' <=> Closed(S)
  BY <1>1, <1>2 DEF Closed
<1> QED
  BY <1>3 DEF Holds, OriginalsSame

LEMMA ContentCopying ==
  ASSUME HeapInv, ContentInv, Copying, Copying', OriginalsSame, CopiesStep, NewCopies
  PROVE  ContentInv'
<1>1. CopiedInv' /\ NeededInv
  BY CopiedStep DEF ContentInv
<1>2. NeededInv'
  <2> SUFFICES ASSUME NEW S \in SUBSET Begins(fromspace), Holds(S)',
                      NEW a \in Begins(fromspace), mem'[a].forwarding # NULL
               PROVE  a \in S
    BY DEF NeededInv, Holds, OriginalsSame
  <2>1. Holds(S)
    BY HoldsSame
  <2>2. CASE mem[a].forwarding = NULL
    BY <2>1, <2>2 DEF NewCopies
  <2>3. CASE mem[a].forwarding # NULL
    BY <1>1, <2>1, <2>3 DEF NeededInv, Holds
  <2> QED
    BY <2>2, <2>3
<1>3. NamesInv'
  BY DEF ContentInv, NamesInv, OriginalsSame
<1>4. DataInv'
  BY DEF ContentInv, DataInv, OriginalsSame, Copying
<1>5. AskedInv'
  BY DEF ContentInv, AskedInv, OriginalsSame, Collecting, Copying
<1> QED
  BY <1>1, <1>2, <1>3, <1>4, <1>5 DEF ContentInv, Copying, Updating

\* A step of a copying loop that leaves memory alone.
LEMMA ContentSame ==
  ASSUME HeapInv, ContentInv, Copying, Copying',
         UNCHANGED <<mem, fromspace, rootstack, ret, req>>,
         \A d \in Begins(tospace) : \A k \in mem[d].isptr :
           (Scanned(d, k)' <=> Scanned(d, k)) \/ mem[d].elem[k] = NULL
  PROVE  ContentInv'
<1>1. OriginalsSame /\ NewCopies
  BY DEF OriginalsSame, NewCopies, Begins
<1>2. CopiesStep
  BY DEF CopiesStep, ElementStep
<1> QED
  BY <1>1, <1>2, ContentCopying

LEMMA ContentLoops ==
  ASSUME HeapInv, ContentInv, RootSkip \/ RootsDone \/ ScanSkip \/ ScanNext
  PROVE  ContentInv'
<1> USE DEF heapVars, clientVars
<1>1. CASE RootSkip
  <2>1. pc = "roots" /\ pc' = "roots"
    BY <1>1 DEF RootSkip, RootLoop
  <2> QED
    BY <1>1, <2>1, ContentSame DEF RootSkip, Copying, Scanned
<1>2. CASE RootsDone
  <2>1. pc = "roots" /\ pc' = "scan" /\ idx' = 1 /\ scan_ptr' = scan_ptr
    BY <1>2 DEF RootsDone
  <2>2. CopyInv /\ TypeOK /\ scan_ptr = 0
    BY <2>1 DEF HeapInv, CopyInv, Copying
  <2>3. ASSUME NEW d \in Begins(tospace), NEW k \in mem[d].isptr
        PROVE  ~Scanned(d, k)' /\ ~Scanned(d, k)
    <3>1. d[2] \in Nat /\ k \in 1..MaxElem
      BY <2>2, AddrFacts, TupleFacts DEF Begins
    <3>2. ~(d[2] < 0) /\ ~(k < 1)
      BY <3>1, SizeAssumption
    <3> QED
      BY <2>1, <2>2, <3>2 DEF Scanned
  <2> QED
    BY <1>2, <2>1, <2>3, ContentSame DEF RootsDone, Copying
<1>3. CASE ScanSkip
  <2>1. /\ Scanning /\ (idx \in cur.isptr => cur.elem[idx] = NULL)
        /\ idx' = idx + 1 /\ UNCHANGED <<pc, scan_ptr>>
    BY <1>3 DEF ScanSkip, ScanElem
  <2>2. pc = "scan" /\ TypeOK /\ cur = mem[To(scan_ptr)]
    BY <2>1, ScanFacts
  <2>3. ASSUME NEW d \in Begins(tospace), NEW k \in mem[d].isptr
        PROVE  (Scanned(d, k)' <=> Scanned(d, k)) \/ mem[d].elem[k] = NULL
    <3>1. k \in Nat
      BY <2>2, TupleFacts, SizeAssumption DEF Begins
    <3>2. Scanned(d, k)' <=> Scanned(d, k) \/ (d = To(scan_ptr) /\ k = idx)
      BY <2>1, <3>1, ScanAdvance
    <3> QED
      BY <2>1, <2>2, <3>2
  <2> QED
    BY <1>3, <2>1, <2>2, <2>3, ContentSame DEF ScanSkip, Copying
<1>4. CASE ScanNext
  <2>1. pc = "scan" /\ pc' = "scan"
    BY <1>4 DEF ScanNext, Scanning
  <2> QED
    BY <1>4, <2>1, ScanNextScanned, ContentSame DEF ScanNext, Copying
<1> QED
  BY <1>1, <1>2, <1>3, <1>4

LEMMA ContentRootCopy ==
  ASSUME HeapInv, ContentInv, RootCopy
  PROVE  ContentInv'
<1>1. PICK p, c : p = rootstack[idx] /\ c = To(end_ptr)
  OBVIOUS
<1>2. /\ pc = "roots" /\ pc' = "roots" /\ idx \in DOMAIN rootstack /\ p # NULL
      /\ mem[p].forwarding = NULL /\ mem' = CopyTo(mem, p)
      /\ end_ptr' = end_ptr + Size(mem[p])
      /\ UNCHANGED <<size, fromspace, free_ptr, rootstack, ret, req>>
  BY <1>1 DEF RootCopy, RootLoop, Root, clientVars
<1>3. Copying /\ Copying' /\ CopyInv /\ ShapeInv /\ HeapInv'
  BY <1>2, RootCopyStep DEF Copying, HeapInv
<1>4. p \in Begins(fromspace)
  BY <1>1, <1>2, <1>3 DEF CopyInv, Refs
<1>5. /\ AfterCopy(p)
      /\ \A a \in Addr : mem[a] # NULL => mem'[a].elem = mem[a].elem
      /\ mem'[c].elem = mem[p].elem
  BY <1>1, <1>2, <1>3, <1>4, CopyToAfter
<1>6. /\ Begins(fromspace)' = Begins(fromspace)
      /\ \A a \in Begins(fromspace) \cup Begins(tospace) : a \in Addr /\ mem[a] # NULL
  BY <1>2, <1>3, <1>4, <1>5, AfterCopySpaces, BeginsFacts
<1>7. OriginalsSame
  BY <1>2, <1>5, <1>6 DEF OriginalsSame, AfterCopy
<1>8. CopiesStep
  BY <1>2, <1>5, <1>6 DEF CopiesStep, ElementStep, AfterCopy, Scanned
<1>9. \A a \in Begins(fromspace) :
        mem[a].forwarding = NULL /\ mem'[a].forwarding # NULL => a = p
  BY <1>5, <1>6 DEF AfterCopy
<1>10. IsCopy(mem[p].forwarding, p)'
  <2>1. mem'[p].forwarding = c /\ mem'[c].id = mem'[p].id /\ mem'[c].isptr = mem'[p].isptr
    BY <1>1, <1>4, <1>5, <1>6 DEF AfterCopy
  <2>2. \A k : mem'[c].elem[k] = mem'[p].elem[k] /\ ~Scanned(c, k)'
    BY <1>2, <1>4, <1>5, <1>6 DEF Scanned
  <2> QED
    BY <2>1, <2>2 DEF IsCopy
<1>11. \A S \in SUBSET Begins(fromspace) : Holds(S) => p \in S
  BY <1>1, <1>2 DEF Holds
<1>12. NewCopies
  BY <1>9, <1>10, <1>11 DEF NewCopies
<1> QED
  BY <1>3, <1>7, <1>8, <1>12, ContentCopying

LEMMA ContentScanForwarded ==
  ASSUME HeapInv, ContentInv, ScanForwarded
  PROVE  ContentInv'
<1>1. PICK c, q, v : /\ c = To(scan_ptr) /\ q = mem[c].elem[idx]
                     /\ v = mem[q].forwarding
  OBVIOUS
<1>2. /\ Scanning /\ idx \in cur.isptr
      /\ q \in Begins(fromspace) /\ v \in Begins(tospace) /\ v # NULL
      /\ StoredAt(mem, mem', c, idx, v)
      /\ idx' = idx + 1
      /\ UNCHANGED <<fromspace, rootstack, pc, ret, req, scan_ptr>>
  BY <1>1, ScanForwardedEffect
<1>3. /\ pc = "scan" /\ Copying /\ ShapeInv /\ TypeOK /\ idx \in Nat /\ cur = mem[c]
      /\ c \in Begins(tospace) /\ tospace # fromspace /\ scan_ptr \in Nat
      /\ c[2] = scan_ptr
  BY <1>1, <1>2, ScanFacts
<1>4. /\ Begins(fromspace)' = Begins(fromspace) /\ Copying'
      /\ \A a \in Begins(fromspace) : a \in Addr /\ mem[a] # NULL /\ a # c
      /\ \A a \in Begins(tospace) : a \in Addr /\ mem[a] # NULL
      /\ \A a \in Addr : mem[a] # NULL =>
           Len(mem[a].elem) = mem[a].len /\ mem[a].isptr \subseteq Nat
  BY <1>2, <1>3, TupleFacts, SizeAssumption DEF StoredAt, Begins, Copying, ShapeInv
<1>5. OriginalsSame /\ NewCopies
  BY <1>2, <1>4 DEF OriginalsSame, NewCopies, StoredAt
<1>6. ASSUME NEW d \in Begins(tospace), NEW k \in 1..mem[d].len
      PROVE  ElementStep(d, k)
  <2>1. k \in Nat /\ (Scanned(d, k)' <=> Scanned(d, k) \/ (d = c /\ k = idx))
    <3>1. mem[d].len \in Nat
      BY <1>3, <1>4, TupleFacts, SizeAssumption
    <3>2. k \in Nat
      BY <3>1
    <3> QED
      BY <1>1, <1>2, <3>2, ScanAdvance
  <2>2. CASE d = c /\ k = idx
    <3>1. ~Scanned(d, k)
      BY <1>3, <2>2 DEF Scanned
    <3>2. mem'[c].elem[idx] = v /\ mem'[q].forwarding = v
      BY <1>1, <1>2, <1>4 DEF StoredAt
    <3> QED
      BY <1>1, <1>2, <1>3, <2>1, <2>2, <3>1, <3>2 DEF ElementStep
  <2>3. CASE d # c \/ k # idx
    BY <1>2, <1>4, <2>1, <2>3 DEF ElementStep, StoredAt
  <2> QED
    BY <2>2, <2>3
<1>7. CopiesStep
  BY <1>2, <1>4, <1>6 DEF CopiesStep, StoredAt
<1> QED
  BY <1>3, <1>4, <1>5, <1>7, ContentCopying

\* The tuple that is copied is needed, because the copy being scanned is the
\* copy of a tuple that is.
LEMMA ContentScanCopy ==
  ASSUME HeapInv, ContentInv, ScanCopy
  PROVE  ContentInv'
<1>1. PICK c, p, n : c = To(scan_ptr) /\ p = mem[c].elem[idx] /\ n = To(end_ptr)
  OBVIOUS
<1>2. /\ Scanning /\ idx \in cur.isptr
      /\ p \in Begins(fromspace) /\ mem[p].forwarding = NULL
      /\ n \in Addr /\ n[2] = end_ptr /\ mem[n] = NULL /\ n # p /\ n # c
      /\ idx' = idx + 1
      /\ UNCHANGED <<fromspace, rootstack, pc, ret, req, scan_ptr>>
  BY <1>1, ScanCopyEffect
<1>3. /\ \A a \in Addr : mem'[a] # NULL <=> mem[a] # NULL \/ a = n
      /\ \A a \in Addr : mem[a] # NULL =>
           /\ mem'[a].len = mem[a].len /\ mem'[a].isptr = mem[a].isptr
           /\ mem'[a].id = mem[a].id
           /\ a # p => mem'[a].forwarding = mem[a].forwarding
           /\ \A j \in 1..Len(mem[a].elem) :
                a # c \/ j # idx => mem'[a].elem[j] = mem[a].elem[j]
      /\ mem'[c].elem[idx] = n
  BY <1>1, ScanCopyEffect
<1>4. /\ mem'[p].forwarding = n
      /\ mem'[n].isptr = mem[p].isptr /\ mem'[n].id = mem[p].id
      /\ \A j \in 1..Len(mem[p].elem) : mem'[n].elem[j] = mem[p].elem[j]
  BY <1>1, ScanCopyEffect
<1>5. /\ pc = "scan" /\ Copying /\ CopyInv /\ ShapeInv /\ TypeOK /\ idx \in Nat
      /\ cur = mem[c] /\ cur.isptr \subseteq 1..cur.len
      /\ c \in Begins(tospace) /\ tospace # fromspace /\ scan_ptr \in Nat
      /\ c[2] = scan_ptr /\ scan_ptr < end_ptr /\ end_ptr \in Nat
      /\ n[1] = tospace
  BY <1>1, <1>2, ScanFacts, CopyEffect
<1>6. /\ Begins(fromspace)' = Begins(fromspace) /\ Copying' /\ n # NULL
      /\ \A a \in Begins(fromspace) : a \in Addr /\ mem[a] # NULL /\ a # c
      /\ \A a \in Begins(tospace) : a \in Addr /\ mem[a] # NULL
      /\ \A a \in Addr : mem[a] # NULL =>
           Len(mem[a].elem) = mem[a].len /\ mem[a].isptr \subseteq Nat
  BY <1>2, <1>3, <1>5, TupleFacts, SizeAssumption, ValueAssumption
     DEF Begins, Copying, ShapeInv
<1>7. OriginalsSame
  BY <1>2, <1>3, <1>6 DEF OriginalsSame
<1>8. ASSUME NEW d \in Begins(tospace), NEW k \in 1..mem[d].len
      PROVE  ElementStep(d, k)
  <2>1. k \in Nat /\ (Scanned(d, k)' <=> Scanned(d, k) \/ (d = c /\ k = idx))
    <3>1. mem[d].len \in Nat
      BY <1>5, <1>6, TupleFacts, SizeAssumption
    <3>2. k \in Nat
      BY <3>1
    <3> QED
      BY <1>1, <1>2, <3>2, ScanAdvance
  <2>2. CASE d = c /\ k = idx
    <3>1. ~Scanned(d, k)
      BY <1>5, <2>2 DEF Scanned
    <3> QED
      BY <1>1, <1>2, <1>3, <1>4, <1>5, <1>6, <2>1, <2>2, <3>1 DEF ElementStep
  <2>3. CASE d # c \/ k # idx
    BY <1>3, <1>6, <2>1, <2>3 DEF ElementStep
  <2> QED
    BY <2>2, <2>3
<1>9. CopiesStep
  BY <1>3, <1>6, <1>8 DEF CopiesStep
<1>10. IsCopy(mem[p].forwarding, p)'
  <2>1. \A k : ~Scanned(n, k)'
    BY <1>2, <1>5 DEF Scanned
  <2>2. \A k \in 1..mem[p].len : mem'[n].elem[k] = mem'[p].elem[k]
    BY <1>2, <1>3, <1>4, <1>6
  <2>3. mem'[n].id = mem'[p].id /\ mem'[n].isptr = mem'[p].isptr /\ mem'[p].len = mem[p].len
    BY <1>2, <1>3, <1>4, <1>6
  <2> QED
    BY <1>4, <2>1, <2>2, <2>3 DEF IsCopy
<1>11. ASSUME NEW S \in SUBSET Begins(fromspace), Holds(S) PROVE p \in S
  <2>1. PICK a \in Begins(fromspace) : mem[a].forwarding = c
    BY <1>5 DEF CopyInv, ForwardInv
  <2>2. mem[a].forwarding # NULL /\ mem[c].len = mem[a].len
    BY <1>5, <2>1, BeginsFacts DEF CopyInv, ForwardInv
  <2>3. a \in S
    BY <1>5, <1>11, <2>1, <2>2 DEF ContentInv, NeededInv, Holds
  <2>4. IsCopy(c, a)
    BY <1>5, <2>1, <2>2 DEF ContentInv, CopiedInv
  <2>5. ~Scanned(c, idx) /\ idx \in 1..mem[a].len /\ idx \in mem[a].isptr
    BY <1>2, <1>5, <2>2, <2>4 DEF Scanned, IsCopy
  <2>6. mem[a].elem[idx] = p
    BY <1>1, <2>4, <2>5 DEF IsCopy
  <2> QED
    BY <1>2, <1>11, <2>3, <2>5, <2>6, BeginsFacts DEF Holds, Closed
<1>12. NewCopies
  BY <1>3, <1>6, <1>10, <1>11 DEF NewCopies
<1> QED
  BY <1>5, <1>6, <1>7, <1>9, <1>12, ContentCopying

-----------------------------------------------------------------------------
(* The swap and the loop that updates the roots                            *)

\* What is true of copies and originals when everything has been scanned.
LEMMA CopiesDone ==
  ASSUME HeapInv, ContentInv, pc = "scan", ~Scanning,
         NEW a \in Begins(fromspace), mem[a].forwarding # NULL,
         NEW c, c = mem[a].forwarding
  PROVE  /\ c \in Begins(tospace) /\ mem[c].len = mem[a].len
         /\ mem[c].id = mem[a].id /\ mem[c].isptr = mem[a].isptr
         /\ \A k \in 1..mem[a].len :
              /\ k \notin mem[a].isptr => mem[c].elem[k] = mem[a].elem[k]
              /\ k \in mem[a].isptr =>
                   \/ mem[a].elem[k] = NULL /\ mem[c].elem[k] = NULL
                   \/ /\ mem[a].elem[k] \in Begins(fromspace)
                      /\ mem[mem[a].elem[k]].forwarding # NULL
                      /\ mem[c].elem[k] = mem[mem[a].elem[k]].forwarding
<1>1. CopyInv /\ ForwardInv /\ CopiedInv
  BY DEF HeapInv, Copying, CopyInv, ContentInv
<1>2. c \in Begins(tospace) /\ mem[c].len = mem[a].len /\ IsCopy(c, a)
  BY <1>1 DEF ForwardInv, CopiedInv
<1>3. \A k : Scanned(c, k)
  BY <1>2, AllScanned
<1>4. \A k \in mem[a].isptr : mem[a].elem[k] \in Begins(fromspace) \cup {NULL}
  BY <1>1 DEF CopyInv, PointsInto, Refs
<1> QED
  BY <1>2, <1>3, <1>4 DEF IsCopy, Forwarded

LEMMA ContentSwap ==
  ASSUME HeapInv, ContentInv, Swap
  PROVE  ContentInv'
<1>1. /\ pc = "scan" /\ ~Scanning /\ fromspace' = tospace
      /\ pc' = "update" /\ idx' = 1 /\ UNCHANGED <<mem, rootstack, ret, req>>
  BY DEF Swap, clientVars
<1>2. Copying /\ CopyInv /\ TypeOK /\ ForwardInv
  BY <1>1 DEF HeapInv, Copying, CopyInv
<1>3. Begins(fromspace)' = Begins(tospace)
  BY <1>1 DEF Begins
<1>4. \A c \in Begins(tospace) : \E a \in Begins(fromspace) :
        mem[a].forwarding = c /\ mem[a].forwarding # NULL
  BY <1>2, BeginsFacts DEF ForwardInv
<1>5. NamesInv'
  <2> SUFFICES ASSUME NEW c \in Begins(tospace), NEW d \in Begins(tospace),
                      mem[c].id = mem[d].id
               PROVE  c = d
    BY <1>1, <1>3 DEF NamesInv
  <2>1. PICK a \in Begins(fromspace) : mem[a].forwarding = c /\ mem[a].forwarding # NULL
    BY <1>4
  <2>2. PICK b \in Begins(fromspace) : mem[b].forwarding = d /\ mem[b].forwarding # NULL
    BY <1>4
  <2>3. mem[a].id = mem[c].id /\ mem[b].id = mem[d].id
    BY <1>1, <2>1, <2>2, CopiesDone
  <2> QED
    BY <2>1, <2>2, <2>3 DEF ContentInv, NamesInv
<1>6. DataInv'
  <2> SUFFICES ASSUME NEW c \in Begins(tospace), NEW k \in 1..mem[c].len,
                      k \notin mem[c].isptr
               PROVE  mem[c].elem[k] \in Data \cup {JUNK}
    BY <1>1, <1>3 DEF DataInv
  <2>1. PICK a \in Begins(fromspace) : mem[a].forwarding = c /\ mem[a].forwarding # NULL
    BY <1>4
  <2>2. mem[a].len = mem[c].len /\ k \notin mem[a].isptr /\ mem[c].elem[k] = mem[a].elem[k]
    BY <1>1, <2>1, CopiesDone
  <2> QED
    BY <2>2 DEF ContentInv, DataInv
<1>7. AskedInv'
  BY <1>1 DEF ContentInv, AskedInv, Collecting
<1>8. ASSUME NEW j \in DOMAIN rootstack, rootstack[j] # NULL
      PROVE  rootstack[j] \in Begins(fromspace) /\ mem[rootstack[j]].forwarding # NULL
  BY <1>1, <1>2, <1>8 DEF CopyInv, Refs
<1>9. RenamedInv'
  <2>1. ASSUME NEW j \in DOMAIN rootstack, rootstack[j] # NULL
        PROVE  mem[mem[rootstack[j]].forwarding].id = mem[rootstack[j]].id
    BY <1>1, <1>8, <2>1, CopiesDone
  <2> QED
    BY <1>1, <2>1 DEF RenamedInv
<1>10. KeptInv'
  <2> SUFFICES ASSUME NEW T \in SUBSET Begins(tospace),
                      \A j \in DOMAIN rootstack : NewRoot(j)' \in T \cup {NULL}, Closed(T)'
               PROVE  T = Begins(tospace)
    BY <1>1, <1>3 DEF KeptInv
  <2> DEFINE S == {a \in Begins(fromspace) :
                     mem[a].forwarding # NULL /\ mem[a].forwarding \in T}
  <2>1. \A j \in DOMAIN rootstack : rootstack[j] \in S \cup {NULL}
    <3> SUFFICES ASSUME NEW j \in DOMAIN rootstack, rootstack[j] # NULL
                 PROVE  rootstack[j] \in S
      OBVIOUS
    <3>1. ~(j < 1)
      BY <1>2 DEF TypeOK
    <3>2. NewRoot(j)' = mem[rootstack[j]].forwarding
      BY <1>1, <3>1 DEF NewRoot, Forwarded
    <3> QED
      BY <1>8, <3>2
  <2>2. ASSUME NEW a \in S, NEW k \in mem[a].isptr, mem[a].elem[k] # NULL
        PROVE  mem[a].elem[k] \in S
    <3>1. PICK c : c = mem[a].forwarding
      OBVIOUS
    <3>2. c \in T /\ a \in Begins(fromspace) /\ mem[a].forwarding # NULL
      BY <3>1
    <3>3. k \in 1..mem[a].len
      BY <3>2, BeginsFacts DEF HeapInv, ShapeInv
    <3>4. /\ mem[a].elem[k] \in Begins(fromspace)
          /\ mem[mem[a].elem[k]].forwarding # NULL
          /\ mem[c].elem[k] = mem[mem[a].elem[k]].forwarding
          /\ k \in mem[c].isptr
      BY <1>1, <2>2, <3>1, <3>2, <3>3, CopiesDone
    <3>5. mem[c].elem[k] \in T \cup {NULL}
      BY <1>1, <3>2, <3>4 DEF Closed
    <3> QED
      BY <3>4, <3>5
  <2>3. \A a \in Begins(fromspace) : mem[a].forwarding # NULL => a \in S
    <3>1. Closed(S)
      BY <2>2 DEF Closed
    <3>2. S \in SUBSET Begins(fromspace)
      OBVIOUS
    <3> HIDE DEF S
    <3> QED
      BY <1>2, <2>1, <3>1, <3>2 DEF ContentInv, NeededInv
  <2> QED
    BY <1>4, <2>3
<1> QED
  BY <1>1, <1>5, <1>6, <1>7, <1>9, <1>10 DEF ContentInv, Copying

LEMMA ContentUpdateRoot ==
  ASSUME HeapInv, ContentInv, UpdateRoot
  PROVE  ContentInv'
<1>1. /\ pc = "update" /\ pc' = "update" /\ idx \in DOMAIN rootstack
      /\ rootstack[idx] # NULL /\ idx' = idx + 1
      /\ rootstack' = [rootstack EXCEPT ![idx] = mem[rootstack[idx]].forwarding]
      /\ UNCHANGED <<mem, fromspace, ret, req>>
  BY DEF UpdateRoot, UpdateLoop, Root, heapVars
<1>2. TypeOK /\ idx \in Nat /\ DOMAIN rootstack' = DOMAIN rootstack
      /\ DOMAIN rootstack \subseteq Nat
  BY <1>1 DEF HeapInv, TypeOK
<1>3. Begins(fromspace)' = Begins(fromspace)
  BY <1>1 DEF Begins
<1>4. NamesInv' /\ DataInv' /\ AskedInv'
  BY <1>1, <1>3 DEF ContentInv, NamesInv, DataInv, AskedInv, Collecting
<1>5. RenamedInv /\ KeptInv
  BY <1>1 DEF ContentInv, Updating
<1>6. RenamedInv'
  <2>1. ASSUME NEW j \in DOMAIN rootstack, j >= idx + 1
        PROVE  rootstack'[j] = rootstack[j] /\ j >= idx
    BY <1>1, <1>2, <2>1
  <2> QED
    BY <1>1, <1>2, <1>5, <2>1 DEF RenamedInv
<1>7. \A j \in DOMAIN rootstack : NewRoot(j)' = NewRoot(j)
  <2> SUFFICES ASSUME NEW j \in DOMAIN rootstack PROVE NewRoot(j)' = NewRoot(j)
    OBVIOUS
  <2>1. CASE j = idx
    BY <1>1, <1>2, <2>1 DEF NewRoot, Forwarded
  <2>2. CASE j # idx
    <3>1. rootstack'[j] = rootstack[j] /\ (j < idx + 1 <=> j < idx)
      BY <1>1, <1>2, <2>2
    <3> QED
      BY <1>1, <3>1 DEF NewRoot, Forwarded
  <2> QED
    BY <2>1, <2>2
<1>8. KeptInv'
  BY <1>1, <1>2, <1>3, <1>5, <1>7 DEF KeptInv, Closed
<1> QED
  BY <1>1, <1>4, <1>6, <1>8 DEF ContentInv, Copying

LEMMA ContentUpdateDone ==
  ASSUME HeapInv, ContentInv, UpdateDone
  PROVE  ContentInv'
<1>1. /\ pc = "update" /\ pc' = ret
      /\ mem' = [a \in Addr |-> IF a[1] = fromspace THEN mem[a] ELSE NULL]
      /\ UNCHANGED <<fromspace, ret, req>>
  BY DEF UpdateDone
<1>2. ret \in {"client", "retry", "grown"}
  BY DEF HeapInv, TypeOK
<1>3. /\ Begins(fromspace)' = Begins(fromspace)
      /\ \A a \in Begins(fromspace) : mem'[a] = mem[a]
  BY <1>1 DEF Begins
<1>4. NamesInv' /\ DataInv'
  BY <1>1, <1>2, <1>3 DEF ContentInv, NamesInv, DataInv
<1>5. AskedInv'
  BY <1>1, <1>2 DEF ContentInv, AskedInv, Collecting
<1> QED
  BY <1>1, <1>2, <1>4, <1>5 DEF ContentInv, Copying, Updating

-----------------------------------------------------------------------------
(* The theorems                                                            *)

LEMMA ContentInit == Init => ContentInv
<1> SUFFICES ASSUME Init PROVE ContentInv
  OBVIOUS
<1>1. \A s : Begins(s) = {}
  BY DEF Init, Begins
<1> QED
  BY <1>1 DEF Init, ContentInv, NamesInv, DataInv, AskedInv, Collecting,
              Copying, Updating

LEMMA ContentStep == HeapInv /\ ContentInv /\ [Next]_vars => ContentInv'
<1> SUFFICES ASSUME HeapInv, ContentInv, [Next]_vars PROVE ContentInv'
  OBVIOUS
<1>1. CASE \E h \in HeapSizes : GcInit(h)
  BY <1>1, ContentAlloc
<1>2. CASE Client
  BY <1>2, ContentClient
<1>3. CASE Fill
  BY <1>3, ContentFill
<1>4. CASE Collector
  BY <1>4, ContentAlloc, ContentLoops, ContentRootCopy, ContentScanForwarded,
     ContentScanCopy, ContentSwap, ContentUpdateRoot, ContentUpdateDone DEF Collector
<1>5. CASE Allocator
  BY <1>5, ContentAlloc, ContentNew DEF Allocator
<1>6. CASE UNCHANGED vars
  <2>1. UNCHANGED <<mem, fromspace, rootstack, pc, ret, req, idx, scan_ptr>> /\ reg' = reg
    BY <1>6 DEF vars
  <2>2. Begins(fromspace)' = Begins(fromspace)
    BY <2>1 DEF Begins
  <2>3. NamesInv' /\ DataInv' /\ AskedInv'
    BY <2>1, <2>2 DEF ContentInv, NamesInv, DataInv, AskedInv, Collecting
  <2>4. CASE Copying
    BY <2>1, <2>4, ContentSame DEF Copying, Scanned
  <2>5. Updating' => RenamedInv' /\ KeptInv'
    BY <2>1, <2>2 DEF ContentInv, Updating, RenamedInv, KeptInv, NewRoot,
       Forwarded, Closed
  <2>6. Copying' <=> Copying
    BY <2>1 DEF Copying
  <2> QED
    BY <2>3, <2>4, <2>5, <2>6 DEF ContentInv
<1> QED
  BY <1>1, <1>2, <1>3, <1>4, <1>5, <1>6 DEF Next

\* Copying changes nothing but where tuples are, and copies nothing but what
\* the roots reach, at every step of a collection (lines 80 to 186).
THEOREM ContentInvariant == ASSUME ShortTuples PROVE Spec => []ContentInv
<1>1. Init => ContentInv
  BY ContentInit
<1>2. HeapInv /\ ContentInv /\ [Next]_vars => ContentInv'
  BY ContentStep
<1> QED
  BY <1>1, <1>2, HeapInvariant, PTL DEF Spec

\* What a collection leaves is the least closed set of tuples that holds the
\* roots: garbage in cycles goes too, and what both a root and a tuple lead to
\* is kept once.
THEOREM CollectPreciseHolds == ASSUME ShortTuples PROVE Spec => []CollectPrecise
<1>1. ASSUME HeapInv, ContentInv, pc = "update", idx = Len(rootstack) + 1,
             NEW S \in SUBSET Begins(fromspace),
             ToSet(rootstack) \ {NULL} \subseteq S,
             \A a \in S : \A k \in mem[a].isptr : mem[a].elem[k] \in S \cup {NULL}
      PROVE  S = Begins(fromspace)
  <2>1. \A j \in DOMAIN rootstack : NewRoot(j) = rootstack[j]
    <3>1. TypeOK /\ DOMAIN rootstack = 1..Len(rootstack) /\ Len(rootstack) \in Nat
      BY <1>1 DEF HeapInv, TypeOK
    <3>2. \A j \in DOMAIN rootstack : j < idx
      BY <1>1, <3>1
    <3> QED
      BY <3>2 DEF NewRoot
  <2>2. \A j \in DOMAIN rootstack : rootstack[j] \in S \cup {NULL}
    BY <1>1 DEF ToSet
  <2>3. Closed(S) /\ KeptInv
    BY <1>1 DEF Closed, ContentInv, Updating
  <2>4. \A j \in DOMAIN rootstack : NewRoot(j) \in S \cup {NULL}
    BY <2>1, <2>2
  <2> QED
    BY <1>1, <2>3, <2>4 DEF KeptInv
<1>2. HeapInv /\ ContentInv => CollectPrecise
  BY <1>1 DEF CollectPrecise
<1> QED
  BY <1>2, HeapInvariant, ContentInvariant, PTL
=============================================================================
