-------------------------- MODULE RuntimeRefineProof --------------------------
(***************************************************************************)
(* Module Runtime implements module TupleHeap when no tuple is longer than *)
(* isptr: the program cannot see that tuples move.  A step of the program  *)
(* or of psc_newtuple is the step of that name there; of a collection only *)
(* the swap can be seen, where unreachable tuples disappear; every other   *)
(* step of the runtime changes nothing the program can see.                *)
(***************************************************************************)
EXTENDS RuntimeStepsProof

-----------------------------------------------------------------------------
(* The mapping, as a function of the memory m and of the space s           *)

TuplesIn(m, s) == {a \in Addr : a[1] = s /\ m[a] # NULL}

IdIn(m, p) == IF p \notin Addr THEN p ELSE IF m[p] = NULL THEN JUNK ELSE m[p].id

\* Tuple a as module TupleHeap has it.
View(m, a) == [isptr |-> m[a].isptr,
               elem  |-> [k \in DOMAIN m[a].elem |-> IdIn(m, m[a].elem[k])]]

Named(m, s) == {m[a].id : a \in TuplesIn(m, s)}

HeapIn(m, s) ==
  [i \in Named(m, s) |-> View(m, CHOOSE a \in TuplesIn(m, s) : m[a].id = i)]

RootsIn(m, r) == [j \in DOMAIN r |-> IdIn(m, r[j])]

Distinct(m, s) == \A a, b \in TuplesIn(m, s) : m[a].id = m[b].id => a = b

LEMMA Mapping ==
  /\ \A s : Begins(s) = TuplesIn(mem, s)
  /\ \A p : IdOf(p) = IdIn(mem, p)
  /\ heapById = HeapIn(mem, fromspace)
  /\ NamesInv <=> Distinct(mem, fromspace)
  /\ Abstract!vars = <<heapById, RootsIn(mem, rootstack), IdIn(mem, reg)>>
BY DEF Begins, TuplesIn, IdOf, IdIn, heapById, HeapIn, Named, View, NamesInv,
       Distinct, Abstract!vars, RootsIn

LEMMA MappingNext ==
  /\ \A s : Begins(s)' = TuplesIn(mem', s)
  /\ \A p : IdOf(p)' = IdIn(mem', p)
  /\ heapById' = HeapIn(mem', fromspace')
  /\ NamesInv' <=> Distinct(mem', fromspace')
  /\ Abstract!vars' = <<heapById', RootsIn(mem', rootstack'), IdIn(mem', reg')>>
BY DEF Begins, TuplesIn, IdOf, IdIn, heapById, HeapIn, Named, View, NamesInv,
       Distinct, Abstract!vars, RootsIn

LEMMA HeapViews ==
  ASSUME NEW m, NEW s, Distinct(m, s)
  PROVE  /\ HeapIn(m, s) = [i \in Named(m, s) |-> HeapIn(m, s)[i]]
         /\ DOMAIN HeapIn(m, s) = Named(m, s)
         /\ \A a \in TuplesIn(m, s) :
              m[a].id \in Named(m, s) /\ HeapIn(m, s)[m[a].id] = View(m, a)
<1> DEFINE at(i) == CHOOSE a \in TuplesIn(m, s) : m[a].id = i
<1>1. HeapIn(m, s) = [i \in Named(m, s) |-> View(m, at(i))]
  BY DEF HeapIn
<1>2. \A a \in TuplesIn(m, s) : m[a].id \in Named(m, s) /\ at(m[a].id) = a
  BY DEF Distinct, Named
<1> HIDE DEF at
<1> QED
  BY <1>1, <1>2

\* Two tuples look the same if their elements do.
LEMMA ViewsEqual ==
  ASSUME NEW m, NEW a, NEW n, NEW c, NEW len,
         n[c].isptr = m[a].isptr,
         DOMAIN m[a].elem = 1..len, DOMAIN n[c].elem = 1..len,
         \A k \in 1..len : IdIn(n, n[c].elem[k]) = IdIn(m, m[a].elem[k])
  PROVE  View(n, c) = View(m, a)
BY DEF View

\* A memory in which every tuple is one of another memory: it is that memory
\* without the tuples that are missing.
LEMMA HeapsAgree ==
  ASSUME NEW m, NEW s, NEW n, NEW t, Distinct(m, s), Distinct(n, t),
         \A c \in TuplesIn(n, t) : \E a \in TuplesIn(m, s) :
           n[c].id = m[a].id /\ View(n, c) = View(m, a)
  PROVE  /\ Named(n, t) \subseteq Named(m, s)
         /\ HeapIn(n, t) = [i \in Named(n, t) |-> HeapIn(m, s)[i]]
<1>1. ASSUME NEW i \in Named(n, t)
      PROVE  i \in Named(m, s) /\ HeapIn(n, t)[i] = HeapIn(m, s)[i]
  <2>1. PICK c \in TuplesIn(n, t) : n[c].id = i
    BY DEF Named
  <2>2. PICK a \in TuplesIn(m, s) : n[c].id = m[a].id /\ View(n, c) = View(m, a)
    OBVIOUS
  <2> QED
    BY <2>1, <2>2, HeapViews
<1>2. HeapIn(n, t) = [i \in Named(n, t) |-> HeapIn(n, t)[i]]
  BY HeapViews
<1> QED
  BY <1>1, <1>2

LEMMA IdFacts ==
  ASSUME TypeOK
  PROVE  /\ \A m : \A v : v \notin Addr => IdIn(m, v) = v
         /\ \A m : IdIn(m, NULL) = NULL /\ IdIn(m, JUNK) = JUNK
         /\ \A s : \A a \in Begins(s) :
              /\ IdIn(mem, a) = mem[a].id /\ mem[a].id \in Ids
              /\ mem[a].id # NULL /\ mem[a].id # JUNK
BY ValueAssumption, TupleFacts DEF IdIn, Begins

\* What the elements of a tuple are, before and after the program fills it.
LEMMA ElementKinds ==
  ASSUME HeapInv, ContentInv, ~Dead
  PROVE  \A a \in Begins(fromspace) :
           /\ DOMAIN mem[a].elem = 1..mem[a].len
           /\ mem[a].isptr \subseteq 1..mem[a].len
           /\ \A k \in 1..mem[a].len :
                mem[a].elem[k] \in Begins(fromspace) \/ mem[a].elem[k] \notin Addr
           /\ \A k \in mem[a].isptr :
                mem[a].elem[k] \in Begins(fromspace) \cup {NULL, JUNK}
           /\ \A k \in 1..mem[a].len : k \notin mem[a].isptr => mem[a].elem[k] \notin Addr
<1> SUFFICES ASSUME NEW a \in Begins(fromspace)
             PROVE  /\ DOMAIN mem[a].elem = 1..mem[a].len
                    /\ mem[a].isptr \subseteq 1..mem[a].len
                    /\ \A k \in 1..mem[a].len :
                         mem[a].elem[k] \in Begins(fromspace) \/ mem[a].elem[k] \notin Addr
                    /\ \A k \in mem[a].isptr :
                         mem[a].elem[k] \in Begins(fromspace) \cup {NULL, JUNK}
                    /\ \A k \in 1..mem[a].len :
                         k \notin mem[a].isptr => mem[a].elem[k] \notin Addr
  OBVIOUS
<1>1. TypeOK /\ ShapeInv /\ DataInv
  BY DEF HeapInv, ContentInv
<1>2. DOMAIN mem[a].elem = 1..mem[a].len /\ mem[a].isptr \subseteq 1..mem[a].len
  BY <1>1, TupleFacts, BeginsFacts DEF ShapeInv
<1>3. \A k \in 1..mem[a].len : k \notin mem[a].isptr => mem[a].elem[k] \notin Addr
  BY <1>1, ValueAssumption DEF DataInv
<1>4. PointsInto(a, fromspace) \/ (pc = "fill" /\ a = reg)
  BY DEF HeapInv, IdleInv, CopyInv, UpdateInv, Idle
<1>5. \A k \in mem[a].isptr : mem[a].elem[k] \in Begins(fromspace) \cup {NULL, JUNK}
  BY <1>1, <1>2, <1>4 DEF PointsInto, Refs, DataInv
<1> QED
  BY <1>2, <1>3, <1>5, ValueAssumption

-----------------------------------------------------------------------------
(* Steps that cannot be seen                                               *)

LEMMA UnseenStep ==
  ASSUME UNCHANGED <<mem, fromspace, rootstack, reg>>
  PROVE  UNCHANGED Abstract!vars
BY Mapping, MappingNext

\* Whatever happens elsewhere, the tuples of from-space hold what they held.
SameTuples ==
  /\ UNCHANGED fromspace
  /\ Begins(fromspace)' = Begins(fromspace)
  /\ \A a \in Begins(fromspace) :
       /\ mem'[a].len = mem[a].len /\ mem'[a].isptr = mem[a].isptr
       /\ mem'[a].id = mem[a].id
       /\ \A k \in 1..mem[a].len : mem'[a].elem[k] = mem[a].elem[k]

LEMMA SameTuplesUnseen ==
  ASSUME HeapInv, ContentInv, HeapInv', ContentInv', ~Dead, SameTuples
  PROVE  /\ heapById' = heapById
         /\ \A p \in Refs(fromspace) : IdIn(mem', p) = IdIn(mem, p)
<1>1. TypeOK /\ TypeOK' /\ NamesInv /\ NamesInv' /\ ShapeInv'
  BY DEF HeapInv, ContentInv
<1>2. TuplesIn(mem, fromspace) = Begins(fromspace)
      /\ TuplesIn(mem', fromspace) = Begins(fromspace)
  BY Mapping, MappingNext DEF SameTuples
<1>3. \A p \in Refs(fromspace) : IdIn(mem', p) = IdIn(mem, p)
  BY <1>1, <1>2, IdFacts DEF SameTuples, IdIn, TuplesIn, Refs
<1>4. \A a \in Begins(fromspace) : View(mem', a) = View(mem, a)
  <2> SUFFICES ASSUME NEW a \in Begins(fromspace) PROVE View(mem', a) = View(mem, a)
    OBVIOUS
  <2>1. DOMAIN mem[a].elem = 1..mem[a].len
    BY ElementKinds
  <2>2. DOMAIN mem'[a].elem = 1..mem[a].len
    <3>1. a \in Addr /\ mem'[a] # NULL
      BY <1>2 DEF TuplesIn
    <3>2. mem'[a] \in Tuple /\ Len(mem'[a].elem) = mem'[a].len
      BY <1>1, <3>1 DEF TypeOK, ShapeInv
    <3> QED
      BY <3>2 DEF Tuple, SameTuples
  <2>3. ASSUME NEW k \in 1..mem[a].len
        PROVE  IdIn(mem', mem'[a].elem[k]) = IdIn(mem, mem[a].elem[k])
    BY <1>3, ElementKinds, IdFacts, <1>1 DEF SameTuples, Refs
  <2> QED
    BY <2>1, <2>2, <2>3, ViewsEqual DEF SameTuples
<1>5. Named(mem', fromspace) = Named(mem, fromspace)
  BY <1>2 DEF Named, SameTuples
<1>6. HeapIn(mem', fromspace)
        = [i \in Named(mem, fromspace) |-> HeapIn(mem, fromspace)[i]]
  <2>1. Distinct(mem, fromspace) /\ Distinct(mem', fromspace)
    BY <1>1, Mapping, MappingNext DEF SameTuples
  <2>2. \A c \in TuplesIn(mem', fromspace) : \E a \in TuplesIn(mem, fromspace) :
          mem'[c].id = mem[a].id /\ View(mem', c) = View(mem, a)
    BY <1>2, <1>4 DEF SameTuples
  <2> QED
    BY <1>5, <2>1, <2>2, HeapsAgree
<1>7. HeapIn(mem', fromspace) = HeapIn(mem, fromspace)
  BY <1>1, <1>6, HeapViews, Mapping
<1> QED
  BY <1>3, <1>7, Mapping, MappingNext DEF SameTuples

\* The steps that change neither memory nor what the program holds.
LEMMA QuietUnseen ==
  ASSUME \/ \E h \in HeapSizes : GcInit(h)
         \/ RootSkip \/ RootAbort \/ RootsDone
         \/ ScanSkip \/ ScanAbort \/ ScanNext \/ UpdateCrash
         \/ AllocFits \/ AllocShrink \/ Grow \/ GrowCrash \/ GrowBack
         \/ ReallocAbort \/ UNCHANGED vars
  PROVE  UNCHANGED Abstract!vars
<1>1. UNCHANGED <<mem, fromspace, rootstack, reg>>
  BY DEF GcInit, RootSkip, RootAbort, RootsDone, ScanSkip, ScanAbort, ScanNext,
         UpdateCrash, AllocFits, AllocShrink, Grow, GrowCrash, GrowBack,
         ReallocAbort, vars, heapVars, clientVars
<1> QED
  BY <1>1, UnseenStep

\* A step that leaves the tuples of from-space and the roots alone.
LEMMA CopyUnseen ==
  ASSUME HeapInv, ContentInv, HeapInv', ContentInv', ~Dead, SameTuples,
         UNCHANGED <<rootstack, reg>>, reg \in Refs(fromspace),
         \A j \in DOMAIN rootstack : rootstack[j] \in Refs(fromspace)
  PROVE  UNCHANGED Abstract!vars
<1>1. RootsIn(mem', rootstack') = RootsIn(mem, rootstack)
  BY SameTuplesUnseen DEF RootsIn
<1> QED
  BY <1>1, SameTuplesUnseen, Mapping, MappingNext

LEMMA CopyingUnseen ==
  ASSUME HeapInv, ContentInv, HeapInv', ContentInv',
         RootCopy \/ ScanForwarded \/ ScanCopy
  PROVE  UNCHANGED Abstract!vars
<1>1. ASSUME Copying, SameTuples, UNCHANGED <<rootstack, reg>>
      PROVE  UNCHANGED Abstract!vars
  BY <1>1, CopyUnseen DEF HeapInv, CopyInv, Copying, Dead, Refs
<1>2. CASE RootCopy
  <2>1. PICK p : p = rootstack[idx]
    OBVIOUS
  <2>2. /\ pc = "roots" /\ idx \in DOMAIN rootstack /\ p # NULL
        /\ mem[p].forwarding = NULL /\ mem' = CopyTo(mem, p)
        /\ end_ptr' = end_ptr + Size(mem[p])
        /\ UNCHANGED <<size, fromspace, free_ptr, rootstack, reg>>
    BY <1>2, <2>1 DEF RootCopy, RootLoop, Root, clientVars
  <2>3. Copying /\ p \in Begins(fromspace)
    BY <2>1, <2>2 DEF Copying, HeapInv, CopyInv, Refs
  <2>4. /\ AfterCopy(p)
        /\ \A a \in Addr : mem[a] # NULL => mem'[a].elem = mem[a].elem
    BY <2>2, <2>3, CopyToAfter
  <2>5. Begins(fromspace)' = Begins(fromspace)
    BY <2>2, <2>3, <2>4, AfterCopySpaces
  <2>6. SameTuples
    BY <2>2, <2>4, <2>5, BeginsFacts DEF SameTuples, AfterCopy
  <2> QED
    BY <1>1, <2>2, <2>3, <2>6
<1>3. CASE ScanForwarded
  <2>1. PICK c, q, v : /\ c = To(scan_ptr) /\ q = mem[c].elem[idx]
                       /\ v = mem[q].forwarding
    OBVIOUS
  <2>2. /\ Scanning /\ StoredAt(mem, mem', c, idx, v)
        /\ UNCHANGED <<fromspace, rootstack, reg>>
    BY <1>3, <2>1, ScanForwardedEffect
  <2>3. Copying /\ ShapeInv /\ c \in Begins(tospace) /\ tospace # fromspace
    BY <2>1, <2>2, ScanFacts
  <2>4. Begins(fromspace)' = Begins(fromspace)
        /\ \A a \in Begins(fromspace) :
             a \in Addr /\ mem[a] # NULL /\ a # c /\ Len(mem[a].elem) = mem[a].len
    BY <2>2, <2>3 DEF StoredAt, Begins, ShapeInv
  <2>5. SameTuples
    BY <2>2, <2>4 DEF SameTuples, StoredAt
  <2> QED
    BY <1>1, <2>2, <2>3, <2>5
<1>4. CASE ScanCopy
  <2>1. PICK c, p, n : c = To(scan_ptr) /\ p = mem[c].elem[idx] /\ n = To(end_ptr)
    OBVIOUS
  <2>2. /\ Scanning /\ p \in Begins(fromspace) /\ mem[p].forwarding = NULL
        /\ UNCHANGED <<fromspace, rootstack, reg>>
        /\ \A a \in Addr : mem'[a] # NULL <=> mem[a] # NULL \/ a = n
        /\ \A a \in Addr : mem[a] # NULL =>
             /\ mem'[a].len = mem[a].len /\ mem'[a].isptr = mem[a].isptr
             /\ mem'[a].id = mem[a].id
             /\ \A j \in 1..Len(mem[a].elem) :
                  a # c \/ j # idx => mem'[a].elem[j] = mem[a].elem[j]
    BY <1>4, <2>1, ScanCopyEffect
  <2>3. /\ Copying /\ ShapeInv /\ c \in Begins(tospace) /\ tospace # fromspace
        /\ n[1] = tospace
    BY <2>1, <2>2, ScanFacts, CopyEffect
  <2>4. Begins(fromspace)' = Begins(fromspace)
        /\ \A a \in Begins(fromspace) :
             a \in Addr /\ mem[a] # NULL /\ a # c /\ Len(mem[a].elem) = mem[a].len
    BY <2>2, <2>3 DEF Begins, ShapeInv
  <2>5. SameTuples
    BY <2>2, <2>4 DEF SameTuples
  <2> QED
    BY <1>1, <2>2, <2>3, <2>5
<1> QED
  BY <1>2, <1>3, <1>4

\* A root that is updated leads to the copy of the tuple it led to.
LEMMA UpdateRootUnseen ==
  ASSUME HeapInv, ContentInv, UpdateRoot
  PROVE  UNCHANGED Abstract!vars
<1>1. /\ pc = "update" /\ idx \in DOMAIN rootstack /\ rootstack[idx] # NULL
      /\ rootstack' = [rootstack EXCEPT ![idx] = mem[rootstack[idx]].forwarding]
      /\ UNCHANGED <<mem, fromspace, reg>>
  BY DEF UpdateRoot, UpdateLoop, Root, heapVars
<1>2. TypeOK /\ idx \in Nat /\ UpdateInv /\ RenamedInv
  BY <1>1 DEF HeapInv, TypeOK, Updating, ContentInv
<1>3. PICK p, c : p = rootstack[idx] /\ c = mem[p].forwarding
  OBVIOUS
<1>4. p \in Begins(tospace) /\ c \in Begins(fromspace) /\ mem[c].id = mem[p].id
  <2>1. ~(idx < idx) /\ idx >= idx
    BY <1>2
  <2> QED
    BY <1>1, <1>2, <1>3, <2>1 DEF UpdateInv, RenamedInv
<1>5. IdIn(mem, c) = IdIn(mem, p)
  BY <1>2, <1>4, IdFacts
<1>6. \A j \in DOMAIN rootstack : IdIn(mem, rootstack'[j]) = IdIn(mem, rootstack[j])
  BY <1>1, <1>3, <1>5
<1>7. RootsIn(mem', rootstack') = RootsIn(mem, rootstack)
  BY <1>1, <1>6 DEF RootsIn
<1> QED
  BY <1>1, <1>7, Mapping, MappingNext

LEMMA UpdateDoneUnseen ==
  ASSUME HeapInv, ContentInv, HeapInv', ContentInv', UpdateDone
  PROVE  UNCHANGED Abstract!vars
<1>1. /\ pc = "update" /\ idx = Len(rootstack) + 1
      /\ mem' = [a \in Addr |-> IF a[1] = fromspace THEN mem[a] ELSE NULL]
      /\ UNCHANGED <<fromspace, rootstack, reg>>
  BY DEF UpdateDone, clientVars
<1>2. TypeOK /\ UpdateInv /\ ~Dead
  BY <1>1 DEF HeapInv, Updating, Dead
<1>3. /\ Begins(fromspace)' = Begins(fromspace)
      /\ \A a \in Begins(fromspace) : mem'[a] = mem[a]
  BY <1>1 DEF Begins
<1>4. SameTuples
  BY <1>1, <1>3 DEF SameTuples
<1>5. \A j \in DOMAIN rootstack : j < idx
  BY <1>1, <1>2 DEF TypeOK
<1> QED
  BY <1>1, <1>2, <1>4, <1>5, CopyUnseen DEF UpdateInv, Refs

-----------------------------------------------------------------------------
(* The steps of the program                                                *)

LEMMA RootsFacts ==
  ASSUME NEW m, NEW r \in Seq(Ptr)
  PROVE  /\ DOMAIN RootsIn(m, r) = DOMAIN r
         /\ Len(RootsIn(m, r)) = Len(r)
         /\ \A j \in DOMAIN r : RootsIn(m, r)[j] = IdIn(m, r[j])
         /\ RootsIn(m, r) \in Seq({IdIn(m, p) : p \in Ptr})
         /\ RootsIn(m, r) = <<>> <=> r = <<>>
<1> DEFINE X == {IdIn(m, p) : p \in Ptr}
<1>1. \A j \in 1..Len(r) : IdIn(m, r[j]) \in X
  OBVIOUS
<1>2. RootsIn(m, r) = [j \in 1..Len(r) |-> IdIn(m, r[j])]
  BY DEF RootsIn
<1> HIDE DEF X
<1>3. RootsIn(m, r) \in Seq(X) /\ Len(RootsIn(m, r)) = Len(r)
  BY <1>1, <1>2
<1> QED
  BY <1>2, <1>3 DEF X

LEMMA RootsAppend ==
  ASSUME NEW m, NEW r \in Seq(Ptr), NEW v \in Ptr
  PROVE  RootsIn(m, Append(r, v)) = Append(RootsIn(m, r), IdIn(m, v))
<1> DEFINE R == RootsIn(m, r)
<1>1. Append(r, v) \in Seq(Ptr) /\ DOMAIN Append(r, v) = 1..(Len(r) + 1)
  OBVIOUS
<1>2. \A j \in 1..(Len(r) + 1) : Append(r, v)[j] = IF j = Len(r) + 1 THEN v ELSE r[j]
  OBVIOUS
<1>3. R \in Seq({IdIn(m, p) : p \in Ptr}) /\ Len(R) = Len(r)
      /\ \A j \in 1..Len(r) : R[j] = IdIn(m, r[j])
  BY RootsFacts
<1> HIDE DEF R
<1>4. Append(R, IdIn(m, v))
        = [j \in 1..(Len(r) + 1) |-> IF j = Len(r) + 1 THEN IdIn(m, v) ELSE R[j]]
  <2>1. PICK X, x : R \in Seq(X) /\ x \in X /\ x = IdIn(m, v)
    BY <1>3
  <2>2. Append(R, x) \in Seq(X) /\ Len(Append(R, x)) = Len(R) + 1
    BY <2>1
  <2>3. \A j \in 1..(Len(R) + 1) : Append(R, x)[j] = IF j = Len(R) + 1 THEN x ELSE R[j]
    BY <2>1
  <2>4. Append(R, x) = [j \in 1..(Len(R) + 1) |-> Append(R, x)[j]]
    <3>1. \A q \in Seq(X) : q = [j \in 1..Len(q) |-> q[j]]
      OBVIOUS
    <3> QED
      BY <1>3, <2>2, <3>1
  <2> QED
    BY <1>3, <2>1, <2>3, <2>4
<1>5. RootsIn(m, Append(r, v))
        = [j \in 1..(Len(r) + 1) |-> IF j = Len(r) + 1 THEN IdIn(m, v) ELSE IdIn(m, r[j])]
  BY <1>1, <1>2 DEF RootsIn
<1>6. \A j \in 1..(Len(r) + 1) : j # Len(r) + 1 => j \in 1..Len(r)
  OBVIOUS
<1>7. RootsIn(m, Append(r, v)) = Append(R, IdIn(m, v))
  BY <1>3, <1>4, <1>5, <1>6
<1> QED
  BY <1>7 DEF R

LEMMA RootsFront ==
  ASSUME NEW m, NEW r \in Seq(Ptr), r # <<>>
  PROVE  RootsIn(m, Front(r)) = Front(RootsIn(m, r))
<1> DEFINE R == RootsIn(m, r)
<1>1. Front(r) = [j \in 1..(Len(r) - 1) |-> r[j]]
  BY DEF Front
<1>2. R \in Seq({IdIn(m, p) : p \in Ptr}) /\ Len(R) = Len(r)
      /\ \A j \in 1..Len(r) : R[j] = IdIn(m, r[j])
  <2>1. DOMAIN r = 1..Len(r)
    OBVIOUS
  <2> QED
    BY <2>1, RootsFacts
<1> HIDE DEF R
<1>3. Front(R) = [j \in 1..(Len(r) - 1) |-> R[j]]
  BY <1>2 DEF Front
<1>4. RootsIn(m, Front(r)) = [j \in 1..(Len(r) - 1) |-> IdIn(m, r[j])]
  BY <1>1 DEF RootsIn
<1>5. RootsIn(m, Front(r)) = Front(R)
  BY <1>2, <1>3, <1>4
<1> QED
  BY <1>5 DEF R

\* Where the program runs: what it holds, and what the mapping makes of it.
LEMMA ClientFacts ==
  ASSUME HeapInv, ContentInv, pc \in {"client", "fill"}
  PROVE  /\ TypeOK /\ NamesInv /\ rootstack \in Seq(Ptr) /\ reg \in Ptr
         /\ \A j \in DOMAIN rootstack : rootstack[j] \in Refs(fromspace)
         /\ reg \in Refs(fromspace)
         /\ \A a \in Begins(fromspace) :
              /\ IdIn(mem, a) = mem[a].id /\ IdIn(mem, a) # NULL
              /\ mem[a].id \in DOMAIN heapById
              /\ heapById[mem[a].id] = View(mem, a)
         /\ IdIn(mem, NULL) = NULL
<1>1. TypeOK /\ NamesInv /\ IdleInv
  BY DEF HeapInv, ContentInv, Idle, Dead, Copying, Updating
<1>2. Distinct(mem, fromspace) /\ TuplesIn(mem, fromspace) = Begins(fromspace)
      /\ heapById = HeapIn(mem, fromspace)
  BY <1>1, Mapping
<1>3. \A a \in Begins(fromspace) :
        mem[a].id \in DOMAIN heapById /\ heapById[mem[a].id] = View(mem, a)
  BY <1>2, HeapViews
<1> QED
  BY <1>1, <1>3, IdFacts DEF TypeOK, IdleInv

\* What module TupleHeap sees when memory does not change.
LEMMA SameMemory ==
  ASSUME UNCHANGED <<mem, fromspace>>
  PROVE  /\ heapById' = heapById
         /\ IdOf(reg)' = IdIn(mem, reg')
         /\ [j \in DOMAIN rootstack |-> IdOf(rootstack[j])]' = RootsIn(mem, rootstack')
         /\ [j \in DOMAIN rootstack |-> IdOf(rootstack[j])] = RootsIn(mem, rootstack)
         /\ IdOf(reg) = IdIn(mem, reg)
BY Mapping, MappingNext DEF RootsIn, IdOf, IdIn

\* The program pushes, stores, pops, loads and forgets.
LEMMA StackVisible ==
  ASSUME HeapInv, ContentInv, Client
  PROVE  Abstract!Next
<1>0. /\ TypeOK /\ rootstack \in Seq(Ptr) /\ reg \in Ptr
      /\ \A j \in DOMAIN rootstack : rootstack[j] \in Refs(fromspace)
      /\ \A a \in Begins(fromspace) :
           /\ IdIn(mem, a) = mem[a].id /\ IdIn(mem, a) # NULL
           /\ heapById[mem[a].id] = View(mem, a)
      /\ reg \in Refs(fromspace) /\ IdIn(mem, NULL) = NULL /\ NULL \in Ptr
      /\ pc = "client"
  <2>1. pc = "client"
    BY DEF Client, PushRoot, StoreRoot, LoadRoot, GetElem, PopRoot, CallCollect,
           CallNewTuple
  <2> QED
    BY <2>1, ClientFacts DEF Ptr
<1> DEFINE R == [j \in DOMAIN rootstack |-> IdOf(rootstack[j])]
<1>1. /\ R = RootsIn(mem, rootstack) /\ IdOf(reg) = IdIn(mem, reg)
      /\ DOMAIN R = DOMAIN rootstack /\ Len(R) = Len(rootstack)
      /\ \A j \in DOMAIN rootstack : R[j] = IdIn(mem, rootstack[j])
      /\ R = <<>> <=> rootstack = <<>>
  BY <1>0, RootsFacts DEF RootsIn, IdOf, IdIn
<1>2. UNCHANGED <<mem, fromspace>>
  BY DEF Client, PushRoot, StoreRoot, LoadRoot, GetElem, PopRoot, CallCollect,
         CallNewTuple, heapVars
<1>3. /\ heapById' = heapById /\ IdOf(reg)' = IdIn(mem, reg')
      /\ R' = RootsIn(mem, rootstack')
  BY <1>2, SameMemory
<1>4. ASSUME NEW v \in {reg, NULL}, PushRoot(v) PROVE Abstract!Next
  <2>1. /\ Len(rootstack) < StackSlots /\ reg' = reg
        /\ rootstack' = Append(rootstack, v) /\ v \in Ptr
    BY <1>0, <1>4 DEF PushRoot
  <2>2. R' = Append(R, IdIn(mem, v))
    <3>1. RootsIn(mem, Append(rootstack, v)) = Append(RootsIn(mem, rootstack), IdIn(mem, v))
      BY <1>0, <2>1, RootsAppend
    <3> HIDE DEF R
    <3> QED
      BY <1>1, <1>3, <2>1, <3>1
  <2>3. IdIn(mem, v) \in {IdOf(reg), NULL}
    BY <1>0, <1>1
  <2>4. Abstract!Push(IdIn(mem, v))
    BY <1>1, <1>3, <2>1, <2>2, <2>3 DEF Abstract!Push
  <2> QED
    BY <2>3, <2>4 DEF Abstract!Next
<1>5. ASSUME NEW j \in DOMAIN rootstack, StoreRoot(j) PROVE Abstract!Next
  <2>1. /\ reg # NULL /\ reg' = reg
        /\ rootstack' = [rootstack EXCEPT ![j] = reg]
    BY <1>5 DEF StoreRoot
  <2>2. R' = [R EXCEPT ![j] = IdOf(reg)]
    BY <1>1, <1>3, <2>1 DEF RootsIn
  <2>3. IdOf(reg) # NULL
    BY <1>0, <1>1, <2>1 DEF Refs
  <2>4. Abstract!Store(j)
    BY <1>1, <1>3, <2>1, <2>2, <2>3 DEF Abstract!Store
  <2> QED
    BY <1>1, <2>4 DEF Abstract!Next
<1>6. ASSUME NEW j \in DOMAIN rootstack, LoadRoot(j) PROVE Abstract!Next
  <2>1. reg' = rootstack[j] /\ rootstack' = rootstack
    BY <1>6 DEF LoadRoot
  <2>2. Abstract!Load(j)
    BY <1>1, <1>3, <2>1 DEF Abstract!Load
  <2> QED
    BY <1>1, <2>2 DEF Abstract!Next
<1>7. ASSUME NEW j \in DOMAIN rootstack, NEW k, GetElem(j, k) PROVE Abstract!Next
  <2>1. PICK a : a = rootstack[j]
    OBVIOUS
  <2>2. /\ a # NULL /\ k \in mem[a].isptr /\ reg' = mem[a].elem[k]
        /\ rootstack' = rootstack
    BY <1>7, <2>1 DEF GetElem
  <2>3. a \in Begins(fromspace)
    BY <1>0, <2>1, <2>2 DEF Refs
  <2>4. k \in DOMAIN mem[a].elem
    BY <1>0, <2>2, <2>3, ElementKinds DEF Dead
  <2>5. /\ View(mem, a).isptr = mem[a].isptr
        /\ View(mem, a).elem[k] = IdIn(mem, mem[a].elem[k])
    BY <2>4 DEF View
  <2>6. /\ R[j] # NULL /\ heapById[R[j]] = View(mem, a)
    BY <1>0, <1>1, <2>1, <2>3
  <2>7. Abstract!Get(j, k)
    BY <1>1, <1>3, <2>2, <2>5, <2>6 DEF Abstract!Get
  <2> QED
    BY <1>1, <2>2, <2>5, <2>6, <2>7 DEF Abstract!Next
<1>8. CASE PopRoot
  <2>1. rootstack # <<>> /\ rootstack' = Front(rootstack) /\ reg' = reg
    BY <1>8 DEF PopRoot
  <2>2. R' = Front(R)
    <3>1. RootsIn(mem, Front(rootstack)) = Front(RootsIn(mem, rootstack))
      BY <1>0, <2>1, RootsFront
    <3> HIDE DEF R
    <3> QED
      BY <1>1, <1>3, <2>1, <3>1
  <2>3. Abstract!Pop
    BY <1>1, <1>3, <2>1, <2>2 DEF Abstract!Pop, Abstract!Front, Front
  <2> QED
    BY <2>3 DEF Abstract!Next
<1>9. ASSUME reg' = NULL, rootstack' = rootstack PROVE Abstract!Next
  <2>1. Abstract!Forget
    BY <1>0, <1>1, <1>3, <1>9 DEF Abstract!Forget
  <2> QED
    BY <2>1 DEF Abstract!Next
<1>10. CASE CallCollect \/ \E n \in NElems : \E isptr \in SUBSET (1..n) : CallNewTuple(n, isptr)
  BY <1>9, <1>10 DEF CallCollect, CallNewTuple
<1> QED
  BY <1>4, <1>5, <1>6, <1>7, <1>8, <1>10 DEF Client

LEMMA NewVisible ==
  ASSUME HeapInv, ContentInv, HeapInv', ContentInv', NewTuple
  PROVE  Abstract!Next
<1>1. PICK c, n, isptr : c = From(free_ptr) /\ n = req.n /\ isptr = req.isptr
  OBVIOUS
<1>2. /\ c \in Addr /\ mem[c] = NULL /\ isptr \subseteq 1..n
      /\ FreshId \in Ids /\ \A a \in Begins(fromspace) : mem[a].id # FreshId
      /\ \A a \in Addr : a # c => mem'[a] = mem[a]
      /\ mem'[c] # NULL
      /\ mem'[c].len = n /\ mem'[c].isptr = isptr
      /\ mem'[c].elem = [k \in 1..n |-> JUNK]
      /\ mem'[c].id = FreshId
      /\ Begins(fromspace)' = Begins(fromspace) \cup {c}
  BY <1>1, NewTupleEffect
<1>3. /\ pc = "bump" /\ reg' = c /\ UNCHANGED <<fromspace, rootstack>>
  BY <1>1 DEF NewTuple
<1>4. /\ TypeOK /\ TypeOK' /\ NamesInv /\ NamesInv' /\ IdleInv /\ ~Dead /\ n \in NElems
  BY <1>1, <1>3 DEF HeapInv, ContentInv, AskedInv, Idle, Dead, Copying, Updating
<1>5. \A p \in Refs(fromspace) \cup {JUNK} : IdIn(mem', p) = IdIn(mem, p)
  <2>1. \A p \in Begins(fromspace) : p \in Addr /\ p # c
    BY <1>2, BeginsFacts
  <2> QED
    BY <1>2, <2>1, ValueAssumption DEF IdIn, Refs
<1>6. \A a \in Begins(fromspace) : View(mem', a) = View(mem, a)
  <2> SUFFICES ASSUME NEW a \in Begins(fromspace) PROVE View(mem', a) = View(mem, a)
    OBVIOUS
  <2>1. mem'[a] = mem[a] /\ DOMAIN mem[a].elem = 1..mem[a].len
    BY <1>2, <1>4, BeginsFacts, ElementKinds
  <2>2. \A k \in 1..mem[a].len : IdIn(mem', mem[a].elem[k]) = IdIn(mem, mem[a].elem[k])
    BY <1>4, <1>5, ElementKinds, IdFacts DEF Refs
  <2> QED
    BY <2>1, <2>2 DEF View
<1>7. View(mem', c) = [isptr |-> isptr, elem |-> [k \in 1..n |-> JUNK]]
  <2>1. IdIn(mem', JUNK) = JUNK
    BY <1>4, IdFacts
  <2> QED
    BY <1>2, <2>1 DEF View
<1>8. /\ Distinct(mem, fromspace) /\ Distinct(mem', fromspace)
      /\ TuplesIn(mem, fromspace) = Begins(fromspace)
      /\ TuplesIn(mem', fromspace) = Begins(fromspace) \cup {c}
      /\ heapById = HeapIn(mem, fromspace) /\ heapById' = HeapIn(mem', fromspace)
  BY <1>2, <1>3, <1>4, Mapping, MappingNext
<1>9. /\ DOMAIN heapById = Named(mem, fromspace)
      /\ \A a \in Begins(fromspace) : heapById[mem[a].id] = View(mem, a)
      /\ heapById' = [i \in Named(mem', fromspace) |-> heapById'[i]]
      /\ \A a \in Begins(fromspace) \cup {c} : heapById'[mem'[a].id] = View(mem', a)
  BY <1>8, HeapViews
<1>10. /\ Named(mem', fromspace) = Named(mem, fromspace) \cup {FreshId}
       /\ FreshId \notin Named(mem, fromspace)
  BY <1>2, <1>8, BeginsFacts DEF Named
<1>11. heapById' = [i \in DOMAIN heapById \cup {FreshId} |->
                      IF i = FreshId THEN [isptr |-> isptr, elem |-> [k \in 1..n |-> JUNK]]
                                     ELSE heapById[i]]
  <2>1. ASSUME NEW i \in Named(mem, fromspace) PROVE heapById'[i] = heapById[i]
    <3>1. PICK a \in Begins(fromspace) : mem[a].id = i
      BY <1>8 DEF Named
    <3>2. mem'[a].id = i
      BY <1>2, <3>1, BeginsFacts
    <3> QED
      BY <1>6, <1>9, <3>1, <3>2
  <2>2. heapById'[FreshId] = [isptr |-> isptr, elem |-> [k \in 1..n |-> JUNK]]
    BY <1>2, <1>7, <1>9
  <2> QED
    BY <1>9, <1>10, <2>1, <2>2
<1>12. /\ IdOf(reg)' = FreshId
       /\ [j \in DOMAIN rootstack |-> IdOf(rootstack[j])]'
            = [j \in DOMAIN rootstack |-> IdOf(rootstack[j])]
  <2>1. \A j \in DOMAIN rootstack : IdOf(rootstack[j])' = IdOf(rootstack[j])
    <3>1. \A j \in DOMAIN rootstack : IdIn(mem', rootstack[j]) = IdIn(mem, rootstack[j])
      BY <1>4, <1>5 DEF IdleInv
    <3> QED
      BY <1>3, <3>1 DEF IdOf, IdIn
  <2>2. IdOf(reg)' = FreshId
    BY <1>2, <1>3 DEF IdOf
  <2> QED
    BY <1>3, <2>1, <2>2
<1>13. Abstract!New(FreshId, n, isptr)
  BY <1>2, <1>9, <1>10, <1>11, <1>12 DEF Abstract!New
<1> QED
  BY <1>2, <1>4, <1>13 DEF Abstract!Next

LEMMA FillVisible ==
  ASSUME HeapInv, ContentInv, HeapInv', ContentInv', Fill
  PROVE  Abstract!Next
<1>1. PICK n \in NElems :
        \E elem \in [1..n -> ToSet(rootstack) \cup {reg, NULL} \cup Data] : FillTuple(elem)
  BY DEF Fill
<1>2. PICK elem \in [1..n -> ToSet(rootstack) \cup {reg, NULL} \cup Data] : FillTuple(elem)
  BY <1>1
<1>3. /\ pc = "fill" /\ UNCHANGED <<fromspace, rootstack, reg>>
      /\ \A k \in 1..n : elem[k] \in IF k \in mem[reg].isptr
                                       THEN ToSet(rootstack) \cup {reg, NULL} ELSE Data
  BY <1>2 DEF FillTuple, clientVars
<1>4. /\ reg \in Begins(fromspace) /\ reg \in Addr
      /\ mem[reg].len = n /\ DOMAIN mem[reg].elem = 1..n
      /\ \A v \in ToSet(rootstack) \cup {reg, NULL} : v \in Refs(fromspace)
      /\ \A a \in Addr : a # reg => mem'[a] = mem[a]
      /\ mem'[reg] # NULL /\ mem'[reg].elem = elem
      /\ mem'[reg].isptr = mem[reg].isptr /\ mem'[reg].id = mem[reg].id
  BY <1>2, FillEffect
<1>5. /\ TypeOK /\ TypeOK' /\ NamesInv /\ NamesInv' /\ DataInv /\ ~Dead
      /\ mem[reg] # NULL
  BY <1>3, <1>4, BeginsFacts DEF HeapInv, ContentInv, Dead
<1>6. \A p : IdIn(mem', p) = IdIn(mem, p)
  BY <1>4, <1>5 DEF IdIn
<1>7. /\ Distinct(mem, fromspace) /\ Distinct(mem', fromspace)
      /\ TuplesIn(mem, fromspace) = Begins(fromspace)
      /\ TuplesIn(mem', fromspace) = Begins(fromspace)
      /\ heapById = HeapIn(mem, fromspace) /\ heapById' = HeapIn(mem', fromspace)
  <2>1. TuplesIn(mem', fromspace) = TuplesIn(mem, fromspace)
    BY <1>4, <1>5 DEF TuplesIn
  <2> QED
    BY <1>3, <1>5, <2>1, Mapping, MappingNext
<1> DEFINE E == [k \in 1..n |-> IdIn(mem, elem[k])]
           R == [j \in DOMAIN rootstack |-> IdOf(rootstack[j])]
<1>8. PICK i : i = mem[reg].id
  OBVIOUS
<1>9. /\ heapById = [j \in Named(mem, fromspace) |-> heapById[j]]
      /\ heapById' = [j \in Named(mem', fromspace) |-> heapById'[j]]
      /\ \A a \in Begins(fromspace) :
           /\ heapById[mem[a].id] = View(mem, a)
           /\ heapById'[mem'[a].id] = View(mem', a)
  BY <1>7, HeapViews
<1>10. Named(mem', fromspace) = Named(mem, fromspace) /\ i \in Named(mem, fromspace)
  <2>1. \A a \in Begins(fromspace) : mem'[a].id = mem[a].id
    BY <1>4, BeginsFacts
  <2> QED
    BY <1>4, <1>7, <1>8, <2>1 DEF Named
<1>11. View(mem', reg) = [isptr |-> mem[reg].isptr, elem |-> E]
  <2>1. DOMAIN elem = 1..n
    OBVIOUS
  <2>2. [k \in DOMAIN mem'[reg].elem |-> IdIn(mem', mem'[reg].elem[k])] = E
    BY <1>4, <1>6, <2>1
  <2> HIDE DEF E
  <2> QED
    BY <1>4, <2>2 DEF View
<1>12. heapById' = [heapById EXCEPT ![i].elem = E]
  <2>1. ASSUME NEW j \in Named(mem, fromspace), j # i PROVE heapById'[j] = heapById[j]
    <3>1. PICK a \in Begins(fromspace) : mem[a].id = j
      BY <1>7 DEF Named
    <3>2. a # reg /\ mem'[a] = mem[a]
      BY <1>4, <1>8, <2>1, <3>1, BeginsFacts
    <3>3. View(mem', a) = View(mem, a)
      BY <1>6, <3>2 DEF View
    <3> QED
      BY <1>9, <3>1, <3>2, <3>3
  <2> HIDE DEF E
  <2>2. heapById'[i] = [heapById[i] EXCEPT !.elem = E]
    <3>1. PICK p, x : p = mem[reg].isptr /\ View(mem, reg) = [isptr |-> p, elem |-> x]
      BY DEF View
    <3>2. [[isptr |-> p, elem |-> x] EXCEPT !.elem = E] = [isptr |-> p, elem |-> E]
      OBVIOUS
    <3>3. heapById[i] = View(mem, reg) /\ heapById'[i] = View(mem', reg)
      BY <1>4, <1>8, <1>9
    <3> QED
      BY <1>11, <3>1, <3>2, <3>3
  <2> QED
    BY <1>9, <1>10, <2>1, <2>2
<1>13. /\ IdOf(reg) = i /\ i # NULL /\ IdOf(reg)' = IdOf(reg)
       /\ R' = R /\ IdIn(mem, NULL) = NULL
  <2>1. \A p : IdOf(p) = IdIn(mem, p) /\ IdOf(p)' = IdIn(mem', p)
    BY Mapping, MappingNext
  <2>2. /\ IdOf(reg)' = IdIn(mem', reg') /\ IdOf(reg) = IdIn(mem, reg)
        /\ \A j : IdOf(rootstack[j])' = IdIn(mem', rootstack'[j])
        /\ \A j : IdOf(rootstack[j]) = IdIn(mem, rootstack[j])
    BY DEF IdOf, IdIn
  <2> QED
    BY <1>3, <1>4, <1>5, <1>6, <1>8, <2>2, IdFacts
<1>14. /\ DOMAIN heapById[i].elem = 1..n /\ heapById[i].isptr = mem[reg].isptr
       /\ \A k \in 1..n : heapById[i].elem[k] = JUNK
  <2>1. heapById[i] = View(mem, reg)
    BY <1>4, <1>8, <1>9
  <2>2. \A k \in 1..n : mem[reg].elem[k] = JUNK /\ IdIn(mem, JUNK) = JUNK
    BY <1>3, <1>4, <1>5, IdFacts DEF DataInv
  <2> QED
    BY <1>4, <2>1, <2>2 DEF View
<1>15. \A k \in 1..n : IF k \in mem[reg].isptr
                         THEN E[k] \in Abstract!Roots \cup {i, NULL} ELSE E[k] \in Data
  <2> SUFFICES ASSUME NEW k \in 1..n
               PROVE  IF k \in mem[reg].isptr
                        THEN E[k] \in Abstract!Roots \cup {i, NULL} ELSE E[k] \in Data
    OBVIOUS
  <2>1. CASE k \notin mem[reg].isptr
    BY <1>3, <2>1, ValueAssumption DEF IdIn
  <2>2. CASE k \in mem[reg].isptr /\ elem[k] \in {reg, NULL}
    BY <1>13, <2>2 DEF IdOf, IdIn
  <2>3. CASE k \in mem[reg].isptr /\ elem[k] \in ToSet(rootstack) /\ elem[k] # NULL
    <3>1. PICK j \in DOMAIN rootstack : elem[k] = rootstack[j]
      BY <2>3 DEF ToSet
    <3>2. E[k] = R[j] /\ j \in DOMAIN R
      BY <3>1 DEF IdIn, IdOf
    <3>3. E[k] # NULL
      BY <1>4, <1>5, <2>3, IdFacts DEF Refs
    <3>4. E[k] \in Abstract!Roots
      BY <3>2, <3>3 DEF Abstract!Roots, Abstract!ToSet
    <3> QED
      BY <2>3, <3>4
  <2> QED
    BY <1>3, <2>1, <2>2, <2>3
<1>16. E \in [1..n -> Abstract!Ptr \cup Data]
  <2>1. ASSUME NEW k \in 1..n PROVE E[k] \in Abstract!Ptr \cup Data
    BY <1>3, <1>4, <1>5, IdFacts, ValueAssumption DEF Abstract!Ptr, Refs, IdIn
  <2> QED
    BY <2>1
<1>17. Abstract!Fill(E)
  <2>1. DOMAIN E = 1..n
    OBVIOUS
  <2> HIDE DEF E
  <2> QED
    BY <1>12, <1>13, <1>14, <1>15, <2>1 DEF Abstract!Fill
<1> HIDE DEF E
<1> QED
  BY <1>16, <1>17 DEF Abstract!Next

-----------------------------------------------------------------------------
(* The swap                                                                *)

\* A copy looks as its original does.
LEMMA CopyLooksSame ==
  ASSUME HeapInv, ContentInv, pc = "scan", ~Scanning,
         NEW a \in Begins(fromspace), mem[a].forwarding # NULL,
         NEW c, c = mem[a].forwarding
  PROVE  /\ c \in Begins(tospace) /\ mem[c].id = mem[a].id
         /\ View(mem, c) = View(mem, a)
         /\ \A k \in View(mem, c).isptr :
              View(mem, c).elem[k] \in Named(mem, tospace) \cup {NULL}
<1>1. /\ c \in Begins(tospace) /\ mem[c].len = mem[a].len
      /\ mem[c].id = mem[a].id /\ mem[c].isptr = mem[a].isptr
      /\ \A k \in 1..mem[a].len :
           /\ k \notin mem[a].isptr => mem[c].elem[k] = mem[a].elem[k]
           /\ k \in mem[a].isptr =>
                \/ mem[a].elem[k] = NULL /\ mem[c].elem[k] = NULL
                \/ /\ mem[a].elem[k] \in Begins(fromspace)
                   /\ mem[mem[a].elem[k]].forwarding # NULL
                   /\ mem[c].elem[k] = mem[mem[a].elem[k]].forwarding
  BY CopiesDone
<1>2. TypeOK /\ ShapeInv
  BY DEF HeapInv
<1>3. /\ DOMAIN mem[a].elem = 1..mem[a].len /\ DOMAIN mem[c].elem = 1..mem[a].len
      /\ mem[a].isptr \subseteq 1..mem[a].len
  BY <1>1, <1>2, TupleFacts, BeginsFacts DEF ShapeInv
<1>4. ASSUME NEW p \in Begins(fromspace), mem[p].forwarding # NULL
      PROVE  /\ IdIn(mem, mem[p].forwarding) = IdIn(mem, p)
             /\ IdIn(mem, mem[p].forwarding) \in Named(mem, tospace)
  <2>1. mem[p].forwarding \in Begins(tospace) /\ mem[mem[p].forwarding].id = mem[p].id
    BY <1>4, CopiesDone
  <2> QED
    BY <1>2, <2>1, IdFacts, Mapping DEF Named
<1>5. \A k \in 1..mem[a].len : IdIn(mem, mem[c].elem[k]) = IdIn(mem, mem[a].elem[k])
  BY <1>1, <1>4
<1>6. View(mem, c) = View(mem, a)
  BY <1>1, <1>3, <1>5, ViewsEqual
<1>7. \A k \in mem[a].isptr : IdIn(mem, mem[c].elem[k]) \in Named(mem, tospace) \cup {NULL}
  BY <1>1, <1>2, <1>3, <1>4, IdFacts
<1>8. \A k \in View(mem, c).isptr :
        View(mem, c).elem[k] \in Named(mem, tospace) \cup {NULL}
  BY <1>1, <1>3, <1>7 DEF View
<1> QED
  BY <1>1, <1>6, <1>8

\* The tuples that have no copy disappear: no root leads to them, nor does a
\* tuple that stays.
LEMMA SwapVisible ==
  ASSUME HeapInv, ContentInv, HeapInv', ContentInv', Swap
  PROVE  Abstract!Next
<1>1. /\ pc = "scan" /\ ~Scanning /\ fromspace' = tospace
      /\ UNCHANGED <<mem, rootstack, reg>>
  BY DEF Swap, clientVars
<1>2. TypeOK /\ NamesInv /\ NamesInv' /\ CopyInv /\ ForwardInv /\ reg = NULL
  BY <1>1 DEF HeapInv, ContentInv, Copying, CopyInv
<1> DEFINE keep == Named(mem, tospace)
           R    == [j \in DOMAIN rootstack |-> IdOf(rootstack[j])]
<1>3. /\ Distinct(mem, fromspace) /\ Distinct(mem, tospace)
      /\ heapById = HeapIn(mem, fromspace) /\ heapById' = HeapIn(mem, tospace)
      /\ \A s : TuplesIn(mem, s) = Begins(s)
  BY <1>1, <1>2, Mapping, MappingNext
<1>4. ASSUME NEW c \in Begins(tospace)
      PROVE  \E a \in Begins(fromspace) :
               mem[a].forwarding = c /\ mem[a].forwarding # NULL
  BY <1>2, BeginsFacts DEF ForwardInv
<1>5. \A c \in TuplesIn(mem, tospace) : \E a \in TuplesIn(mem, fromspace) :
        mem[c].id = mem[a].id /\ View(mem, c) = View(mem, a)
  BY <1>1, <1>3, <1>4, CopyLooksSame
<1>6. /\ keep \subseteq Named(mem, fromspace)
      /\ heapById' = [i \in keep |-> heapById[i]]
      /\ DOMAIN heapById = Named(mem, fromspace)
  BY <1>3, <1>5, HeapsAgree, HeapViews
<1>7. Abstract!Roots \subseteq keep
  <2>1. ASSUME NEW j \in DOMAIN rootstack, IdOf(rootstack[j]) # NULL
        PROVE  IdOf(rootstack[j]) \in keep
    <3>1. PICK a : a = rootstack[j]
      OBVIOUS
    <3>2. IdIn(mem, a) # NULL
      BY <2>1, <3>1 DEF IdIn, IdOf
    <3>3. a \in Begins(fromspace) /\ mem[a].forwarding # NULL
      BY <1>1, <1>2, <3>1, <3>2, IdFacts DEF CopyInv, Refs
    <3>4. mem[a].forwarding \in Begins(tospace)
          /\ mem[mem[a].forwarding].id = mem[a].id
      BY <1>1, <3>3, CopyLooksSame
    <3>5. mem[a].id \in keep
      BY <1>3, <3>4 DEF Named
    <3> QED
      BY <1>2, <3>1, <3>3, <3>5, IdFacts DEF IdIn, IdOf
  <2> QED
    BY <2>1 DEF Abstract!Roots, Abstract!ToSet
<1>8. Abstract!Closed(keep)
  <2>1. ASSUME NEW i \in keep, NEW k \in heapById[i].isptr
        PROVE  heapById[i].elem[k] \in keep \cup {NULL}
    <3>1. PICK c \in Begins(tospace) : mem[c].id = i
      BY <1>3 DEF Named
    <3>2. PICK a \in Begins(fromspace) :
            mem[a].forwarding = c /\ mem[a].forwarding # NULL
      BY <1>4
    <3>3. /\ View(mem, c) = View(mem, a) /\ mem[a].id = i
          /\ \A l \in View(mem, c).isptr : View(mem, c).elem[l] \in keep \cup {NULL}
      BY <1>1, <3>1, <3>2, CopyLooksSame
    <3>4. heapById[i] = View(mem, a)
      BY <1>3, <3>3, HeapViews
    <3> QED
      BY <2>1, <3>3, <3>4
  <2> QED
    BY <2>1 DEF Abstract!Closed, Abstract!Targets
<1>9. IdOf(reg) = NULL /\ IdOf(reg)' = NULL /\ R' = R
  <2>1. \A p : IdOf(p)' = IdOf(p)
    BY <1>1 DEF IdOf
  <2>2. IdOf(reg) = NULL
    BY <1>2, ValueAssumption DEF IdOf
  <2> QED
    BY <1>1, <2>1, <2>2 DEF IdOf
<1>10. Abstract!Reclaim(keep)
  <2> HIDE DEF keep
  <2> QED
    BY <1>6, <1>7, <1>8, <1>9 DEF Abstract!Reclaim
<1> HIDE DEF keep
<1> QED
  BY <1>6, <1>10 DEF Abstract!Next

-----------------------------------------------------------------------------
(* The refinement                                                          *)

LEMMA AbstractInit == Init => Abstract!Init
<1> SUFFICES ASSUME Init PROVE Abstract!Init
  OBVIOUS
<1>1. \A s : Begins(s) = {}
  BY DEF Init, Begins
<1>2. heapById = <<>>
  BY <1>1 DEF heapById
<1>3. [j \in DOMAIN rootstack |-> IdOf(rootstack[j])] = <<>> /\ IdOf(reg) = NULL
  BY ValueAssumption DEF Init, IdOf
<1> QED
  BY <1>2, <1>3 DEF Abstract!Init

LEMMA AbstractStep ==
  HeapInv /\ ContentInv /\ HeapInv' /\ ContentInv' /\ [Next]_vars
    => [Abstract!Next]_(Abstract!vars)
<1> SUFFICES ASSUME HeapInv, ContentInv, HeapInv', ContentInv', [Next]_vars
             PROVE  Abstract!Next \/ UNCHANGED Abstract!vars
  OBVIOUS
<1>1. CASE (\E h \in HeapSizes : GcInit(h)) \/ UNCHANGED vars
  BY <1>1, QuietUnseen
<1>2. CASE Client
  BY <1>2, StackVisible
<1>3. CASE Fill
  BY <1>3, FillVisible
<1>4. CASE Collector
  BY <1>4, QuietUnseen, CopyingUnseen, SwapVisible, UpdateRootUnseen,
     UpdateDoneUnseen DEF Collector
<1>5. CASE Allocator
  BY <1>5, QuietUnseen, NewVisible DEF Allocator
<1> QED
  BY <1>1, <1>2, <1>3, <1>4, <1>5 DEF Next

\* Module Runtime implements module TupleHeap: a program cannot tell that its
\* tuples move, and it loses only tuples that it can no longer reach.
THEOREM RefinesTupleHeap == ASSUME ShortTuples PROVE Spec => ImplementsTupleHeap
<1>1. Init => Abstract!Init
  BY AbstractInit
<1>2. HeapInv /\ ContentInv /\ HeapInv' /\ ContentInv' /\ [Next]_vars
        => [Abstract!Next]_(Abstract!vars)
  BY AbstractStep
<1> QED
  BY <1>1, <1>2, HeapInvariant, ContentInvariant, PTL
     DEF Spec, ImplementsTupleHeap, Abstract!Spec
=============================================================================
