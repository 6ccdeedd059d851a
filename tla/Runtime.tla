------------------------------ MODULE Runtime ------------------------------
(***************************************************************************)
(* runtime.c: the tuple heap of compiled programs, with its two-space      *)
(* copying collector, and the program that calls it.                       *)
(*                                                                         *)
(* An address is a space and an offset in it, counted in the unit that     *)
(* Header, Word and the other sizes are counted in.  mem says which tuple  *)
(* begins at an address.  The field id of a tuple is not in the C struct:  *)
(* it names the tuple the program made, wherever it is copied to, and only *)
(* the properties read it.                                                 *)
(*                                                                         *)
(* An action is one iteration of a loop of runtime.c, or one straight      *)
(* piece of a function; pc is where in the file control is.                *)
(***************************************************************************)
EXTENDS Integers, Sequences, FiniteSets, SequencesExt

CONSTANTS Header,     \* sizeof(struct tuple)
          Word,       \* sizeof(uintptr_t)
          Align,      \* psc_gcinit rounds sizes up to this
          Page,       \* psc_alloc rounds sizes up to this
          SizeMod,    \* size_t counts modulo this
          MaxElem,    \* the length of isptr, 63 in the code
          MaxLen,     \* the largest value of the byte len
          HeapSizes,  \* the sizes psc_gcinit is called with
          NElems,     \* the lengths psc_newtuple is called with
          HeapBound,  \* bound: no space of more than this can be had
          StackSlots, \* bound: the most entries on the root stack
          Data,       \* values that are not pointers
          NULL, JUNK  \* the null pointer; what memory from malloc holds

ASSUME SizeAssumption ==
  /\ Header \in Nat \ {0} /\ Word \in Nat \ {0}
  /\ Align \in Nat \ {0} /\ Page \in Nat \ {0}
  /\ SizeMod \in Nat \ {0} /\ HeapBound \in Nat /\ HeapBound < SizeMod
  /\ MaxElem \in Nat /\ MaxLen \in Nat /\ MaxElem <= MaxLen
  /\ HeapSizes \subseteq 0..(SizeMod - 1)
  /\ NElems \subseteq Nat
  /\ StackSlots \in Nat

Addr == {"A", "B"} \X (0..HeapBound)
Ids  == 0..HeapBound

Ptr   == Addr \cup {NULL}
Value == Ptr \cup Data \cup {JUNK}

Tuple == [len : 0..MaxLen, isptr : SUBSET (1..MaxElem), elem : Seq(Value),
          forwarding : Ptr, id : Ids]

ASSUME ValueAssumption ==
  /\ NULL # JUNK
  /\ NULL \notin Addr /\ JUNK \notin Addr
  /\ NULL \notin Data /\ JUNK \notin Data
  /\ NULL \notin Ids /\ JUNK \notin Ids
  /\ Data \cap Addr = {} /\ Data \cap Ids = {}
  /\ NULL \notin Tuple

VARIABLES mem,        \* the tuple that begins at an address, or NULL
          size,       \* the size of each space
          fromspace,  \* the space tuples are in; the other is to-space
          free_ptr,   \* where in from-space the next tuple goes
          rootstack,  \* rootstack_begin up to rootstack_ptr
          reg,        \* the pointer in the program's register
          pc,         \* where control is
          ret,        \* where psc_gccollect returns to
          req,        \* the arguments of the psc_newtuple under way
          scan_ptr,   \* psc_gccollect: the tuple it is scanning
          end_ptr,    \* psc_gccollect: where the next copy goes
          idx         \* psc_gccollect: the counter of the innermost loop

heapVars    == <<mem, size, fromspace, free_ptr>>
clientVars  == <<rootstack, reg>>
collectVars == <<scan_ptr, end_ptr, idx>>
vars == <<mem, size, fromspace, free_ptr, rootstack, reg, pc, ret, req,
          scan_ptr, end_ptr, idx>>

-----------------------------------------------------------------------------
tospace == IF fromspace = "A" THEN "B" ELSE "A"

From(o) == <<fromspace, o>>
To(o)   == <<tospace, o>>

\* Addition on size_t, and rounding up to a multiple of a.
Plus(m, n)    == (m + n) % SizeMod
RoundUp(n, a) == Plus(n, (a - (n % a)) % a)

\* The bytes psc_newtuple asks for, and the bytes a collection copies.
TupleSize(n) == Header + Word * n
Size(t)      == TupleSize(t.len)

IsTuple(a) == a \in Addr /\ mem[a] # NULL

\* The addresses in a space at which a tuple begins.
Begins(s) == {a \in Addr : a[1] = s /\ mem[a] # NULL}

\* A tuple as the collector copies it: len elements and no forwarding yet.
Copy(t) == [t EXCEPT !.elem = SubSeq(t.elem, 1, t.len)]

\* Mutant: size_t wraps around and nothing notices.
GrowTo_NoWrapTest(cur, bytes) ==
  LET more  == RoundUp(((cur * 3) % SizeMod) \div 2, Page)
      exact == RoundUp(Plus(cur, bytes), Page)
  IN  IF more - cur >= bytes THEN more ELSE exact

\* The size psc_alloc grows the heap to, or NULL when size_t cannot hold it.
GrowTo(cur, bytes) ==
  LET enough(n) == n >= cur /\ n - cur >= bytes
      half  == ((cur * 3) % SizeMod) \div 2
      more  == RoundUp(IF half = 0 THEN 1 ELSE half, Page)
      exact == RoundUp(Plus(cur, bytes), Page)
      new   == IF enough(more) THEN more ELSE exact
  IN  IF enough(new) THEN new ELSE NULL

-----------------------------------------------------------------------------
Init ==
  /\ mem = [a \in Addr |-> NULL]
  /\ size = [s \in {"A", "B"} |-> 0]
  /\ fromspace = "A"
  /\ free_ptr = 0
  /\ rootstack = <<>>
  /\ reg = NULL
  /\ pc = "boot"
  /\ ret = "client"
  /\ req = [n |-> 0, isptr |-> {}]
  /\ scan_ptr = 0 /\ end_ptr = 0 /\ idx = 1

GcInit(h) ==
  /\ pc = "boot"
  /\ RoundUp(h, Align) <= HeapBound
  /\ size' = [s \in {"A", "B"} |-> RoundUp(h, Align)]
  /\ pc' = "client"
  /\ UNCHANGED <<mem, fromspace, free_ptr, ret, req, clientVars, collectVars>>

-----------------------------------------------------------------------------
(* The program: compiled code, or test_tuples.c.                           *)

PushRoot(v) ==
  /\ pc = "client"
  /\ Len(rootstack) < StackSlots
  /\ rootstack' = Append(rootstack, v)
  /\ UNCHANGED <<heapVars, reg, pc, ret, req, collectVars>>

StoreRoot(j) ==
  /\ pc = "client" /\ reg # NULL
  /\ rootstack' = [rootstack EXCEPT ![j] = reg]
  /\ UNCHANGED <<heapVars, reg, pc, ret, req, collectVars>>

PopRoot ==
  /\ pc = "client" /\ rootstack # <<>>
  /\ rootstack' = Front(rootstack)
  /\ UNCHANGED <<heapVars, reg, pc, ret, req, collectVars>>

LoadRoot(j) ==
  /\ pc = "client"
  /\ reg' = rootstack[j]
  /\ UNCHANGED <<heapVars, rootstack, pc, ret, req, collectVars>>

\* Mutant: any element is taken for a pointer.
GetElem_AnyElem(j, k) ==
  /\ pc = "client" /\ rootstack[j] # NULL
  /\ k \in DOMAIN mem[rootstack[j]].elem
  /\ reg' = mem[rootstack[j]].elem[k]
  /\ UNCHANGED <<heapVars, rootstack, pc, ret, req, collectVars>>

GetElem(j, k) ==
  /\ pc = "client" /\ rootstack[j] # NULL
  /\ k \in mem[rootstack[j]].isptr
  /\ reg' = mem[rootstack[j]].elem[k]
  /\ UNCHANGED <<heapVars, rootstack, pc, ret, req, collectVars>>

\* psc_gccollect is entered; it returns to r.
Collect(r) ==
  /\ pc' = "roots" /\ ret' = r
  /\ scan_ptr' = 0 /\ end_ptr' = 0 /\ idx' = 1

\* A pointer in a register does not survive a call.
CallCollect ==
  /\ pc = "client"
  /\ Collect("client")
  /\ reg' = NULL
  /\ UNCHANGED <<heapVars, rootstack, req>>

CallNewTuple(n, isptr) ==
  /\ pc = "client"
  /\ reg' = NULL
  /\ req' = [n |-> n, isptr |-> isptr]
  /\ pc' = "alloc"
  /\ UNCHANGED <<heapVars, rootstack, ret, collectVars>>

\* The stores that follow a call of psc_newtuple.
FillTuple(elem) ==
  /\ pc = "fill"
  /\ Len(elem) = Len(mem[reg].elem)
  /\ \A k \in DOMAIN elem :
       elem[k] \in IF k \in mem[reg].isptr
                     THEN ToSet(rootstack) \cup {reg, NULL} ELSE Data
  /\ mem' = [mem EXCEPT ![reg].elem = elem]
  /\ pc' = "client"
  /\ UNCHANGED <<size, fromspace, free_ptr, clientVars, ret, req, collectVars>>

Client ==
  \/ \E v \in {reg, NULL} : PushRoot(v)
  \/ \E j \in DOMAIN rootstack : StoreRoot(j) \/ LoadRoot(j)
  \/ \E j \in DOMAIN rootstack : \E k \in 1..MaxElem : GetElem(j, k)
  \/ PopRoot
  \/ CallCollect
  \/ \E n \in NElems : \E isptr \in SUBSET (1..n) : CallNewTuple(n, isptr)

Fill ==
  \E n \in NElems :
    \E elem \in [1..n -> ToSet(rootstack) \cup {reg, NULL} \cup Data] :
      FillTuple(elem)

-----------------------------------------------------------------------------
(* psc_gccollect: the root loop                                            *)

\* Mutant: the forwarding address is not set.
CopyTo_NoForwarding(mm, p) == [mm EXCEPT ![To(end_ptr)] = Copy(mm[p])]

\* A tuple is copied to end_ptr and its old place forwards to the copy.
CopyTo(mm, p) ==
  [mm EXCEPT ![To(end_ptr)] = Copy(mm[p]), ![p].forwarding = To(end_ptr)]

Root(i) == rootstack[i]

RootLoop == pc = "roots" /\ idx \in DOMAIN rootstack

RootSkip ==
  /\ RootLoop
  /\ Root(idx) # NULL => mem[Root(idx)].forwarding # NULL
  /\ idx' = idx + 1
  /\ UNCHANGED <<heapVars, clientVars, pc, ret, req, scan_ptr, end_ptr>>

\* Mutant: a root that is on the stack twice is copied twice.
RootCopy_Again ==
  /\ RootLoop
  /\ Root(idx) # NULL
  /\ mem[Root(idx)].len <= MaxElem
  /\ mem' = CopyTo(mem, Root(idx))
  /\ end_ptr' = end_ptr + Size(mem[Root(idx)])
  /\ idx' = idx + 1
  /\ UNCHANGED <<size, fromspace, free_ptr, clientVars, pc, ret, req, scan_ptr>>

\* Mutant: end_ptr moves past the header of the copy only.
RootCopy_HeaderOnly ==
  /\ RootLoop
  /\ Root(idx) # NULL /\ mem[Root(idx)].forwarding = NULL
  /\ mem[Root(idx)].len <= MaxElem
  /\ mem' = CopyTo(mem, Root(idx))
  /\ end_ptr' = end_ptr + Header
  /\ idx' = idx + 1
  /\ UNCHANGED <<size, fromspace, free_ptr, clientVars, pc, ret, req, scan_ptr>>

RootCopy ==
  /\ RootLoop
  /\ Root(idx) # NULL /\ mem[Root(idx)].forwarding = NULL
  /\ mem[Root(idx)].len <= MaxElem
  /\ mem' = CopyTo(mem, Root(idx))
  /\ end_ptr' = end_ptr + Size(mem[Root(idx)])
  /\ idx' = idx + 1
  /\ UNCHANGED <<size, fromspace, free_ptr, clientVars, pc, ret, req, scan_ptr>>

\* An assertion fails: the tuple is longer than isptr.
RootAbort ==
  /\ RootLoop
  /\ Root(idx) # NULL /\ mem[Root(idx)].forwarding = NULL
  /\ mem[Root(idx)].len > MaxElem
  /\ pc' = "abort"
  /\ UNCHANGED <<heapVars, clientVars, ret, req, collectVars>>

\* Mutant: the last root is not visited.
RootsDone_OffByOne ==
  /\ pc = "roots" /\ idx >= Len(rootstack)
  /\ pc' = "scan" /\ idx' = 1
  /\ UNCHANGED <<heapVars, clientVars, ret, req, scan_ptr, end_ptr>>

RootsDone ==
  /\ pc = "roots" /\ idx = Len(rootstack) + 1
  /\ pc' = "scan" /\ idx' = 1
  /\ UNCHANGED <<heapVars, clientVars, ret, req, scan_ptr, end_ptr>>

-----------------------------------------------------------------------------
(* psc_gccollect: the scan loop                                            *)

cur == mem[To(scan_ptr)]

\* The loop condition of the while, and of the for inside it.
Scanning == pc = "scan" /\ scan_ptr < end_ptr /\ scan_ptr < size[tospace]

ScanElem == Scanning /\ idx <= cur.len

ScanSkip ==
  /\ ScanElem
  /\ idx \in cur.isptr => cur.elem[idx] = NULL
  /\ idx' = idx + 1
  /\ UNCHANGED <<heapVars, clientVars, pc, ret, req, scan_ptr, end_ptr>>

ScanPtr == ScanElem /\ idx \in cur.isptr /\ cur.elem[idx] # NULL

\* Mutant: the element is updated only if its tuple is copied now.
ScanForwarded_NoUpdate ==
  /\ ScanPtr
  /\ mem[cur.elem[idx]].forwarding # NULL
  /\ idx' = idx + 1
  /\ UNCHANGED <<heapVars, clientVars, pc, ret, req, scan_ptr, end_ptr>>

ScanForwarded ==
  /\ ScanPtr
  /\ mem[cur.elem[idx]].forwarding # NULL
  /\ mem' = [mem EXCEPT ![To(scan_ptr)].elem[idx] =
                          mem[cur.elem[idx]].forwarding]
  /\ idx' = idx + 1
  /\ UNCHANGED <<size, fromspace, free_ptr, clientVars, pc, ret, req,
                 scan_ptr, end_ptr>>

ScanCopy ==
  /\ ScanPtr
  /\ mem[cur.elem[idx]].forwarding = NULL
  /\ mem[cur.elem[idx]].len <= MaxElem
  /\ mem' = [CopyTo(mem, cur.elem[idx])
               EXCEPT ![To(scan_ptr)].elem[idx] = To(end_ptr)]
  /\ end_ptr' = end_ptr + Size(mem[cur.elem[idx]])
  /\ idx' = idx + 1
  /\ UNCHANGED <<size, fromspace, free_ptr, clientVars, pc, ret, req, scan_ptr>>

ScanAbort ==
  /\ ScanPtr
  /\ mem[cur.elem[idx]].forwarding = NULL
  /\ mem[cur.elem[idx]].len > MaxElem
  /\ pc' = "abort"
  /\ UNCHANGED <<heapVars, clientVars, ret, req, collectVars>>

\* Mutant: the last element of a tuple is not scanned.
ScanNext_OffByOne ==
  /\ Scanning /\ idx >= cur.len
  /\ scan_ptr' = scan_ptr + Size(cur)
  /\ idx' = 1
  /\ UNCHANGED <<heapVars, clientVars, pc, ret, req, end_ptr>>

ScanNext ==
  /\ Scanning /\ idx > cur.len
  /\ scan_ptr' = scan_ptr + Size(cur)
  /\ idx' = 1
  /\ UNCHANGED <<heapVars, clientVars, pc, ret, req, end_ptr>>

-----------------------------------------------------------------------------
(* psc_gccollect: the swap and the loop that updates the roots             *)

Swap ==
  /\ pc = "scan" /\ ~Scanning
  /\ fromspace' = tospace
  /\ free_ptr' = end_ptr
  /\ pc' = "update" /\ idx' = 1
  /\ UNCHANGED <<mem, size, clientVars, ret, req, scan_ptr, end_ptr>>

UpdateLoop == pc = "update" /\ idx \in DOMAIN rootstack

UpdateRoot ==
  /\ UpdateLoop /\ Root(idx) # NULL
  /\ rootstack' = [rootstack EXCEPT ![idx] = mem[Root(idx)].forwarding]
  /\ idx' = idx + 1
  /\ UNCHANGED <<heapVars, reg, pc, ret, req, scan_ptr, end_ptr>>

\* This loop has no test for NULL: t->forwarding reads through it.
UpdateCrash ==
  /\ UpdateLoop /\ Root(idx) = NULL
  /\ pc' = "crash"
  /\ UNCHANGED <<heapVars, clientVars, ret, req, collectVars>>

\* psc_gccollect returns.  What is left in to-space is no longer referred
\* to and is dropped from mem, and the local variables are gone.
UpdateDone ==
  /\ pc = "update" /\ idx = Len(rootstack) + 1
  /\ mem' = [a \in Addr |-> IF a[1] = fromspace THEN mem[a] ELSE NULL]
  /\ pc' = ret
  /\ scan_ptr' = 0 /\ end_ptr' = 0 /\ idx' = 1
  /\ UNCHANGED <<size, fromspace, free_ptr, clientVars, ret, req>>

-----------------------------------------------------------------------------
(* psc_alloc and psc_newtuple                                              *)

bytes == TupleSize(req.n)

\* Mutant: room for the header is taken for room for the tuple.
Fits_HeaderOnly == size[fromspace] - free_ptr >= Header

Fits  == size[fromspace] - free_ptr >= bytes

AllocFits ==
  /\ pc \in {"alloc", "retry"} /\ Fits
  /\ pc' = "bump"
  /\ UNCHANGED <<heapVars, clientVars, ret, req, collectVars>>

\* Mutant: after the collection psc_alloc starts over.
AllocShrink_Again ==
  /\ pc = "alloc" /\ ~Fits
  /\ pc' = "roots" /\ ret' = "alloc"
  /\ scan_ptr' = 0 /\ end_ptr' = 0 /\ idx' = 1
  /\ UNCHANGED <<heapVars, clientVars, req>>

AllocShrink ==
  /\ pc = "alloc" /\ ~Fits
  /\ Collect("retry")
  /\ UNCHANGED <<heapVars, clientVars, req>>

\* to-space is reallocated to the new size and tuples are collected into it.
Grow ==
  /\ pc = "retry" /\ ~Fits
  /\ LET new == GrowTo(size[fromspace], bytes) IN
       /\ new # NULL /\ new <= HeapBound
       /\ size' = [size EXCEPT ![tospace] = new]
  /\ Collect("grown")
  /\ UNCHANGED <<mem, fromspace, free_ptr, clientVars, req>>

\* psc_alloc returns NULL, which psc_newtuple writes through.
GrowCrash ==
  /\ pc = "retry" /\ ~Fits
  /\ GrowTo(size[fromspace], bytes) = NULL
  /\ pc' = "crash"
  /\ UNCHANGED <<heapVars, clientVars, ret, req, collectVars>>

\* Mutant: the other space keeps its size.
GrowBack_Forgotten ==
  /\ pc = "grown"
  /\ pc' = "bump"
  /\ UNCHANGED <<heapVars, clientVars, ret, req, collectVars>>

\* The other space is reallocated to the size just collected into.
GrowBack ==
  /\ pc = "grown"
  /\ size' = [size EXCEPT ![tospace] = size[fromspace]]
  /\ pc' = "bump"
  /\ UNCHANGED <<mem, fromspace, free_ptr, clientVars, ret, req, collectVars>>

\* realloc returns NULL and the assertion after it fails.
ReallocAbort ==
  /\ \/ pc = "retry" /\ ~Fits /\ GrowTo(size[fromspace], bytes) # NULL
     \/ pc = "grown"
  /\ pc' = "abort"
  /\ UNCHANGED <<heapVars, clientVars, ret, req, collectVars>>

FreshId == CHOOSE i \in Ids : \A a \in Begins(fromspace) : mem[a].id # i

NewTuple ==
  /\ pc = "bump"
  /\ mem' = [mem EXCEPT ![From(free_ptr)] =
               [len |-> req.n % (MaxLen + 1),
                isptr |-> req.isptr \cap (1..MaxElem),
                elem |-> [k \in 1..req.n |-> JUNK],
                forwarding |-> NULL,
                id |-> FreshId]]
  /\ reg' = From(free_ptr)
  /\ free_ptr' = free_ptr + bytes
  /\ req' = [n |-> 0, isptr |-> {}]
  /\ pc' = "fill" /\ ret' = "client"
  /\ UNCHANGED <<size, fromspace, rootstack, collectVars>>

Collector ==
  \/ RootSkip \/ RootCopy \/ RootAbort \/ RootsDone
  \/ ScanSkip \/ ScanForwarded \/ ScanCopy \/ ScanAbort \/ ScanNext
  \/ Swap \/ UpdateRoot \/ UpdateCrash \/ UpdateDone

Allocator ==
  \/ AllocFits \/ AllocShrink
  \/ Grow \/ GrowCrash \/ GrowBack \/ ReallocAbort
  \/ NewTuple

Next == \/ \E h \in HeapSizes : GcInit(h)
        \/ Client
        \/ Fill
        \/ Collector
        \/ Allocator

\* The runtime takes the steps of a call; the program may stop at any time.
Spec == Init /\ [][Next]_vars /\ WF_vars(Collector \/ Allocator)

-----------------------------------------------------------------------------
TypeOK ==
  /\ mem \in [Addr -> Tuple \cup {NULL}]
  /\ size \in [{"A", "B"} -> 0..HeapBound]
  /\ fromspace \in {"A", "B"}
  /\ free_ptr \in Nat
  /\ rootstack \in Seq(Ptr)
  /\ reg \in Ptr
  /\ pc \in {"boot", "client", "fill", "alloc", "retry", "grown", "bump",
             "roots", "scan", "update", "crash", "abort"}
  /\ ret \in {"client", "retry", "grown"}
  /\ req \in [n : Nat, isptr : SUBSET Nat]
  /\ scan_ptr \in Nat /\ end_ptr \in Nat /\ idx \in Nat

-----------------------------------------------------------------------------
(* Properties                                                              *)

Collecting == pc \in {"roots", "scan", "update"}

\* The space copies go to, before and after the swap.
CopySpace == IF pc = "update" THEN fromspace ELSE tospace

InFrom(p) == p \in Addr /\ p[1] = fromspace /\ p[2] < size[fromspace]

\* The assertions of psc_gccollect on the pointers it meets (lines 86, 136,
\* 137, 161 and 179): a pointer it has not updated yet leads into from-space,
\* scan_ptr stays in to-space, and every root it goes back to has a copy.
CollectorAsserts ==
  /\ RootLoop /\ Root(idx) # NULL => InFrom(Root(idx))
  /\ ScanPtr => InFrom(cur.elem[idx])
  /\ pc = "scan" => scan_ptr <= size[tospace]
  /\ UpdateLoop /\ Root(idx) # NULL => mem[Root(idx)].forwarding # NULL

\* The tuples of a space fill it up to end: none passes end, no two overlap,
\* and every word before end belongs to one.
EndOf(a) == a[2] + Size(mem[a])

TiledUpTo(s, end) ==
  /\ \A a \in Begins(s) : EndOf(a) <= end
  /\ \A a, b \in Begins(s) : a[2] < b[2] => EndOf(a) <= b[2]
  /\ \A w \in 0..(end - 1) : \E a \in Begins(s) : a[2] <= w /\ w < EndOf(a)

\* psc_newtuple and the collector hand out memory without gap or overlap:
\* from-space up to free_ptr, and while copying to-space up to end_ptr.
HeapTiled ==
  /\ TiledUpTo(fromspace, free_ptr)
  /\ pc \in {"roots", "scan"} => TiledUpTo(tospace, end_ptr)

\* The copies of a collection never run past the end of the space they go
\* to, which the collector does not test as it copies (lines 92 to 104 and
\* 141 to 151).
CopiesFit == Collecting => end_ptr <= size[CopySpace]

\* When psc_alloc hands out memory there is room for it, whichever of its
\* paths led there: it fitted, a collection made room, or the heap grew.
AllocInBounds == pc = "bump" => free_ptr + bytes <= size[fromspace]

\* Outside psc_alloc the two spaces have one size, or the next collection
\* is "in for a nasty surprise" (lines 220 to 225).
SpacesMatch == pc \in {"client", "fill", "alloc"} => size["A"] = size["B"]

\* A collection keeps nothing that the roots do not reach: no smaller set of
\* tuples than the one it leaves holds the roots and is closed.
CollectPrecise ==
  pc = "update" /\ idx = Len(rootstack) + 1 =>
    \A S \in SUBSET Begins(fromspace) :
      /\ ToSet(rootstack) \ {NULL} \subseteq S
      /\ \A a \in S : \A k \in mem[a].isptr :
           mem[a].elem[k] \in S \cup {NULL}
      => S = Begins(fromspace)

\* A heap that has grown never shrinks, and it grows in psc_alloc only.
NeverShrinks ==
  [][\A s \in {"A", "B"} : size'[s] >= size[s]]_vars

\* A call of psc_gccollect or psc_newtuple comes back to the program, unless
\* the process dies in it: the scan loop runs out of tuples, and psc_alloc
\* does not collect for ever.
CallsReturn ==
  pc \notin {"boot", "client", "fill"}
    ~> pc \in {"client", "fill", "crash", "abort"}

\* The heap as the program sees it: tuples by identity.  Until the swap the
\* tuples of from-space are as the program left them but for forwarding.
IdOf(p) == IF p \notin Addr THEN p
           ELSE IF mem[p] = NULL THEN JUNK ELSE mem[p].id

heapById ==
  LET live == Begins(fromspace) IN
  [i \in {mem[a].id : a \in live} |->
     LET t == mem[CHOOSE a \in live : mem[a].id = i] IN
       [isptr |-> t.isptr,
        elem  |-> [k \in DOMAIN t.elem |-> IdOf(t.elem[k])]]]

Abstract == INSTANCE TupleHeap WITH
  heap      <- heapById,
  rootstack <- [j \in DOMAIN rootstack |-> IdOf(rootstack[j])],
  reg       <- IdOf(reg)

\* The program cannot tell that tuples move: copying, swapping and updating
\* roots change nothing it can see but for unreachable tuples, at the swap.
ImplementsTupleHeap == Abstract!Spec

\* The root loop skips NULL roots (line 83), the zeroed slots compiled code
\* starts with and the NULL that test_tuples.c pushes (line 74), so a
\* collection does not die of one.
SurvivesNullRoots == pc = "crash" => NULL \notin ToSet(rootstack)
=============================================================================
