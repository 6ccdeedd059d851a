----------------------------- MODULE RuntimeInv -----------------------------
(***************************************************************************)
(* The inductive invariant of module Runtime: what is true of the heap     *)
(* while the program runs, while tuples are copied, and while the roots    *)
(* are updated.  It is what makes the collector right, and module          *)
(* RuntimeStepsProof proves that every step keeps it when no tuple is      *)
(* longer than isptr.  ContentInv goes on to what the tuples hold; the     *)
(* same module proves it from HeapInv.                                     *)
(***************************************************************************)
EXTENDS Runtime

\* The collection that follows Grow is under way, or has just ended.
Growing == (ret = "grown" /\ Collecting) \/ pc = "grown"

\* The sizes of the two spaces: equal but while the heap grows, when the
\* space being collected into, or just collected into, is the larger.
SizeInv ==
  /\ fromspace \in {"A", "B"}
  /\ req.n \in Nat
  /\ size \in [{"A", "B"} -> Nat]
  /\ ret \in {"client", "retry", "grown"}
  /\ pc \in {"boot", "client", "fill", "alloc", "retry", "grown", "bump",
             "roots", "scan", "update", "crash", "abort"}
  /\ pc = "boot" => size["A"] = 0
  /\ pc \in {"crash", "abort"} \/ Growing \/ size["A"] = size["B"]
  /\ Growing /\ pc \in {"roots", "scan"} => size[fromspace] <= size[tospace]
  /\ Growing /\ pc \in {"update", "grown"} => size[tospace] <= size[fromspace]

-----------------------------------------------------------------------------
Dead     == pc \in {"crash", "abort"}
Copying  == pc \in {"roots", "scan"}
Updating == pc = "update"
Idle     == ~Dead /\ ~Copying /\ ~Updating

\* A reference from a set of places: to a tuple of the space, or NULL.
Refs(s) == Begins(s) \cup {NULL}

\* The pointers in tuple a are references into space s.
PointsInto(a, s) == \A k \in mem[a].isptr : mem[a].elem[k] \in Refs(s)

\* Every tuple has len elements, and its pointers are among them.
ShapeInv ==
  \A a \in Addr : mem[a] # NULL =>
    /\ mem[a].len <= MaxElem
    /\ Len(mem[a].elem) = mem[a].len
    /\ mem[a].isptr \subseteq 1..mem[a].len

\* From-space is filled with tuples up to free_ptr, and that is within it.
LayoutInv ==
  /\ TiledUpTo(fromspace, free_ptr)
  /\ free_ptr <= size[fromspace]

\* The program runs, or psc_alloc is between collections.
IdleInv ==
  /\ Begins(tospace) = {}
  /\ \A a \in Begins(fromspace) :
       /\ mem[a].forwarding = NULL
       /\ PointsInto(a, fromspace) \/ (pc = "fill" /\ a = reg)
  /\ \A j \in DOMAIN rootstack : rootstack[j] \in Refs(fromspace)
  /\ reg \in Refs(fromspace)
  /\ pc = "fill" => reg # NULL
  /\ pc \notin {"client", "fill"} => reg = NULL
  /\ pc = "bump" => free_ptr + bytes <= size[fromspace]

\* Each copy is the copy of one tuple, which forwards to it.
ForwardInv ==
  /\ \A a \in Begins(fromspace) :
       mem[a].forwarding # NULL =>
         /\ mem[a].forwarding \in Begins(tospace)
         /\ mem[mem[a].forwarding].len = mem[a].len
  /\ \A a, b \in Begins(fromspace) :
       mem[a].forwarding # NULL /\ mem[a].forwarding = mem[b].forwarding
         => a = b
  /\ \A c \in Begins(tospace) :
       /\ mem[c].forwarding = NULL
       /\ \E a \in Begins(fromspace) : mem[a].forwarding = c

\* Element k of copy c has been updated.
Scanned(c, k) ==
  pc = "scan" /\ (c[2] < scan_ptr \/ (c[2] = scan_ptr /\ k < idx))

\* Tuples are being copied: the originals are whole, the copies point into
\* to-space as far as they are scanned and into from-space beyond.
CopyInv ==
  /\ TiledUpTo(tospace, end_ptr)
  /\ ForwardInv
  /\ \A a \in Begins(fromspace) : PointsInto(a, fromspace)
  /\ \A c \in Begins(tospace) : \A k \in mem[c].isptr :
       mem[c].elem[k] \in IF Scanned(c, k) THEN Refs(tospace)
                                            ELSE Refs(fromspace)
  /\ \A j \in DOMAIN rootstack :
       /\ rootstack[j] \in Refs(fromspace)
       /\ rootstack[j] # NULL /\ (pc = "scan" \/ j < idx)
            => mem[rootstack[j]].forwarding # NULL
  /\ reg = NULL
  /\ pc = "roots" => scan_ptr = 0 /\ idx <= Len(rootstack) + 1
  /\ idx >= 1
  /\ scan_ptr <= end_ptr
  /\ scan_ptr < end_ptr => IsTuple(To(scan_ptr))

\* The spaces are swapped: the tuples of the new from-space point into it,
\* and the roots not updated yet lead to tuples that forward into it.
UpdateInv ==
  /\ \A a \in Begins(fromspace) :
       mem[a].forwarding = NULL /\ PointsInto(a, fromspace)
  /\ \A j \in DOMAIN rootstack : rootstack[j] # NULL =>
       IF j < idx THEN rootstack[j] \in Begins(fromspace)
       ELSE /\ rootstack[j] \in Begins(tospace)
            /\ mem[rootstack[j]].forwarding \in Begins(fromspace)
  /\ free_ptr = end_ptr
  /\ reg = NULL
  /\ idx >= 1

\* psc_newtuple was asked for a tuple that isptr has room for.
ReqInv == req.n <= MaxElem /\ req.isptr \subseteq 1..req.n

\* What Grow added is there for the tuple it was added for: copies take no
\* more than from-space had in use.
GrowInv ==
  /\ Growing /\ Copying  => size[fromspace] + bytes <= size[tospace]
  /\ Growing /\ ~Copying => free_ptr + bytes <= size[fromspace]

HeapInv ==
  /\ TypeOK
  /\ SizeInv
  /\ ReqInv
  /\ GrowInv
  /\ ShapeInv
  /\ LayoutInv
  /\ Idle => IdleInv
  /\ Copying => CopyInv
  /\ Updating => UpdateInv

-----------------------------------------------------------------------------
(* What is in the tuples, which HeapInv says little of: a copy holds what   *)
(* its original held, and only tuples that the roots reach are copied.      *)

\* No two tuples of the program have one identity.
NamesInv ==
  \A a, b \in Begins(fromspace) : mem[a].id = mem[b].id => a = b

\* An element that is no pointer is data, or has not been stored yet; a tuple
\* that is about to be filled holds nothing.
DataInv ==
  /\ \A a \in Begins(fromspace) : \A k \in 1..mem[a].len :
       k \notin mem[a].isptr => mem[a].elem[k] \in Data \cup {JUNK}
  /\ pc = "fill" => \A k \in 1..mem[reg].len : mem[reg].elem[k] = JUNK

\* While psc_newtuple is under way, its argument is one the program gives it.
AskedInv ==
  pc \in {"alloc", "retry", "grown", "bump"} \/ (Collecting /\ ret # "client")
    => req.n \in NElems

\* Where a pointer into the space that is being collected will lead.
Forwarded(p) == IF p = NULL THEN NULL ELSE mem[p].forwarding

\* c is the copy of a: it points to copies as far as it has been scanned.
IsCopy(c, a) ==
  /\ mem[c].id = mem[a].id
  /\ mem[c].isptr = mem[a].isptr
  /\ \A k \in 1..mem[a].len :
       IF k \in mem[a].isptr /\ Scanned(c, k)
         THEN /\ mem[c].elem[k] = Forwarded(mem[a].elem[k])
              /\ mem[a].elem[k] # NULL => mem[c].elem[k] # NULL
         ELSE mem[c].elem[k] = mem[a].elem[k]

CopiedInv ==
  \A a \in Begins(fromspace) :
    mem[a].forwarding # NULL => IsCopy(mem[a].forwarding, a)

\* A root that is still to be updated leads to the tuple it led to before.
RenamedInv ==
  \A j \in DOMAIN rootstack : rootstack[j] # NULL /\ j >= idx
    => mem[mem[rootstack[j]].forwarding].id = mem[rootstack[j]].id

\* A set of tuples no pointer leads out of.
Closed(S) ==
  \A a \in S : \A k \in mem[a].isptr : mem[a].elem[k] \in S \cup {NULL}

\* The tuples copied so far are in every closed set that holds the roots.
NeededInv ==
  \A S \in SUBSET Begins(fromspace) :
    /\ \A j \in DOMAIN rootstack : rootstack[j] \in S \cup {NULL}
    /\ Closed(S)
    => \A a \in Begins(fromspace) : mem[a].forwarding # NULL => a \in S

\* What entry j of the root stack is when all of them have been updated.
NewRoot(j) == IF j < idx THEN rootstack[j] ELSE Forwarded(rootstack[j])

\* No closed set of copies but the set of all copies holds the new roots.
KeptInv ==
  \A S \in SUBSET Begins(fromspace) :
    /\ \A j \in DOMAIN rootstack : NewRoot(j) \in S \cup {NULL}
    /\ Closed(S)
    => S = Begins(fromspace)

\* Copying changes nothing but where tuples are, and copies nothing but what
\* is needed, in the middle of a collection as at its end (lines 80 to 186).
ContentInv ==
  /\ NamesInv
  /\ DataInv
  /\ AskedInv
  /\ Copying  => CopiedInv /\ NeededInv
  /\ Updating => RenamedInv /\ KeptInv
=============================================================================
