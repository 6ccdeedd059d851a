---------------------------- MODULE RuntimeProof ----------------------------
(***************************************************************************)
(* Theorems about the tuple heap of runtime.c, for every value of the      *)
(* constants of module Runtime, and the steps of the collector: HeapInv is *)
(* an inductive invariant when no tuple is longer than isptr.              *)
(***************************************************************************)
EXTENDS RuntimeInv, FiniteSetTheorems, SequenceTheorems, TLAPS

-----------------------------------------------------------------------------
(* Why copies fit: intervals that are moved and packed without gaps take   *)
(* no more room than they took.                                            *)

\* Interval x of a family, given by its offsets and its sizes.
Covers(off, sz, x, w) == off[x] <= w /\ w < off[x] + sz[x]

Disjoint(S, off, sz) ==
  \A x, y \in S : off[x] < off[y] => off[x] + sz[x] <= off[y]

LEMMA InjectionBound ==
  ASSUME NEW m \in Nat, NEW n \in Nat,
         NEW f \in [0..(m - 1) -> 0..(n - 1)],
         \A v, w \in 0..(m - 1) : f[v] = f[w] => v = w
  PROVE  m <= n
<1>1. f \in Injection(0..(m - 1), 0..(n - 1))
  BY DEF Injection, IsInjective
<1>2. Cardinality(0..(m - 1)) <= Cardinality(0..(n - 1))
  BY <1>1, FS_Interval, FS_Injection
<1>3. Cardinality(0..(m - 1)) = m /\ Cardinality(0..(n - 1)) = n
  BY FS_Interval
<1> QED
  BY <1>2, <1>3

\* The intervals T cover 0..end-1; each is the copy of an interval of S of
\* the same size, no two of the same one; the intervals S do not overlap and
\* none passes free.
Packed(S, soff, ssz, T, toff, tsz, orig, end, free) ==
  /\ soff \in [S -> Nat] /\ ssz \in [S -> Nat]
  /\ toff \in [T -> Nat] /\ tsz \in [T -> Nat]
  /\ orig \in [T -> S]
  /\ end \in Nat /\ free \in Nat
  /\ \A x, y \in T : orig[x] = orig[y] => x = y
  /\ \A x \in T : tsz[x] = ssz[orig[x]]
  /\ \A x, y \in S : soff[x] = soff[y] => x = y
  /\ Disjoint(S, soff, ssz)
  /\ \A x \in S : soff[x] + ssz[x] <= free
  /\ \A w \in 0..(end - 1) : \E x \in T : Covers(toff, tsz, x, w)

\* Then the copies take no more room than the intervals did: each word of a
\* copy comes from a word before free of its own.
THEOREM CopiesPack ==
  ASSUME NEW S, NEW soff, NEW ssz, NEW T, NEW toff, NEW tsz, NEW orig,
         NEW end, NEW free,
         Packed(S, soff, ssz, T, toff, tsz, orig, end, free)
  PROVE  end <= free
<1> USE DEF Packed
<1> DEFINE W == 0..(end - 1)
           tile == [w \in W |-> CHOOSE x \in T : Covers(toff, tsz, x, w)]
           g == [w \in W |-> soff[orig[tile[w]]] + (w - toff[tile[w]])]
<1>1. \A w \in W : tile[w] \in T /\ Covers(toff, tsz, tile[w], w)
  OBVIOUS
<1> HIDE DEF tile
<1>2. ASSUME NEW w \in W
      PROVE  /\ g[w] \in 0..(free - 1)
             /\ Covers(soff, ssz, orig[tile[w]], g[w])
             /\ g[w] - soff[orig[tile[w]]] = w - toff[tile[w]]
  <2> DEFINE t == tile[w]
             s == orig[t]
  <2>1. t \in T /\ toff[t] <= w /\ w < toff[t] + tsz[t]
    BY <1>1 DEF Covers
  <2>2. s \in S /\ tsz[t] = ssz[s] /\ toff[t] \in Nat /\ soff[s] \in Nat
        /\ ssz[s] \in Nat /\ soff[s] + ssz[s] <= free
    BY <2>1
  <2>3. g[w] = soff[s] + (w - toff[t])
    OBVIOUS
  <2> HIDE DEF g, t, s
  <2> QED
    BY <2>1, <2>2, <2>3 DEF Covers, t, s
<1>3. g \in [W -> 0..(free - 1)]
  <2>1. g = [w \in W |-> g[w]]
    OBVIOUS
  <2> QED
    BY <1>2, <2>1
<1>4. ASSUME NEW v \in W, NEW w \in W, g[v] = g[w]
      PROVE  v = w
  <2> HIDE DEF g
  <2> DEFINE a == orig[tile[v]]
             b == orig[tile[w]]
  <2>1. /\ a \in S /\ b \in S
        /\ Covers(soff, ssz, a, g[v]) /\ Covers(soff, ssz, b, g[v])
    BY <1>1, <1>2, <1>4
  <2>2. g[v] \in Nat /\ soff[a] \in Nat /\ soff[b] \in Nat
        /\ ssz[a] \in Nat /\ ssz[b] \in Nat
    BY <2>1, <1>2
  <2>3. ~(soff[a] < soff[b]) /\ ~(soff[b] < soff[a])
    BY <2>1, <2>2 DEF Disjoint, Covers
  <2>4. a = b
    BY <2>1, <2>2, <2>3
  <2>5. tile[v] = tile[w]
    BY <1>1, <2>4
  <2>6. g[v] - soff[a] = v - toff[tile[v]] /\ g[w] - soff[b] = w - toff[tile[w]]
    BY <1>2
  <2>7. toff[tile[v]] \in Nat
    BY <1>1
  <2> QED
    BY <1>4, <2>2, <2>4, <2>5, <2>6, <2>7
<1> HIDE DEF g
<1> QED
  BY <1>3, <1>4, InjectionBound

-----------------------------------------------------------------------------
(* Sizes of the spaces                                                     *)

LEMMA RoundUpType ==
  ASSUME NEW n \in Nat, NEW a \in Nat \ {0}
  PROVE  RoundUp(n, a) \in 0..(SizeMod - 1)
<1>1. (a - (n % a)) % a \in 0..(a - 1)
  OBVIOUS
<1>2. (n + ((a - (n % a)) % a)) % SizeMod \in 0..(SizeMod - 1)
  BY <1>1, SizeAssumption
<1> QED
  BY <1>2 DEF RoundUp, Plus

\* What psc_alloc grows to is at least what it asks for and a size_t.
LEMMA GrowToGrows ==
  ASSUME NEW c \in Nat, NEW b \in Nat, GrowTo(c, b) # NULL
  PROVE  GrowTo(c, b) \in Nat /\ GrowTo(c, b) >= c /\ GrowTo(c, b) - c >= b
<1> DEFINE enough(n) == n >= c /\ n - c >= b
           half  == ((c * 3) % SizeMod) \div 2
           more  == RoundUp(IF half = 0 THEN 1 ELSE half, Page)
           exact == RoundUp(Plus(c, b), Page)
           new   == IF enough(more) THEN more ELSE exact
<1>1. GrowTo(c, b) = IF enough(new) THEN new ELSE NULL
  BY DEF GrowTo
<1>1a. half \in Nat
  BY SizeAssumption
<1>1b. more \in Nat
  BY <1>1a, RoundUpType, SizeAssumption
<1>1c. Plus(c, b) \in Nat
  BY SizeAssumption DEF Plus
<1>1d. exact \in Nat
  BY <1>1c, RoundUpType, SizeAssumption
<1>1e. new \in Nat
  BY <1>1b, <1>1d
<1> HIDE DEF new
<1>2. enough(new)
  BY <1>1
<1> QED
  BY <1>1, <1>1e, <1>2

LEMMA BytesType ==
  ASSUME NEW n \in Nat
  PROVE  TupleSize(n) \in Nat \ {0}
<1>1. Word * n \in Nat
  BY SizeAssumption
<1> QED
  BY <1>1, SizeAssumption DEF TupleSize

LEMMA SizeInit == Init => SizeInv
BY DEF Init, SizeInv, Growing, Collecting

\* The steps that neither begin nor end a collection, nor resize a space.
LEMMA SizeQuiet ==
  ASSUME SizeInv, UNCHANGED <<size, fromspace>>, pc' \in {"client", "fill",
           "alloc", "retry", "grown", "bump", "roots", "scan", "update", "crash", "abort"},
         req'.n \in Nat,
         \/ UNCHANGED <<pc, ret>>
         \/ ret' \in {"client", "retry"} /\ pc' # "grown" /\ size["A"] = size["B"]
         \/ ret' = ret /\ pc' \in {"crash", "abort"}
         \/ ret' = ret /\ pc = "roots" /\ pc' = "scan"
         \/ ret' = ret /\ pc = "update" /\ pc' = ret
  PROVE  SizeInv'
BY DEF SizeInv, Growing, Collecting, tospace

LEMMA SizeStep == SizeInv /\ [Next]_vars => SizeInv'
<1> SUFFICES ASSUME SizeInv, [Next]_vars PROVE SizeInv'
  OBVIOUS
<1> USE DEF heapVars, clientVars, collectVars
<1>1. ASSUME NEW h \in HeapSizes, GcInit(h) PROVE SizeInv'
  <2>1. RoundUp(h, Align) \in Nat
    BY RoundUpType, SizeAssumption
  <2> QED
    BY <1>1, <2>1 DEF GcInit, SizeInv, Growing, Collecting
<1>2. CASE Client
  BY <1>2, SizeAssumption DEF Client, PushRoot, StoreRoot, PopRoot, LoadRoot,
     GetElem, CallCollect, Collect, CallNewTuple, SizeInv, Growing, Collecting
<1>3. CASE Fill
  BY <1>3 DEF Fill, FillTuple, SizeInv, Growing, Collecting
<1>4. CASE Collector
  <2>1. CASE RootSkip \/ RootCopy \/ RootAbort \/ RootsDone
    BY <2>1, SizeQuiet DEF RootSkip, RootCopy, RootAbort, RootsDone, RootLoop,
       SizeInv
  <2>2. CASE ScanSkip \/ ScanForwarded \/ ScanCopy \/ ScanAbort \/ ScanNext
    BY <2>2, SizeQuiet DEF ScanSkip, ScanForwarded, ScanCopy, ScanAbort,
       ScanNext, ScanPtr, ScanElem, Scanning, SizeInv
  <2>3. CASE Swap
    BY <2>3 DEF Swap, SizeInv, Growing, Collecting, tospace
  <2>4. CASE UpdateRoot \/ UpdateCrash
    BY <2>4, SizeQuiet DEF UpdateRoot, UpdateCrash, UpdateLoop, SizeInv
  <2>5. CASE UpdateDone
    BY <2>5, SizeQuiet DEF UpdateDone, SizeInv
  <2> QED
    BY <1>4, <2>1, <2>2, <2>3, <2>4, <2>5 DEF Collector
<1>5. CASE Allocator
  <2>1. CASE AllocFits \/ AllocShrink
    BY <2>1 DEF AllocFits, AllocShrink, Collect, SizeInv, Growing, Collecting
  <2>2. CASE Grow
    <3>1. bytes \in Nat
      BY BytesType DEF bytes, SizeInv
    <3>2. size[fromspace] \in Nat
      BY DEF SizeInv
    <3> DEFINE new == GrowTo(size[fromspace], bytes)
    <3>3. new # NULL /\ size' = [size EXCEPT ![tospace] = new]
      BY <2>2 DEF Grow
    <3>4. new \in Nat /\ new >= size[fromspace]
      BY <3>1, <3>2, <3>3, GrowToGrows
    <3> HIDE DEF new
    <3> QED
      BY <2>2, <3>3, <3>4 DEF Grow, Collect, SizeInv, Growing, Collecting, tospace
  <2>3. CASE GrowCrash \/ ReallocAbort
    BY <2>3, SizeQuiet DEF GrowCrash, ReallocAbort, SizeInv
  <2>4. CASE GrowBack
    BY <2>4 DEF GrowBack, SizeInv, Growing, Collecting, tospace
  <2>5. CASE NewTuple
    BY <2>5 DEF NewTuple, SizeInv, Growing, Collecting
  <2> QED
    BY <1>5, <2>1, <2>2, <2>3, <2>4, <2>5 DEF Allocator
<1>6. CASE UNCHANGED vars
  BY <1>6 DEF vars, SizeInv, Growing, Collecting, tospace
<1> QED
  BY <1>1, <1>2, <1>3, <1>4, <1>5, <1>6 DEF Next

THEOREM SizeInvariant == Spec => []SizeInv
<1>1. Init => SizeInv
  BY SizeInit
<1>2. SizeInv /\ [Next]_vars => SizeInv'
  BY SizeStep
<1> QED
  BY <1>1, <1>2, PTL DEF Spec

\* Whenever the program has control, or psc_alloc has just been called, the
\* two spaces have one size: the second realloc of psc_alloc is never skipped.
THEOREM SpacesMatchHolds == Spec => []SpacesMatch
<1>1. SizeInv => SpacesMatch
  BY DEF SizeInv, SpacesMatch, Growing, Collecting
<1> QED
  BY <1>1, SizeInvariant, PTL

LEMMA SizeGrows ==
  SizeInv /\ [Next]_vars => \A s \in {"A", "B"} : size'[s] >= size[s]
<1> SUFFICES ASSUME SizeInv, [Next]_vars
             PROVE  size'["A"] >= size["A"] /\ size'["B"] >= size["B"]
  OBVIOUS
<1> USE DEF heapVars, clientVars, collectVars
<1>1. CASE size' = size
  BY <1>1 DEF SizeInv
<1>2. ASSUME NEW h \in HeapSizes, GcInit(h)
      PROVE  size'["A"] >= size["A"] /\ size'["B"] >= size["B"]
  <2>1. RoundUp(h, Align) \in Nat
    BY RoundUpType, SizeAssumption
  <2> QED
    BY <1>2, <2>1 DEF GcInit, SizeInv, Growing, Collecting
<1>3. CASE Grow
  <2>1. bytes \in Nat
    BY BytesType DEF bytes, SizeInv
  <2>2. size[fromspace] \in Nat
    BY DEF SizeInv
  <2> DEFINE new == GrowTo(size[fromspace], bytes)
  <2>3. new # NULL /\ size' = [size EXCEPT ![tospace] = new] /\ pc = "retry"
    BY <1>3 DEF Grow
  <2>4. new \in Nat /\ new >= size[fromspace]
    BY <2>1, <2>2, <2>3, GrowToGrows
  <2> HIDE DEF new
  <2> QED
    BY <2>3, <2>4 DEF SizeInv, Growing, Collecting, tospace
<1>4. CASE GrowBack
  BY <1>4 DEF GrowBack, SizeInv, Growing, Collecting, tospace
<1>5. size' = size \/ (\E h \in HeapSizes : GcInit(h)) \/ Grow \/ GrowBack
  <2>1. Client \/ Fill => size' = size
    BY DEF Client, PushRoot, StoreRoot, PopRoot, LoadRoot, GetElem,
       CallCollect, CallNewTuple, Fill, FillTuple
  <2>2. Collector => size' = size
    BY DEF Collector, RootSkip, RootCopy, RootAbort, RootsDone, ScanSkip,
       ScanForwarded, ScanCopy, ScanAbort, ScanNext, Swap, UpdateRoot,
       UpdateCrash, UpdateDone
  <2>3. Allocator => size' = size \/ Grow \/ GrowBack
    BY DEF Allocator, AllocFits, AllocShrink, GrowCrash, ReallocAbort, NewTuple
  <2> QED
    BY <2>1, <2>2, <2>3 DEF Next, vars
<1> QED
  BY <1>1, <1>2, <1>3, <1>4, <1>5

\* No step makes a space smaller: psc_alloc's arithmetic never wraps around
\* to a size below the one the heap has, and nothing releases memory.
THEOREM NeverShrinksHolds == Spec => NeverShrinks
<1>1. SizeInv /\ [Next]_vars => [\A s \in {"A", "B"} : size'[s] >= size[s]]_vars
  BY SizeGrows
<1> QED
  BY <1>1, SizeInvariant, PTL DEF Spec, NeverShrinks

-----------------------------------------------------------------------------
(* Addresses, tuples and the room copies need                              *)

LEMMA AddrFacts ==
  /\ \A a \in Addr : /\ a = <<a[1], a[2]>>
                     /\ a[1] \in {"A", "B"} /\ a[2] \in 0..HeapBound
  /\ \A s \in {"A", "B"}, o \in 0..HeapBound :
       /\ <<s, o>> \in Addr
       /\ <<s, o>>[1] = s /\ <<s, o>>[2] = o
BY SizeAssumption DEF Addr

LEMMA AddrEqual ==
  ASSUME NEW a \in Addr, NEW b \in Addr, a[1] = b[1], a[2] = b[2]
  PROVE  a = b
BY AddrFacts

LEMMA SpaceFacts ==
  ASSUME TypeOK
  PROVE  /\ fromspace \in {"A", "B"} /\ tospace \in {"A", "B"}
         /\ fromspace # tospace
         /\ size[fromspace] \in 0..HeapBound /\ size[tospace] \in 0..HeapBound
BY DEF TypeOK, tospace

LEMMA TupleFacts ==
  ASSUME TypeOK, NEW a \in Addr, mem[a] # NULL
  PROVE  /\ mem[a] \in Tuple
         /\ mem[a].len \in 0..MaxLen /\ mem[a].isptr \subseteq 1..MaxElem
         /\ mem[a].elem \in Seq(Value) /\ mem[a].forwarding \in Ptr
         /\ mem[a].id \in Ids
         /\ Size(mem[a]) \in Nat \ {0}
<1>1. mem[a] \in Tuple
  BY DEF TypeOK
<1>2. mem[a].len \in Nat
  BY <1>1, SizeAssumption DEF Tuple
<1>3. Size(mem[a]) \in Nat \ {0}
  BY <1>2, BytesType DEF Size
<1> QED
  BY <1>1, <1>3 DEF Tuple

\* A space that is tiled up to end has no tuple at end.
LEMMA TilingEnds ==
  ASSUME TypeOK, NEW s, NEW end \in Nat, TiledUpTo(s, end),
         NEW a \in Begins(s)
  PROVE  a[2] < end
<1>1. a \in Addr /\ mem[a] # NULL /\ a[2] + Size(mem[a]) <= end
  BY DEF TiledUpTo, Begins, EndOf
<1> QED
  BY <1>1, TupleFacts, AddrFacts

\* The copies made so far, and the next one, take no more than what is in
\* use in from-space.
LEMMA Room ==
  ASSUME TypeOK, LayoutInv, TiledUpTo(tospace, end_ptr), ForwardInv
  PROVE  /\ end_ptr <= free_ptr
         /\ \A p \in Begins(fromspace) : mem[p].forwarding = NULL
              => end_ptr + Size(mem[p]) <= free_ptr
<1> DEFINE S == Begins(fromspace)
           T == Begins(tospace)
           soff == [a \in S |-> a[2]]
           ssz  == [a \in S |-> Size(mem[a])]
           toff == [a \in T |-> a[2]]
           tsz  == [a \in T |-> Size(mem[a])]
           orig == [c \in T |-> CHOOSE a \in S : mem[a].forwarding = c]
<1>1. /\ \A a \in S : a \in Addr /\ a[1] = fromspace /\ mem[a] # NULL
      /\ \A c \in T : c \in Addr /\ c[1] = tospace /\ mem[c] # NULL
  BY DEF Begins
<1>2. /\ \A a \in S : a[2] \in Nat /\ Size(mem[a]) \in Nat
      /\ \A c \in T : c[2] \in Nat /\ Size(mem[c]) \in Nat
  BY <1>1, TupleFacts, AddrFacts
<1>3. /\ soff \in [S -> Nat] /\ ssz \in [S -> Nat]
      /\ toff \in [T -> Nat] /\ tsz \in [T -> Nat]
  BY <1>2
<1>4. \A c \in T : orig[c] \in S /\ mem[orig[c]].forwarding = c
  BY DEF ForwardInv
<1>5. orig \in [T -> S]
  BY <1>4
<1>6. \A x, y \in S : soff[x] = soff[y] => x = y
  BY <1>1, AddrEqual
<1>7. Disjoint(S, soff, ssz)
  BY DEF LayoutInv, TiledUpTo, Disjoint, EndOf
<1>8. \A x \in S : soff[x] + ssz[x] <= free_ptr
  BY DEF LayoutInv, TiledUpTo, EndOf
<1>9. \A c \in T : tsz[c] = ssz[orig[c]]
  <2> SUFFICES ASSUME NEW c \in T PROVE tsz[c] = ssz[orig[c]]
    OBVIOUS
  <2>1. orig[c] \in S /\ mem[orig[c]].forwarding = c
    BY <1>4
  <2>2. c # NULL
    BY <1>1, ValueAssumption
  <2>3. mem[c].len = mem[orig[c]].len
    BY <2>1, <2>2 DEF ForwardInv
  <2>4. tsz[c] = TupleSize(mem[c].len) /\ ssz[orig[c]] = TupleSize(mem[orig[c]].len)
    BY <2>1 DEF Size
  <2> QED
    BY <2>3, <2>4
<1>10. \A w \in 0..(end_ptr - 1) : \E x \in T : Covers(toff, tsz, x, w)
  BY DEF TiledUpTo, Covers, EndOf
<1>11. free_ptr \in Nat /\ end_ptr \in Nat
  BY DEF TypeOK
<1>12. \A x, y \in T : orig[x] = orig[y] => x = y
  BY <1>4
<1> HIDE DEF S, T, soff, ssz, toff, tsz, orig
<1>13. end_ptr <= free_ptr
  <2>1. Packed(S, soff, ssz, T, toff, tsz, orig, end_ptr, free_ptr)
    BY <1>3, <1>5, <1>6, <1>7, <1>8, <1>9, <1>10, <1>11, <1>12 DEF Packed
  <2> QED
    BY <2>1, CopiesPack
<1>14. ASSUME NEW p \in S, mem[p].forwarding = NULL
       PROVE  end_ptr + Size(mem[p]) <= free_ptr
  <2> DEFINE c0 == <<tospace, end_ptr>>
             T2 == T \cup {c0}
             toff2 == [c \in T2 |-> IF c = c0 THEN end_ptr ELSE toff[c]]
             tsz2  == [c \in T2 |-> IF c = c0 THEN ssz[p] ELSE tsz[c]]
             orig2 == [c \in T2 |-> IF c = c0 THEN p ELSE orig[c]]
             end2  == end_ptr + ssz[p]
  <2>1. c0 \notin T
    BY TilingEnds, <1>11 DEF T
  <2>2. \A c \in T : orig[c] # p
    BY <1>4, <1>1, <1>14, ValueAssumption
  <2>3. ssz[p] = Size(mem[p]) /\ ssz[p] \in Nat
    BY <1>3 DEF ssz
  <2>4. toff2 \in [T2 -> Nat] /\ tsz2 \in [T2 -> Nat] /\ orig2 \in [T2 -> S]
    BY <1>3, <1>5, <1>11, <2>3
  <2>5. \A x, y \in T2 : orig2[x] = orig2[y] => x = y
    BY <1>12, <2>2
  <2>6. \A x \in T2 : tsz2[x] = ssz[orig2[x]]
    BY <1>9
  <2>7. ASSUME NEW w \in 0..(end2 - 1)
        PROVE  \E x \in T2 : Covers(toff2, tsz2, x, w)
    <3>1. CASE w < end_ptr
      <4>1. PICK x \in T : Covers(toff, tsz, x, w)
        BY <1>10, <1>11, <3>1
      <4>2. x \in T2 /\ x # c0
        BY <2>1
      <4> QED
        BY <4>1, <4>2 DEF Covers
    <3>2. CASE w >= end_ptr
      <4>1. c0 \in T2 /\ toff2[c0] = end_ptr /\ tsz2[c0] = ssz[p]
        OBVIOUS
      <4>2. w < end_ptr + ssz[p]
        BY <1>11, <2>3
      <4> QED
        BY <3>2, <4>1, <4>2 DEF Covers
    <3>3. w \in Int
      OBVIOUS
    <3> HIDE DEF T2, toff2, tsz2
    <3> QED
      BY <3>1, <3>2, <3>3, <1>11
  <2>8. end2 \in Nat
    BY <1>11, <2>3
  <2> HIDE DEF T2, toff2, tsz2, orig2, end2
  <2>9. end2 <= free_ptr
    <3>1. Packed(S, soff, ssz, T2, toff2, tsz2, orig2, end2, free_ptr)
      BY <1>3, <1>6, <1>7, <1>8, <1>11, <2>4, <2>5, <2>6, <2>7, <2>8 DEF Packed
    <3> QED
      BY <3>1, CopiesPack
  <2> QED
    BY <2>9, <2>3 DEF end2
<1> QED
  BY <1>13, <1>14 DEF S

-----------------------------------------------------------------------------
(* Tuples as values                                                        *)

LEMMA CopyIsTuple ==
  ASSUME NEW t \in Tuple, Len(t.elem) = t.len
  PROVE  Copy(t) = t
<1>1. t.elem \in Seq(Value)
  BY DEF Tuple
<1>2. SubSeq(t.elem, 1, t.len) = t.elem
  BY <1>1, SubSeqFull
<1> QED
  BY <1>2 DEF Copy, Tuple

LEMMA ForwardType ==
  ASSUME NEW t \in Tuple, NEW c \in Ptr
  PROVE  LET u == [t EXCEPT !.forwarding = c] IN
           /\ u \in Tuple /\ u.forwarding = c
           /\ u.len = t.len /\ u.isptr = t.isptr /\ u.elem = t.elem /\ u.id = t.id
BY DEF Tuple

LEMMA StoreType ==
  ASSUME NEW t \in Tuple, NEW k \in 1..Len(t.elem), NEW v \in Value
  PROVE  LET u == [t EXCEPT !.elem[k] = v] IN
           /\ u \in Tuple /\ u.forwarding = t.forwarding
           /\ u.len = t.len /\ u.isptr = t.isptr /\ u.id = t.id
           /\ Len(u.elem) = Len(t.elem) /\ u.elem[k] = v
           /\ \A j \in 1..Len(t.elem) : j # k => u.elem[j] = t.elem[j]
<1> DEFINE e == [t.elem EXCEPT ![k] = v]
<1>1. t.elem \in Seq(Value)
  BY DEF Tuple
<1>2. /\ e \in Seq(Value) /\ Len(e) = Len(t.elem)
      /\ \A j \in 1..Len(t.elem) : e[j] = IF j = k THEN v ELSE t.elem[j]
  BY <1>1, ExceptSeq
<1> HIDE DEF e
<1>3. /\ [t EXCEPT !.elem = e] \in Tuple /\ [t EXCEPT !.elem = e].elem = e
      /\ [t EXCEPT !.elem = e].forwarding = t.forwarding
      /\ [t EXCEPT !.elem = e].len = t.len
      /\ [t EXCEPT !.elem = e].isptr = t.isptr
      /\ [t EXCEPT !.elem = e].id = t.id
  BY <1>2 DEF Tuple
<1>4. [t EXCEPT !.elem[k] = v] = [t EXCEPT !.elem = e]
  BY DEF e, Tuple
<1> QED
  BY <1>2, <1>3, <1>4

-----------------------------------------------------------------------------
(* Steps that leave the heap alone                                         *)

LEMMA HeapSame ==
  ASSUME HeapInv, UNCHANGED heapVars
  PROVE  /\ tospace' = tospace
         /\ \A s : Begins(s)' = Begins(s) /\ Refs(s)' = Refs(s)
         /\ \A a, s : PointsInto(a, s)' <=> PointsInto(a, s)
         /\ ShapeInv' /\ LayoutInv'
<1> USE DEF heapVars
<1>1. /\ tospace' = tospace
      /\ \A s : Begins(s)' = Begins(s) /\ Refs(s)' = Refs(s)
  BY DEF tospace, Begins, Refs
<1>2. \A a : EndOf(a)' = EndOf(a)
  BY DEF EndOf
<1>3. \A a, s : PointsInto(a, s)' <=> PointsInto(a, s)
  BY <1>1 DEF PointsInto
<1>4. ShapeInv'
  BY DEF HeapInv, ShapeInv
<1>5. LayoutInv'
  BY <1>1, <1>2 DEF HeapInv, LayoutInv, TiledUpTo
<1> QED
  BY <1>1, <1>3, <1>4, <1>5

LEMMA RefIsPtr == \A s : Refs(s) \subseteq Ptr
BY DEF Refs, Begins, Ptr

-----------------------------------------------------------------------------
(* What copying a tuple does to memory                                     *)

LEMMA CopiesRoom ==
  ASSUME HeapInv, Copying
  PROVE  /\ end_ptr <= size[tospace]
         /\ \A p \in Begins(fromspace) : mem[p].forwarding = NULL
              => end_ptr + Size(mem[p]) <= size[tospace]
<1>1. TypeOK /\ LayoutInv /\ TiledUpTo(tospace, end_ptr) /\ ForwardInv
  BY DEF HeapInv, CopyInv
<1>2. free_ptr <= size[fromspace] /\ size[fromspace] <= size[tospace]
  BY <1>1, SpaceFacts DEF HeapInv, SizeInv, LayoutInv, Copying, Growing,
     Collecting, tospace
<1>3. size[fromspace] \in Nat /\ size[tospace] \in Nat /\ end_ptr \in Nat
      /\ free_ptr \in Nat
  BY <1>1, SpaceFacts DEF TypeOK
<1>4. \A p \in Begins(fromspace) : Size(mem[p]) \in Nat
  BY <1>1, TupleFacts DEF Begins
<1> QED
  BY <1>1, <1>2, <1>3, <1>4, Room

LEMMA CopyEffect ==
  ASSUME HeapInv, Copying,
         NEW p \in Begins(fromspace), mem[p].forwarding = NULL
  PROVE  LET c == To(end_ptr)
             m == CopyTo(mem, p) IN
           /\ c \in Addr /\ c[1] = tospace /\ c[2] = end_ptr
           /\ mem[c] = NULL /\ c # p
           /\ p \in Addr /\ p[1] = fromspace /\ mem[p] \in Tuple /\ mem[p] # NULL
           /\ end_ptr + Size(mem[p]) <= size[tospace]
           /\ m \in [Addr -> Tuple \cup {NULL}]
           /\ m[c] = mem[p] /\ m[c] # NULL
           /\ m[p] \in Tuple /\ m[p].forwarding = c /\ m[p] # NULL
           /\ m[p].len = mem[p].len /\ m[p].isptr = mem[p].isptr
           /\ m[p].elem = mem[p].elem /\ m[p].id = mem[p].id
           /\ \A a \in Addr \ {c, p} : m[a] = mem[a]
<1> DEFINE c == To(end_ptr)
           m == CopyTo(mem, p)
<1>1. TypeOK /\ ShapeInv /\ TiledUpTo(tospace, end_ptr)
  BY DEF HeapInv, CopyInv
<1>2. p \in Addr /\ p[1] = fromspace /\ mem[p] # NULL
  BY DEF Begins
<1>3. mem[p] \in Tuple /\ Size(mem[p]) \in Nat \ {0}
  BY <1>1, <1>2, TupleFacts
<1>4. end_ptr + Size(mem[p]) <= size[tospace]
  BY CopiesRoom
<1>5. end_ptr \in 0..HeapBound
  BY <1>1, <1>3, <1>4, SpaceFacts, SizeAssumption DEF TypeOK
<1>6. c \in Addr /\ c[1] = tospace /\ c[2] = end_ptr
  BY <1>1, <1>5, SpaceFacts, AddrFacts DEF To
<1>7. mem[c] = NULL
  <2>1. c \notin Begins(tospace)
    BY <1>1, <1>5, <1>6, TilingEnds
  <2> QED
    BY <2>1, <1>6 DEF Begins
<1>8. c # p
  BY <1>2, <1>7
<1>9. Copy(mem[p]) = mem[p]
  BY <1>1, <1>2, <1>3, CopyIsTuple DEF ShapeInv
<1> DEFINE u == [mem[p] EXCEPT !.forwarding = c]
<1>10. /\ u \in Tuple /\ u.forwarding = c
       /\ u.len = mem[p].len /\ u.isptr = mem[p].isptr
       /\ u.elem = mem[p].elem /\ u.id = mem[p].id
  BY <1>3, <1>6, ForwardType DEF Ptr
<1>11. mem \in [Addr -> Tuple \cup {NULL}]
  BY <1>1 DEF TypeOK
<1>12. m = [mem EXCEPT ![c] = mem[p], ![p] = u]
  BY <1>2, <1>6, <1>8, <1>9, <1>11 DEF CopyTo
<1> HIDE DEF c, m, u
<1>13. /\ m \in [Addr -> Tuple \cup {NULL}]
       /\ m[c] = mem[p] /\ m[p] = u
       /\ \A a \in Addr \ {c, p} : m[a] = mem[a]
  BY <1>2, <1>3, <1>6, <1>8, <1>10, <1>11, <1>12
<1> QED
  BY <1>2, <1>3, <1>4, <1>6, <1>7, <1>8, <1>10, <1>13, ValueAssumption DEF c, m

\* What a step that copies tuple p does to memory, but for the elements.
AfterCopy(p) ==
  /\ UNCHANGED <<size, fromspace, free_ptr>>
  /\ end_ptr' = end_ptr + Size(mem[p])
  /\ mem' \in [Addr -> Tuple \cup {NULL}]
  /\ \A a \in Addr : mem'[a] # NULL <=> mem[a] # NULL \/ a = To(end_ptr)
  /\ \A a \in Addr : mem[a] # NULL =>
       /\ mem'[a].len = mem[a].len /\ mem'[a].isptr = mem[a].isptr
       /\ mem'[a].id = mem[a].id
       /\ Len(mem'[a].elem) = Len(mem[a].elem)
       /\ a # p => mem'[a].forwarding = mem[a].forwarding
  /\ mem'[p].forwarding = To(end_ptr)
  /\ mem'[To(end_ptr)].id = mem[p].id
  /\ mem'[To(end_ptr)].len = mem[p].len
  /\ mem'[To(end_ptr)].isptr = mem[p].isptr
  /\ Len(mem'[To(end_ptr)].elem) = Len(mem[p].elem)
  /\ mem'[To(end_ptr)].forwarding = NULL

LEMMA AfterCopySpaces ==
  ASSUME HeapInv, Copying,
         NEW p \in Begins(fromspace), mem[p].forwarding = NULL, AfterCopy(p)
  PROVE  /\ Begins(fromspace)' = Begins(fromspace)
         /\ Begins(tospace)' = Begins(tospace) \cup {To(end_ptr)}
         /\ To(end_ptr) \notin Begins(tospace)
         /\ tospace' = tospace
<1>1. To(end_ptr) \in Addr /\ To(end_ptr)[1] = tospace /\ mem[To(end_ptr)] = NULL
  BY CopyEffect
<1>2. fromspace # tospace /\ tospace' = tospace
  BY SpaceFacts DEF HeapInv, AfterCopy, tospace
<1> QED
  BY <1>1, <1>2 DEF AfterCopy, Begins

LEMMA AfterCopyShape ==
  ASSUME HeapInv, Copying,
         NEW p \in Begins(fromspace), mem[p].forwarding = NULL, AfterCopy(p)
  PROVE  ShapeInv'
<1> SUFFICES ASSUME NEW a \in Addr, mem'[a] # NULL
             PROVE  /\ mem'[a].len <= MaxElem
                    /\ Len(mem'[a].elem) = mem'[a].len
                    /\ mem'[a].isptr \subseteq 1..mem'[a].len
  BY DEF ShapeInv
<1>1. p \in Addr /\ mem[p] # NULL
  BY DEF Begins
<1>2. CASE a = To(end_ptr)
  BY <1>1, <1>2 DEF AfterCopy, HeapInv, ShapeInv
<1>3. CASE mem[a] # NULL
  BY <1>3 DEF AfterCopy, HeapInv, ShapeInv
<1> QED
  BY <1>2, <1>3 DEF AfterCopy

\* A tuple is put where a space that is tiled up to end ends.
LEMMA TilingGrows ==
  ASSUME TypeOK, NEW s \in {"A", "B"}, NEW end \in Nat, TiledUpTo(s, end),
         NEW c \in Addr, c[1] = s, c[2] = end,
         TypeOK', mem'[c] # NULL,
         \A a \in Addr : a # c => (mem'[a] # NULL <=> mem[a] # NULL),
         \A a \in Addr : mem[a] # NULL => mem'[a].len = mem[a].len,
         NEW e \in Nat, e = end + Size(mem'[c])
  PROVE  TiledUpTo(s, e)'
<1>1. c \notin Begins(s) /\ Begins(s)' = Begins(s) \cup {c}
  <2>1. c \notin Begins(s)
    BY TilingEnds
  <2> QED
    BY <2>1 DEF Begins
<1>2. \A a \in Begins(s) : /\ a \in Addr /\ mem[a] # NULL
                           /\ a[2] \in Nat /\ a[2] < end
                           /\ EndOf(a) <= end /\ EndOf(a) \in Nat
                           /\ EndOf(a)' = EndOf(a)
  BY TilingEnds, TupleFacts, AddrFacts DEF Begins, TiledUpTo, EndOf, Size
<1>3. EndOf(c)' = e /\ e > end
  <2>1. Size(mem'[c]) \in Nat \ {0}
    <3>1. mem'[c] \in Tuple
      BY DEF TypeOK
    <3>2. mem'[c].len \in Nat
      BY <3>1, SizeAssumption DEF Tuple
    <3> QED
      BY <3>2, BytesType DEF Size
  <2> QED
    BY <2>1 DEF EndOf
<1>4. \A a \in Begins(s)' : EndOf(a)' <= e
  BY <1>1, <1>2, <1>3
<1>5. ASSUME NEW a \in Begins(s)', NEW b \in Begins(s)', a[2] < b[2]
      PROVE  EndOf(a)' <= b[2]
  <2>1. CASE a \in Begins(s) /\ b \in Begins(s)
    BY <1>2, <1>5, <2>1 DEF TiledUpTo
  <2>2. CASE a \in Begins(s) /\ b = c
    BY <1>2, <2>2
  <2>3. CASE a = c
    BY <1>1, <1>2, <1>5, <2>3
  <2> QED
    BY <1>1, <2>1, <2>2, <2>3
<1>6. ASSUME NEW w \in 0..(e - 1)
      PROVE  \E a \in Begins(s)' : a[2] <= w /\ w < EndOf(a)'
  <2>1. CASE w < end
    <3>1. PICK a \in Begins(s) : a[2] <= w /\ w < EndOf(a)
      BY <2>1 DEF TiledUpTo
    <3> QED
      BY <1>1, <1>2, <3>1
  <2>2. CASE w >= end
    BY <1>1, <1>3, <2>2
  <2> QED
    BY <2>1, <2>2
<1> QED
  BY <1>4, <1>5, <1>6 DEF TiledUpTo

LEMMA AfterCopyLayout ==
  ASSUME HeapInv, Copying, TypeOK',
         NEW p \in Begins(fromspace), mem[p].forwarding = NULL, AfterCopy(p)
  PROVE  LayoutInv' /\ TiledUpTo(tospace, end_ptr)'
<1>0. PICK c, e, s : c = To(end_ptr) /\ e = end_ptr' /\ s = tospace
  OBVIOUS
<1>1. TypeOK /\ TiledUpTo(tospace, end_ptr) /\ LayoutInv
  BY DEF HeapInv, CopyInv
<1>2. /\ Begins(fromspace)' = Begins(fromspace) /\ tospace' = tospace
      /\ tospace \in {"A", "B"}
  BY <1>1, AfterCopySpaces, SpaceFacts
<1>3. c \in Addr /\ c[1] = tospace /\ c[2] = end_ptr
  BY <1>0, CopyEffect
<1>4. end_ptr \in Nat /\ e \in Nat
  BY <1>0, <1>1 DEF TypeOK
<1>5. mem'[c].len = mem[p].len /\ mem'[c] # NULL
  BY <1>0, <1>3 DEF AfterCopy
<1>6. e = end_ptr + Size(mem'[c])
  BY <1>0, <1>5 DEF AfterCopy, Size
<1>7. /\ \A a \in Addr : a # c => (mem'[a] # NULL <=> mem[a] # NULL)
      /\ \A a \in Addr : mem[a] # NULL => mem'[a].len = mem[a].len
  BY <1>0 DEF AfterCopy
<1>8. TiledUpTo(s, e)'
  <2>1. TiledUpTo(s, end_ptr) /\ s \in {"A", "B"} /\ c[1] = s
    BY <1>0, <1>1, <1>2, <1>3
  <2> QED
    BY <2>1, <1>1, <1>3, <1>4, <1>5, <1>6, <1>7, TilingGrows
<1>9. TiledUpTo(tospace, end_ptr)'
  BY <1>0, <1>2, <1>8 DEF TiledUpTo
<1>10. \A a \in Addr : mem[a] # NULL => EndOf(a)' = EndOf(a)
  BY DEF AfterCopy, EndOf, Size
<1>11. TiledUpTo(fromspace, free_ptr)'
  BY <1>1, <1>2, <1>10 DEF TiledUpTo, LayoutInv, AfterCopy, Begins
<1> QED
  BY <1>1, <1>9, <1>11 DEF LayoutInv, AfterCopy

LEMMA AfterCopyForward ==
  ASSUME HeapInv, Copying,
         NEW p \in Begins(fromspace), mem[p].forwarding = NULL, AfterCopy(p)
  PROVE  ForwardInv'
<1> DEFINE c == To(end_ptr)
<1>1. ForwardInv
  BY DEF HeapInv, CopyInv
<1>2. /\ Begins(fromspace)' = Begins(fromspace)
      /\ Begins(tospace)' = Begins(tospace) \cup {c} /\ c \notin Begins(tospace)
      /\ tospace' = tospace
  BY AfterCopySpaces
<1>3. /\ c \in Addr /\ c # NULL /\ mem[c] = NULL
      /\ c[1] = tospace /\ fromspace # tospace
  BY CopyEffect, ValueAssumption, SpaceFacts DEF HeapInv
<1>4. \A a \in Begins(fromspace) \cup Begins(tospace) :
        /\ a \in Addr /\ mem[a] # NULL /\ mem'[a].len = mem[a].len
        /\ a # p => mem'[a].forwarding = mem[a].forwarding
  BY DEF Begins, AfterCopy
<1>5. /\ mem'[p].forwarding = c /\ mem'[c].forwarding = NULL
      /\ mem'[c].len = mem[p].len
  BY DEF AfterCopy
<1>6. p \notin Begins(tospace) /\ p # c
  BY <1>3 DEF Begins
<1> HIDE DEF c
<1>7. ASSUME NEW a \in Begins(fromspace)', mem'[a].forwarding # NULL
      PROVE  /\ mem'[a].forwarding \in Begins(tospace)'
             /\ mem'[mem'[a].forwarding].len = mem'[a].len
  BY <1>1, <1>2, <1>4, <1>5, <1>7 DEF ForwardInv
<1>8. ASSUME NEW a \in Begins(fromspace)', NEW b \in Begins(fromspace)',
             mem'[a].forwarding # NULL, mem'[a].forwarding = mem'[b].forwarding
      PROVE  a = b
  BY <1>1, <1>2, <1>4, <1>5, <1>8 DEF ForwardInv
<1>9. ASSUME NEW d \in Begins(tospace)'
      PROVE  /\ mem'[d].forwarding = NULL
             /\ \E a \in Begins(fromspace)' : mem'[a].forwarding = d
  <2>1. CASE d = c
    BY <1>2, <1>5, <2>1
  <2>2. CASE d \in Begins(tospace)
    <3>1. mem'[d].forwarding = NULL
      BY <1>1, <1>4, <1>6, <2>2 DEF ForwardInv
    <3>2. PICK a \in Begins(fromspace) : mem[a].forwarding = d
      BY <1>1, <2>2 DEF ForwardInv
    <3>3. d # NULL
      BY <2>2, ValueAssumption DEF Begins
    <3>4. a # p
      BY <3>2, <3>3
    <3> QED
      BY <1>2, <1>4, <3>1, <3>2, <3>4
  <2> QED
    BY <1>2, <1>9, <2>1, <2>2
<1> QED
  BY <1>7, <1>8, <1>9 DEF ForwardInv

-----------------------------------------------------------------------------
(* The root loop                                                           *)

\* Tuple p is copied whole; nothing else of any tuple but p's forwarding.
LEMMA CopyToAfter ==
  ASSUME HeapInv, Copying,
         NEW p \in Begins(fromspace), mem[p].forwarding = NULL,
         mem' = CopyTo(mem, p), end_ptr' = end_ptr + Size(mem[p]),
         UNCHANGED <<size, fromspace, free_ptr>>
  PROVE  /\ AfterCopy(p)
         /\ \A a \in Addr : mem[a] # NULL => mem'[a].elem = mem[a].elem
         /\ mem'[To(end_ptr)].elem = mem[p].elem
<1> DEFINE c == To(end_ptr)
<1>1. /\ c \in Addr /\ c # p /\ p \in Addr /\ mem[p] # NULL /\ mem[c] = NULL
      /\ mem' \in [Addr -> Tuple \cup {NULL}]
      /\ mem'[c] = mem[p] /\ mem'[c] # NULL
      /\ mem'[p] \in Tuple /\ mem'[p].forwarding = c /\ mem'[p] # NULL
      /\ mem'[p].len = mem[p].len /\ mem'[p].isptr = mem[p].isptr
      /\ mem'[p].elem = mem[p].elem /\ mem'[p].id = mem[p].id
      /\ \A a \in Addr \ {c, p} : mem'[a] = mem[a]
  BY CopyEffect
<1> HIDE DEF c
<1>2. \A a \in Addr : mem'[a] # NULL <=> mem[a] # NULL \/ a = c
  BY <1>1
<1>3. \A a \in Addr : mem[a] # NULL =>
        /\ mem'[a].len = mem[a].len /\ mem'[a].isptr = mem[a].isptr
        /\ mem'[a].elem = mem[a].elem /\ mem'[a].id = mem[a].id
        /\ a # p => mem'[a].forwarding = mem[a].forwarding
  BY <1>1
<1> QED
  BY <1>1, <1>2, <1>3 DEF AfterCopy, c

LEMMA RootCopyStep == HeapInv /\ RootCopy => HeapInv'
<1> SUFFICES ASSUME HeapInv, RootCopy PROVE HeapInv'
  OBVIOUS
<1> DEFINE p == rootstack[idx]
<1>1. /\ pc = "roots" /\ pc' = "roots" /\ idx \in DOMAIN rootstack /\ p # NULL
      /\ mem[p].forwarding = NULL /\ mem' = CopyTo(mem, p)
      /\ end_ptr' = end_ptr + Size(mem[p]) /\ idx' = idx + 1
      /\ UNCHANGED <<size, fromspace, free_ptr, rootstack, reg, ret, req, scan_ptr>>
  BY DEF RootCopy, RootLoop, Root, clientVars
<1>2. Copying /\ TypeOK /\ CopyInv
  BY <1>1 DEF Copying, HeapInv
<1>3. p \in Begins(fromspace)
  BY <1>1, <1>2 DEF CopyInv, Refs
<1> HIDE DEF p
<1>4. /\ AfterCopy(p)
      /\ \A a \in Addr : mem[a] # NULL => mem'[a].elem = mem[a].elem
      /\ mem'[To(end_ptr)].elem = mem[p].elem
  BY <1>1, <1>2, <1>3, CopyToAfter
<1>5. PICK c : c = To(end_ptr)
  OBVIOUS
<1>6. /\ Begins(fromspace)' = Begins(fromspace)
      /\ Begins(tospace)' = Begins(tospace) \cup {c}
      /\ tospace' = tospace
  BY <1>2, <1>1, <1>3, <1>4, <1>5, AfterCopySpaces
<1>0. TypeOK'
  BY <1>1, <1>2, <1>3, <1>4, TupleFacts DEF TypeOK, AfterCopy, Begins
<1>7. ShapeInv' /\ LayoutInv' /\ TiledUpTo(tospace, end_ptr)' /\ ForwardInv'
  BY <1>0, <1>2, <1>1, <1>3, <1>4, AfterCopyShape, AfterCopyLayout, AfterCopyForward
<1>8. /\ c \in Addr /\ c # NULL /\ c[2] = end_ptr /\ p \in Addr /\ mem[p] # NULL
      /\ Size(mem[p]) \in Nat \ {0}
  BY <1>1, <1>2, <1>3, <1>5, CopyEffect, ValueAssumption, TupleFacts
<1>9. \A a \in Addr : mem[a] # NULL =>
        mem'[a].elem = mem[a].elem /\ mem'[a].isptr = mem[a].isptr
  BY <1>4 DEF AfterCopy
<1>10. mem'[c].elem = mem[p].elem /\ mem'[c].isptr = mem[p].isptr
  BY <1>4, <1>5 DEF AfterCopy
<1>11. ASSUME NEW a \in Begins(fromspace)' PROVE PointsInto(a, fromspace)'
  BY <1>2, <1>6, <1>9 DEF CopyInv, PointsInto, Refs, Begins
<1>12. ASSUME NEW d \in Begins(tospace)', NEW k \in mem'[d].isptr
       PROVE  mem'[d].elem[k] \in Refs(fromspace)'
  <2>1. CASE d = c
    BY <1>2, <1>3, <1>6, <1>10, <1>12, <2>1 DEF CopyInv, PointsInto, Refs
  <2>2. CASE d \in Begins(tospace)
    BY <1>1, <1>2, <1>6, <1>9, <1>12, <2>2 DEF CopyInv, Scanned, Refs, Begins
  <2> QED
    BY <1>6, <2>1, <2>2
<1>13. ASSUME NEW j \in DOMAIN rootstack'
       PROVE  /\ rootstack'[j] \in Refs(fromspace)'
              /\ rootstack'[j] # NULL /\ j < idx'
                   => mem'[rootstack'[j]].forwarding # NULL
  <2>1. rootstack[j] \in Refs(fromspace)
    BY <1>1, <1>2 DEF CopyInv
  <2>2. ASSUME rootstack[j] # NULL, j < idx + 1
        PROVE  mem'[rootstack[j]].forwarding # NULL
    <3>1. rootstack[j] \in Addr /\ mem[rootstack[j]] # NULL
      BY <2>1, <2>2 DEF Refs, Begins
    <3>2. j \in Int /\ idx \in Int
      BY <1>1, <1>2 DEF TypeOK
    <3>3. CASE rootstack[j] = p
      BY <3>3, <1>4, <1>5, <1>8 DEF AfterCopy
    <3>4. CASE rootstack[j] # p
      <4>1. j < idx
        BY <2>2, <3>2, <3>4 DEF p
      <4>2. mem[rootstack[j]].forwarding # NULL
        BY <1>1, <1>2, <2>2, <4>1 DEF CopyInv
      <4> QED
        BY <1>4, <3>1, <3>4, <4>2 DEF AfterCopy
    <3> QED
      BY <3>3, <3>4
  <2> QED
    BY <1>1, <1>6, <2>1, <2>2 DEF Refs
<1>14. idx' <= Len(rootstack') + 1 /\ idx' >= 1
  BY <1>1, <1>2 DEF TypeOK, CopyInv
<1>15. scan_ptr' = 0 /\ scan_ptr' <= end_ptr'
  BY <1>1, <1>2, <1>8 DEF CopyInv, TypeOK
<1>16. scan_ptr' < end_ptr' => IsTuple(To(scan_ptr))'
  <2>1. CASE end_ptr = 0
    BY <1>1, <1>2, <1>5, <1>6, <1>8, <2>1 DEF CopyInv, To, IsTuple, Begins
  <2>2. CASE end_ptr # 0
    BY <1>1, <1>2, <1>4, <1>6, <2>2 DEF CopyInv, TypeOK, To, IsTuple, AfterCopy
  <2> QED
    BY <2>1, <2>2
<1>17. CopyInv'
  BY <1>1, <1>2, <1>7, <1>11, <1>12, <1>13, <1>14, <1>15, <1>16
     DEF CopyInv, Scanned
<1>18. ReqInv' /\ GrowInv'
  BY <1>1, <1>6 DEF HeapInv, ReqInv, GrowInv, Growing, Collecting, Copying, bytes
<1>19. SizeInv'
  BY SizeStep DEF HeapInv, Next, Collector
<1> QED
  BY <1>0, <1>1, <1>7, <1>17, <1>18, <1>19 DEF HeapInv, Idle, Copying, Updating

\* A step of the root loop or the scan loop that changes no tuple.
LEMMA CopyingQuiet ==
  ASSUME HeapInv, [Next]_vars, Copying, Copying', CopyInv',
         UNCHANGED <<heapVars, clientVars, ret, req, end_ptr>>,
         scan_ptr' \in Nat, idx' \in Nat
  PROVE  HeapInv'
<1> USE DEF heapVars, clientVars
<1>1. ShapeInv' /\ LayoutInv' /\ tospace' = tospace
  BY HeapSame
<1>2. SizeInv'
  BY SizeStep DEF HeapInv
<1>3. TypeOK'
  BY <1>2 DEF HeapInv, TypeOK, SizeInv
<1>4. ReqInv' /\ GrowInv'
  BY <1>1 DEF HeapInv, ReqInv, GrowInv, Growing, Collecting, Copying, bytes
<1> QED
  BY <1>1, <1>2, <1>3, <1>4 DEF HeapInv, Idle, Copying, Updating

\* CopyInv without what changes as the loops go on.
LEMMA CopySame ==
  ASSUME HeapInv, Copying, UNCHANGED <<heapVars, clientVars, end_ptr>>
  PROVE  /\ TiledUpTo(tospace, end_ptr)' /\ ForwardInv' /\ reg' = NULL
         /\ \A a \in Begins(fromspace)' : PointsInto(a, fromspace)'
         /\ \A j \in DOMAIN rootstack' : rootstack'[j] \in Refs(fromspace)'
         /\ tospace' = tospace
         /\ \A s : Begins(s)' = Begins(s) /\ Refs(s)' = Refs(s)
<1> USE DEF heapVars, clientVars
<1>1. CopyInv
  BY DEF HeapInv
<1>2. /\ tospace' = tospace
      /\ \A s : Begins(s)' = Begins(s) /\ Refs(s)' = Refs(s)
      /\ \A a, s : PointsInto(a, s)' <=> PointsInto(a, s)
  BY HeapSame
<1>3. TiledUpTo(tospace, end_ptr)'
  BY <1>1, <1>2 DEF CopyInv, TiledUpTo, EndOf
<1>4. ForwardInv'
  BY <1>1, <1>2 DEF CopyInv, ForwardInv, Begins
<1>5. \A a \in Begins(fromspace)' : PointsInto(a, fromspace)'
  BY <1>1, <1>2 DEF CopyInv, PointsInto, Begins, Refs
<1>6. \A j \in DOMAIN rootstack' : rootstack'[j] \in Refs(fromspace)'
  BY <1>1, <1>2 DEF CopyInv, Refs, Begins
<1> QED
  BY <1>1, <1>2, <1>3, <1>4, <1>5, <1>6 DEF CopyInv

LEMMA RootSkipStep == HeapInv /\ RootSkip => HeapInv'
<1> SUFFICES ASSUME HeapInv, RootSkip PROVE HeapInv'
  OBVIOUS
<1>1. /\ pc = "roots" /\ pc' = "roots" /\ idx \in DOMAIN rootstack
      /\ rootstack[idx] # NULL => mem[rootstack[idx]].forwarding # NULL
      /\ idx' = idx + 1 /\ scan_ptr' = scan_ptr
      /\ UNCHANGED <<heapVars, clientVars, ret, req, end_ptr>>
  BY DEF RootSkip, RootLoop, Root
<1>2. CopyInv /\ TypeOK /\ Copying /\ Copying'
  BY <1>1 DEF HeapInv, Copying
<1>3. [Next]_vars
  BY DEF Next, Collector
<1>4. /\ TiledUpTo(tospace, end_ptr)' /\ ForwardInv' /\ reg' = NULL
      /\ \A a \in Begins(fromspace)' : PointsInto(a, fromspace)'
      /\ \A j \in DOMAIN rootstack' : rootstack'[j] \in Refs(fromspace)'
      /\ tospace' = tospace
      /\ \A s : Begins(s)' = Begins(s) /\ Refs(s)' = Refs(s)
  BY <1>1, <1>2, CopySame
<1>5. \A d \in Begins(tospace)' : \A k \in mem'[d].isptr :
        mem'[d].elem[k] \in Refs(fromspace)'
  BY <1>1, <1>2, <1>4 DEF CopyInv, Scanned, heapVars, Begins, Refs
<1>6. idx \in 1..Len(rootstack) /\ Len(rootstack) \in Nat
  BY <1>1, <1>2 DEF TypeOK
<1>7. ASSUME NEW j \in DOMAIN rootstack, rootstack[j] # NULL, j < idx + 1
      PROVE  mem[rootstack[j]].forwarding # NULL
  <2>1. CASE j = idx
    BY <1>1, <1>7, <2>1
  <2>2. CASE j # idx
    <3>1. j \in Int /\ j < idx
      BY <1>2, <1>6, <1>7, <2>2 DEF TypeOK
    <3> QED
      BY <1>2, <1>7, <3>1 DEF CopyInv
  <2> QED
    BY <2>1, <2>2
<1>8. scan_ptr = 0 /\ (scan_ptr < end_ptr => IsTuple(To(scan_ptr)))
  BY <1>1, <1>2 DEF CopyInv
<1>9. CopyInv'
  BY <1>1, <1>2, <1>4, <1>5, <1>6, <1>7, <1>8
     DEF CopyInv, Scanned, heapVars, clientVars, IsTuple, To
<1> QED
  BY <1>1, <1>2, <1>3, <1>6, <1>8, <1>9, CopyingQuiet DEF TypeOK

LEMMA RootsDoneStep == HeapInv /\ RootsDone => HeapInv'
<1> SUFFICES ASSUME HeapInv, RootsDone PROVE HeapInv'
  OBVIOUS
<1>1. /\ pc = "roots" /\ pc' = "scan" /\ idx = Len(rootstack) + 1
      /\ idx' = 1 /\ scan_ptr' = scan_ptr
      /\ UNCHANGED <<heapVars, clientVars, ret, req, end_ptr>>
  BY DEF RootsDone
<1>2. CopyInv /\ TypeOK /\ Copying /\ Copying'
  BY <1>1 DEF HeapInv, Copying
<1>3. [Next]_vars
  BY DEF Next, Collector
<1>4. /\ TiledUpTo(tospace, end_ptr)' /\ ForwardInv' /\ reg' = NULL
      /\ \A a \in Begins(fromspace)' : PointsInto(a, fromspace)'
      /\ \A j \in DOMAIN rootstack' : rootstack'[j] \in Refs(fromspace)'
      /\ tospace' = tospace
      /\ \A s : Begins(s)' = Begins(s) /\ Refs(s)' = Refs(s)
  BY <1>1, <1>2, CopySame
<1>5. scan_ptr = 0 /\ (scan_ptr < end_ptr => IsTuple(To(scan_ptr)))
      /\ scan_ptr <= end_ptr
  BY <1>1, <1>2 DEF CopyInv
<1>6. \A d \in Begins(tospace) : \A k \in mem[d].isptr :
        mem[d].elem[k] \in Refs(fromspace) /\ ~Scanned(d, k)'
  <2> SUFFICES ASSUME NEW d \in Begins(tospace), NEW k \in mem[d].isptr
               PROVE  mem[d].elem[k] \in Refs(fromspace) /\ ~Scanned(d, k)'
    OBVIOUS
  <2>1. mem[d].elem[k] \in Refs(fromspace)
    BY <1>1, <1>2 DEF CopyInv, Scanned
  <2>2. d \in Addr /\ mem[d] # NULL
    BY DEF Begins
  <2>3. d[2] \in Nat /\ k \in 1..MaxElem
    BY <1>2, <2>2, AddrFacts, TupleFacts
  <2>4. ~(d[2] < 0) /\ ~(k < 1)
    BY <2>3, SizeAssumption
  <2> QED
    BY <1>1, <1>5, <2>1, <2>4 DEF Scanned
<1>7. \A d \in Begins(tospace)' : \A k \in mem'[d].isptr :
        mem'[d].elem[k] \in Refs(fromspace)' /\ ~Scanned(d, k)'
  BY <1>1, <1>4, <1>6 DEF heapVars, Refs, Begins
<1>8. ASSUME NEW j \in DOMAIN rootstack, rootstack[j] # NULL
      PROVE  mem[rootstack[j]].forwarding # NULL
  <2>1. j < idx
    BY <1>1, <1>2 DEF TypeOK
  <2> QED
    BY <1>2, <1>8, <2>1 DEF CopyInv
<1>9. CopyInv'
  BY <1>1, <1>2, <1>4, <1>5, <1>7, <1>8
     DEF CopyInv, heapVars, clientVars, IsTuple, To
<1> QED
  BY <1>1, <1>2, <1>3, <1>5, <1>9, CopyingQuiet DEF TypeOK

-----------------------------------------------------------------------------
(* The scan loop                                                           *)

LEMMA ScanFacts ==
  ASSUME HeapInv, Scanning
  PROVE  /\ pc = "scan" /\ Copying /\ CopyInv /\ TypeOK /\ ShapeInv
         /\ cur = mem[To(scan_ptr)]
         /\ To(scan_ptr) \in Begins(tospace) /\ To(scan_ptr) \in Addr
         /\ To(scan_ptr)[1] = tospace /\ To(scan_ptr)[2] = scan_ptr
         /\ cur \in Tuple /\ cur # NULL /\ cur.len \in Nat
         /\ Len(cur.elem) = cur.len /\ cur.isptr \subseteq 1..cur.len
         /\ \A d \in Begins(tospace) : d[2] = scan_ptr => d = To(scan_ptr)
         /\ idx \in Nat /\ idx >= 1 /\ scan_ptr \in Nat /\ end_ptr \in Nat
         /\ scan_ptr < end_ptr /\ tospace # fromspace
<1>1. /\ pc = "scan" /\ Copying /\ CopyInv /\ TypeOK /\ ShapeInv
      /\ scan_ptr < end_ptr
  BY DEF Scanning, Copying, HeapInv
<1>2. PICK c : c = To(scan_ptr)
  OBVIOUS
<1>3. c \in Addr /\ mem[c] # NULL /\ c = <<tospace, scan_ptr>>
  BY <1>1, <1>2 DEF CopyInv, IsTuple, To
<1>4. c[1] = tospace /\ c[2] = scan_ptr /\ c \in Begins(tospace)
  BY <1>3 DEF Begins
<1>5. mem[c] \in Tuple /\ mem[c].len \in Nat
  BY <1>1, <1>3, TupleFacts, SizeAssumption
<1>6. \A d \in Begins(tospace) : d[2] = scan_ptr => d = c
  BY <1>3, <1>4, AddrEqual DEF Begins
<1>7. Len(mem[c].elem) = mem[c].len /\ mem[c].isptr \subseteq 1..mem[c].len
  BY <1>1, <1>3 DEF ShapeInv
<1>8. /\ idx \in Nat /\ idx >= 1 /\ scan_ptr \in Nat /\ end_ptr \in Nat
      /\ tospace # fromspace
  BY <1>1, SpaceFacts DEF TypeOK, CopyInv
<1>9. cur = mem[c]
  BY <1>2 DEF cur
<1> QED
  BY <1>1, <1>2, <1>3, <1>4, <1>5, <1>6, <1>7, <1>8, <1>9

\* One more element has been scanned.
LEMMA ScanAdvance ==
  ASSUME HeapInv, Scanning, UNCHANGED <<pc, scan_ptr>>, idx' = idx + 1,
         NEW d \in Begins(tospace), NEW k \in Nat
  PROVE  Scanned(d, k)' <=> Scanned(d, k) \/ (d = To(scan_ptr) /\ k = idx)
<1>1. /\ idx \in Nat /\ To(scan_ptr)[2] = scan_ptr
      /\ d[2] = scan_ptr => d = To(scan_ptr)
      /\ pc = "scan" /\ scan_ptr \in Nat
  BY ScanFacts
<1>2. k < idx + 1 <=> k < idx \/ k = idx
  BY <1>1
<1> QED
  BY <1>1, <1>2 DEF Scanned

LEMMA ScanSkipStep == HeapInv /\ ScanSkip => HeapInv'
<1> SUFFICES ASSUME HeapInv, ScanSkip PROVE HeapInv'
  OBVIOUS
<1>1. /\ Scanning /\ (idx \in cur.isptr => cur.elem[idx] = NULL)
      /\ idx' = idx + 1 /\ UNCHANGED <<pc, scan_ptr>>
      /\ UNCHANGED <<heapVars, clientVars, ret, req, end_ptr>>
  BY DEF ScanSkip, ScanElem
<1>2. /\ pc = "scan" /\ Copying /\ CopyInv /\ TypeOK /\ idx \in Nat
      /\ cur = mem[To(scan_ptr)] /\ scan_ptr \in Nat /\ idx >= 1
  BY <1>1, ScanFacts
<1>3. [Next]_vars /\ Copying'
  BY <1>1, <1>2 DEF Next, Collector, Copying
<1>4. /\ TiledUpTo(tospace, end_ptr)' /\ ForwardInv' /\ reg' = NULL
      /\ \A a \in Begins(fromspace)' : PointsInto(a, fromspace)'
      /\ \A j \in DOMAIN rootstack' : rootstack'[j] \in Refs(fromspace)'
      /\ tospace' = tospace
      /\ \A s : Begins(s)' = Begins(s) /\ Refs(s)' = Refs(s)
  BY <1>1, <1>2, CopySame
<1>5. ASSUME NEW d \in Begins(tospace), NEW k \in mem[d].isptr
      PROVE  mem[d].elem[k] \in IF Scanned(d, k)' THEN Refs(tospace)
                                                  ELSE Refs(fromspace)
  <2>1. k \in Nat
    BY <1>2, TupleFacts, SizeAssumption DEF Begins
  <2>2. Scanned(d, k)' <=> Scanned(d, k) \/ (d = To(scan_ptr) /\ k = idx)
    BY <1>1, <2>1, ScanAdvance
  <2>3. mem[d].elem[k] \in IF Scanned(d, k) THEN Refs(tospace) ELSE Refs(fromspace)
    BY <1>2 DEF CopyInv
  <2>4. NULL \in Refs(tospace)
    BY DEF Refs
  <2> QED
    BY <1>1, <1>2, <2>2, <2>3, <2>4
<1>6. \A d \in Begins(tospace)' : \A k \in mem'[d].isptr :
        mem'[d].elem[k] \in IF Scanned(d, k)' THEN Refs(tospace)'
                                              ELSE Refs(fromspace)'
  BY <1>1, <1>4, <1>5 DEF heapVars, Refs, Begins
<1>7. CopyInv'
  BY <1>1, <1>2, <1>4, <1>6 DEF CopyInv, heapVars, clientVars, IsTuple, To
<1> QED
  BY <1>1, <1>2, <1>3, <1>7, CopyingQuiet

\* Moving on to the next tuple scans nothing more.
LEMMA ScanNextScanned ==
  ASSUME HeapInv, ScanNext, NEW d \in Begins(tospace), NEW k \in mem[d].isptr
  PROVE  Scanned(d, k)' <=> Scanned(d, k)
<1>1. PICK c, w : c = To(scan_ptr) /\ w = scan_ptr + Size(cur)
  OBVIOUS
<1>2. Scanning /\ idx > cur.len /\ scan_ptr' = w /\ idx' = 1 /\ UNCHANGED pc
  BY <1>1 DEF ScanNext
<1>3. /\ pc = "scan" /\ CopyInv /\ TypeOK /\ idx \in Nat
      /\ cur = mem[c] /\ scan_ptr \in Nat
      /\ c \in Begins(tospace) /\ c \in Addr /\ c[2] = scan_ptr
      /\ cur # NULL /\ cur.isptr \subseteq 1..cur.len /\ cur.len \in Nat
      /\ d[2] = scan_ptr => d = c
  BY <1>1, <1>2, ScanFacts
<1>4. Size(cur) \in Nat \ {0} /\ w \in Nat /\ w > scan_ptr /\ w = EndOf(c)
  BY <1>1, <1>3, TupleFacts DEF EndOf
<1>5. /\ d \in Addr /\ mem[d] # NULL /\ d[2] \in Nat /\ EndOf(d) \in Nat
      /\ mem[d].isptr \subseteq 1..MaxElem
  BY <1>3, AddrFacts, TupleFacts DEF Begins, EndOf
<1>6. k \in Nat \ {0}
  BY <1>5, SizeAssumption
<1>7. Scanned(d, k)' <=> d[2] < w
  BY <1>2, <1>3, <1>6 DEF Scanned
<1>8. d[2] < w => d[2] < scan_ptr \/ d = c
  <2>1. d[2] > c[2] => EndOf(c) <= d[2]
    BY <1>3 DEF CopyInv, TiledUpTo
  <2> QED
    BY <1>3, <1>4, <1>5, <2>1
<1>9. d = c => k < idx
  BY <1>2, <1>3, <1>6
<1>10. Scanned(d, k) => d[2] < w
  BY <1>3, <1>4, <1>5 DEF Scanned
<1> QED
  BY <1>3, <1>7, <1>8, <1>9, <1>10 DEF Scanned

LEMMA ScanNextStep == HeapInv /\ ScanNext => HeapInv'
<1> SUFFICES ASSUME HeapInv, ScanNext PROVE HeapInv'
  OBVIOUS
<1>1. /\ Scanning /\ idx > cur.len /\ scan_ptr' = scan_ptr + Size(cur)
      /\ idx' = 1 /\ UNCHANGED pc
      /\ UNCHANGED <<heapVars, clientVars, ret, req, end_ptr>>
  BY DEF ScanNext
<1> DEFINE c == To(scan_ptr)
<1>2. /\ pc = "scan" /\ Copying /\ CopyInv /\ TypeOK /\ idx \in Nat
      /\ cur = mem[c] /\ scan_ptr \in Nat /\ end_ptr \in Nat
      /\ c \in Begins(tospace) /\ c \in Addr /\ c[2] = scan_ptr
      /\ cur # NULL /\ cur.isptr \subseteq 1..cur.len /\ cur.len \in Nat
      /\ \A d \in Begins(tospace) : d[2] = scan_ptr => d = c
  BY <1>1, ScanFacts
<1>3. [Next]_vars /\ Copying'
  BY <1>1, <1>2 DEF Next, Collector, Copying
<1>4. /\ TiledUpTo(tospace, end_ptr)' /\ ForwardInv' /\ reg' = NULL
      /\ \A a \in Begins(fromspace)' : PointsInto(a, fromspace)'
      /\ \A j \in DOMAIN rootstack' : rootstack'[j] \in Refs(fromspace)'
      /\ tospace' = tospace
      /\ \A s : Begins(s)' = Begins(s) /\ Refs(s)' = Refs(s)
  BY <1>1, <1>2, CopySame
<1> HIDE DEF c
<1>5. PICK w : w = scan_ptr + Size(cur)
  OBVIOUS
<1>6. Size(cur) \in Nat \ {0} /\ w \in Nat /\ w > scan_ptr /\ w = EndOf(c)
  BY <1>2, <1>5, TupleFacts DEF EndOf
<1>7. \A d \in Begins(tospace) : /\ d \in Addr /\ mem[d] # NULL /\ d[1] = tospace
                                 /\ d[2] \in Nat /\ EndOf(d) \in Nat
                                 /\ mem[d].isptr \subseteq 1..MaxElem
  BY <1>2, AddrFacts, TupleFacts DEF Begins, EndOf
<1>8. ASSUME NEW d \in Begins(tospace), NEW k \in mem[d].isptr
      PROVE  mem[d].elem[k] \in IF Scanned(d, k)' THEN Refs(tospace)
                                                  ELSE Refs(fromspace)
  BY <1>2, ScanNextScanned DEF CopyInv
<1>9. \A d \in Begins(tospace)' : \A k \in mem'[d].isptr :
        mem'[d].elem[k] \in IF Scanned(d, k)' THEN Refs(tospace)'
                                              ELSE Refs(fromspace)'
  BY <1>1, <1>4, <1>8 DEF heapVars, Refs, Begins
<1>10. scan_ptr' <= end_ptr'
  BY <1>1, <1>2, <1>5, <1>6 DEF CopyInv, TiledUpTo
<1>11. w < end_ptr => IsTuple(<<tospace, w>>)
  <2> SUFFICES ASSUME w < end_ptr PROVE IsTuple(<<tospace, w>>)
    OBVIOUS
  <2>1. PICK a \in Begins(tospace) : a[2] <= w /\ w < EndOf(a)
    BY <1>2, <1>6 DEF CopyInv, TiledUpTo
  <2>2. ~(a[2] < c[2])
    BY <1>2, <1>6, <1>7, <2>1 DEF CopyInv, TiledUpTo
  <2>3. a[2] # c[2]
    BY <1>2, <1>6, <2>1
  <2>4. EndOf(c) <= a[2]
    BY <1>2, <1>7, <2>2, <2>3 DEF CopyInv, TiledUpTo
  <2>5. a[2] = w
    BY <1>6, <1>7, <2>1, <2>4
  <2>6. a = <<tospace, w>>
    BY <1>7, <2>5, AddrFacts
  <2> QED
    BY <1>7, <2>6 DEF IsTuple
<1>12. scan_ptr' < end_ptr' => IsTuple(To(scan_ptr))'
  <2>1. scan_ptr' = w /\ end_ptr' = end_ptr /\ mem' = mem
    BY <1>1, <1>5 DEF heapVars
  <2> QED
    BY <1>4, <1>11, <2>1 DEF IsTuple, To
<1>13. CopyInv'
  BY <1>1, <1>2, <1>4, <1>9, <1>10, <1>12 DEF CopyInv, heapVars, clientVars
<1> QED
  BY <1>1, <1>2, <1>3, <1>5, <1>6, <1>13, CopyingQuiet

\* What a store into element k of the tuple at c does to memory.
StoredAt(m, M, c, k, v) ==
  /\ M \in [Addr -> Tuple \cup {NULL}]
  /\ \A a \in Addr : M[a] # NULL <=> m[a] # NULL
  /\ \A a \in Addr : m[a] # NULL =>
       /\ M[a].len = m[a].len /\ M[a].isptr = m[a].isptr
       /\ M[a].forwarding = m[a].forwarding /\ M[a].id = m[a].id
       /\ Len(M[a].elem) = Len(m[a].elem)
       /\ \A j \in 1..Len(m[a].elem) :
            a # c \/ j # k => M[a].elem[j] = m[a].elem[j]
  /\ M[c].elem[k] = v

LEMMA StoreEffect ==
  ASSUME NEW m \in [Addr -> Tuple \cup {NULL}], NEW c \in Addr, m[c] # NULL,
         NEW k \in 1..Len(m[c].elem), NEW v \in Value
  PROVE  StoredAt(m, [m EXCEPT ![c].elem[k] = v], c, k, v)
<1> DEFINE u == [m[c] EXCEPT !.elem[k] = v]
           M == [m EXCEPT ![c].elem[k] = v]
<1>1. m[c] \in Tuple
  OBVIOUS
<1>2. /\ u \in Tuple /\ u.forwarding = m[c].forwarding
      /\ u.len = m[c].len /\ u.isptr = m[c].isptr /\ u.id = m[c].id
      /\ Len(u.elem) = Len(m[c].elem) /\ u.elem[k] = v
      /\ \A j \in 1..Len(m[c].elem) : j # k => u.elem[j] = m[c].elem[j]
  BY <1>1, StoreType
<1>3. M = [m EXCEPT ![c] = u]
  OBVIOUS
<1> HIDE DEF u, M
<1>4. /\ M \in [Addr -> Tuple \cup {NULL}] /\ M[c] = u
      /\ \A a \in Addr : a # c => M[a] = m[a]
  BY <1>2, <1>3
<1>5. u # NULL
  BY <1>2, ValueAssumption
<1>6. StoredAt(m, M, c, k, v)
  BY <1>2, <1>4, <1>5 DEF StoredAt
<1> QED
  BY <1>6 DEF M

\* What a step that finds its tuple copied already does: it stores the
\* address v of the copy of q in element idx of the tuple at c.
LEMMA ScanForwardedEffect ==
  ASSUME HeapInv, ScanForwarded,
         NEW c, c = To(scan_ptr), NEW q, q = mem[c].elem[idx],
         NEW v, v = mem[q].forwarding
  PROVE  /\ Scanning /\ idx <= cur.len /\ idx \in cur.isptr
         /\ q \in Begins(fromspace) /\ v \in Begins(tospace) /\ v # NULL
         /\ StoredAt(mem, mem', c, idx, v)
         /\ idx' = idx + 1
         /\ UNCHANGED <<size, fromspace, free_ptr, rootstack, reg, pc, ret, req,
                        scan_ptr, end_ptr>>
<1>1. /\ Scanning /\ idx <= cur.len /\ idx \in cur.isptr /\ q # NULL /\ v # NULL
      /\ mem' = [mem EXCEPT ![c].elem[idx] = v]
      /\ idx' = idx + 1
      /\ UNCHANGED <<size, fromspace, free_ptr, rootstack, reg, pc, ret, req,
                     scan_ptr, end_ptr>>
  BY DEF ScanForwarded, ScanPtr, ScanElem, clientVars, cur
<1>2. /\ pc = "scan" /\ CopyInv /\ TypeOK /\ idx \in Nat
      /\ cur = mem[c] /\ idx >= 1
      /\ c \in Begins(tospace) /\ c \in Addr /\ c[2] = scan_ptr /\ scan_ptr \in Nat
      /\ mem[c] # NULL /\ Len(mem[c].elem) = cur.len
  BY <1>1, ScanFacts
<1>3. q \in Begins(fromspace)
  BY <1>1, <1>2 DEF CopyInv, Scanned, Refs
<1>4. v \in Begins(tospace) /\ v \in Value
  BY <1>1, <1>2, <1>3 DEF CopyInv, ForwardInv, Begins, Value, Ptr
<1>5. idx \in 1..Len(mem[c].elem) /\ mem \in [Addr -> Tuple \cup {NULL}]
  BY <1>1, <1>2, TupleFacts, SizeAssumption DEF TypeOK
<1>6. StoredAt(mem, [mem EXCEPT ![c].elem[idx] = v], c, idx, v)
  BY <1>2, <1>4, <1>5, StoreEffect
<1>7. StoredAt(mem, mem', c, idx, v)
  BY <1>1, <1>6
<1> QED
  BY <1>1, <1>3, <1>4, <1>7

LEMMA ScanForwardedStep == HeapInv /\ ScanForwarded => HeapInv'
<1> SUFFICES ASSUME HeapInv, ScanForwarded PROVE HeapInv'
  OBVIOUS
<1>0. PICK c, q, v : /\ c = To(scan_ptr) /\ q = mem[c].elem[idx]
                     /\ v = mem[q].forwarding
  OBVIOUS
<1>1. /\ Scanning /\ idx <= cur.len /\ idx \in cur.isptr
      /\ q \in Begins(fromspace) /\ v \in Begins(tospace) /\ v # NULL
      /\ StoredAt(mem, mem', c, idx, v)
      /\ idx' = idx + 1
      /\ UNCHANGED <<size, fromspace, free_ptr, rootstack, reg, pc, ret, req,
                     scan_ptr, end_ptr>>
  BY <1>0, ScanForwardedEffect
<1>2. /\ pc = "scan" /\ Copying /\ CopyInv /\ TypeOK /\ ShapeInv /\ idx \in Nat
      /\ cur = mem[c] /\ scan_ptr \in Nat /\ end_ptr \in Nat /\ idx >= 1
      /\ c \in Begins(tospace) /\ c \in Addr /\ c[2] = scan_ptr
      /\ mem[c] # NULL /\ Len(mem[c].elem) = cur.len /\ tospace # fromspace
  BY <1>0, <1>1, ScanFacts
<1>4. v \in Begins(tospace)
  BY <1>1
<1>6. /\ mem' \in [Addr -> Tuple \cup {NULL}]
      /\ \A a \in Addr : mem'[a] # NULL <=> mem[a] # NULL
      /\ \A a \in Addr : mem[a] # NULL =>
           /\ mem'[a].len = mem[a].len /\ mem'[a].isptr = mem[a].isptr
           /\ mem'[a].forwarding = mem[a].forwarding
           /\ Len(mem'[a].elem) = Len(mem[a].elem)
           /\ \A j \in 1..Len(mem[a].elem) :
                a # c \/ j # idx => mem'[a].elem[j] = mem[a].elem[j]
      /\ mem'[c].elem[idx] = v
  BY <1>1 DEF StoredAt
<1>7. /\ tospace' = tospace
      /\ \A s : Begins(s)' = Begins(s) /\ Refs(s)' = Refs(s)
      /\ \A a \in Addr : mem[a] # NULL => EndOf(a)' = EndOf(a)
  BY <1>1, <1>6 DEF Begins, Refs, EndOf, Size, tospace
<1>7a. /\ Begins(fromspace)' = Begins(fromspace) /\ Refs(fromspace)' = Refs(fromspace)
       /\ Begins(tospace)' = Begins(tospace) /\ Refs(tospace)' = Refs(tospace)
       /\ \A s : \A a \in Begins(s) : a \in Addr /\ mem[a] # NULL /\ a[1] = s
  BY <1>1, <1>7 DEF Begins, Refs
<1>8. TypeOK' /\ ReqInv' /\ GrowInv'
  BY <1>1, <1>2, <1>6, <1>7 DEF HeapInv, TypeOK, ReqInv, GrowInv, Growing,
     Collecting, Copying, bytes
<1>9. SizeInv'
  BY SizeStep DEF HeapInv, Next, Collector
<1>10. ShapeInv'
  BY <1>2, <1>6 DEF ShapeInv
<1>11. LayoutInv' /\ TiledUpTo(tospace, end_ptr)'
  BY <1>1, <1>2, <1>7, <1>7a DEF HeapInv, LayoutInv, CopyInv, TiledUpTo
<1>12. ForwardInv'
  <2>1. \A a \in Begins(fromspace) \cup Begins(tospace) :
          /\ a \in Addr /\ mem[a] # NULL /\ mem'[a].len = mem[a].len
          /\ mem'[a].forwarding = mem[a].forwarding
    BY <1>6, <1>7a
  <2>2. ForwardInv
    BY <1>2 DEF CopyInv
  <2> QED
    BY <1>7a, <2>1, <2>2 DEF ForwardInv
<1>13. \A a \in Addr : mem[a] # NULL =>
         /\ mem[a].isptr \subseteq 1..Len(mem[a].elem)
         /\ mem[a].isptr \subseteq Nat
  BY <1>2, TupleFacts, SizeAssumption DEF ShapeInv
<1>14. ASSUME NEW a \in Begins(fromspace)' PROVE PointsInto(a, fromspace)'
  <2>1. a \in Begins(fromspace) /\ a # c
    BY <1>2, <1>7a
  <2> QED
    BY <1>2, <1>6, <1>7a, <1>13, <2>1 DEF CopyInv, PointsInto
<1>15. ASSUME NEW d \in Begins(tospace), NEW k \in mem[d].isptr
       PROVE  mem'[d].elem[k] \in IF Scanned(d, k)' THEN Refs(tospace)
                                                    ELSE Refs(fromspace)
  <2>1. k \in Nat /\ k \in 1..Len(mem[d].elem)
    BY <1>7a, <1>13
  <2>2. Scanned(d, k)' <=> Scanned(d, k) \/ (d = c /\ k = idx)
    BY <1>0, <1>1, <2>1, ScanAdvance
  <2>3. mem[d].elem[k] \in IF Scanned(d, k) THEN Refs(tospace) ELSE Refs(fromspace)
    BY <1>2 DEF CopyInv
  <2>4. v \in Refs(tospace)
    BY <1>4 DEF Refs
  <2> QED
    BY <1>6, <1>7a, <2>1, <2>2, <2>3, <2>4
<1>16. \A d \in Begins(tospace)' : \A k \in mem'[d].isptr :
         mem'[d].elem[k] \in IF Scanned(d, k)' THEN Refs(tospace)'
                                               ELSE Refs(fromspace)'
  BY <1>6, <1>7a, <1>15
<1>17. \A j \in DOMAIN rootstack' :
         /\ rootstack'[j] \in Refs(fromspace)'
         /\ rootstack'[j] # NULL => mem'[rootstack'[j]].forwarding # NULL
  BY <1>1, <1>2, <1>6, <1>7a DEF CopyInv, Refs
<1>18. scan_ptr < end_ptr /\ IsTuple(To(scan_ptr))'
  BY <1>0, <1>1, <1>2, <1>6, <1>7 DEF IsTuple, To, Scanning
<1>19. CopyInv'
  BY <1>1, <1>2, <1>11, <1>12, <1>14, <1>16, <1>17, <1>18 DEF CopyInv
<1> QED
  BY <1>1, <1>2, <1>8, <1>9, <1>10, <1>11, <1>19 DEF HeapInv, Idle, Copying, Updating

\* What a step that copies its tuple does: p goes to n and n is stored in
\* element idx of the tuple at c.
LEMMA ScanCopyEffect ==
  ASSUME HeapInv, ScanCopy,
         NEW c, c = To(scan_ptr), NEW p, p = mem[c].elem[idx],
         NEW n, n = To(end_ptr)
  PROVE  /\ Scanning /\ idx <= cur.len /\ idx \in cur.isptr
         /\ p \in Begins(fromspace) /\ mem[p].forwarding = NULL
         /\ n \in Addr /\ n[2] = end_ptr /\ mem[n] = NULL /\ n # p /\ n # c
         /\ end_ptr' = end_ptr + Size(mem[p]) /\ idx' = idx + 1
         /\ UNCHANGED <<size, fromspace, free_ptr, rootstack, reg, pc, ret, req,
                        scan_ptr>>
         /\ mem' \in [Addr -> Tuple \cup {NULL}]
         /\ \A a \in Addr : mem'[a] # NULL <=> mem[a] # NULL \/ a = n
         /\ \A a \in Addr : mem[a] # NULL =>
              /\ mem'[a].len = mem[a].len /\ mem'[a].isptr = mem[a].isptr
              /\ mem'[a].id = mem[a].id
              /\ Len(mem'[a].elem) = Len(mem[a].elem)
              /\ a # p => mem'[a].forwarding = mem[a].forwarding
              /\ \A j \in 1..Len(mem[a].elem) :
                   a # c \/ j # idx => mem'[a].elem[j] = mem[a].elem[j]
         /\ mem'[c].elem[idx] = n
         /\ mem'[p].forwarding = n
         /\ mem'[n].len = mem[p].len /\ mem'[n].isptr = mem[p].isptr
         /\ mem'[n].id = mem[p].id
         /\ Len(mem'[n].elem) = Len(mem[p].elem) /\ mem'[n].forwarding = NULL
         /\ \A j \in 1..Len(mem[p].elem) : mem'[n].elem[j] = mem[p].elem[j]
<1>0. PICK m : m = CopyTo(mem, p)
  OBVIOUS
<1>1. /\ Scanning /\ idx <= cur.len /\ idx \in cur.isptr /\ p # NULL
      /\ mem[p].forwarding = NULL
      /\ mem' = [m EXCEPT ![c].elem[idx] = n]
      /\ end_ptr' = end_ptr + Size(mem[p]) /\ idx' = idx + 1
      /\ UNCHANGED <<size, fromspace, free_ptr, rootstack, reg, pc, ret, req,
                     scan_ptr>>
  BY <1>0 DEF ScanCopy, ScanPtr, ScanElem, clientVars, cur
<1>2. /\ pc = "scan" /\ Copying /\ CopyInv /\ TypeOK /\ idx \in Nat
      /\ cur = mem[c] /\ scan_ptr \in Nat /\ end_ptr \in Nat /\ idx >= 1
      /\ c \in Begins(tospace) /\ c \in Addr /\ c[1] = tospace /\ c[2] = scan_ptr
      /\ mem[c] # NULL /\ Len(mem[c].elem) = cur.len /\ tospace # fromspace
  BY <1>1, ScanFacts
<1>3. p \in Begins(fromspace)
  BY <1>1, <1>2 DEF CopyInv, Scanned, Refs
<1>4. p \in Addr /\ mem[p] # NULL /\ p[1] = fromspace /\ p # c
  BY <1>2, <1>3 DEF Begins
<1>5. /\ n \in Addr /\ n[2] = end_ptr /\ mem[n] = NULL /\ n # p /\ n # c
      /\ m \in [Addr -> Tuple \cup {NULL}]
      /\ m[n] = mem[p] /\ m[n] # NULL
      /\ m[p].forwarding = n /\ m[p] # NULL
      /\ m[p].len = mem[p].len /\ m[p].isptr = mem[p].isptr
      /\ m[p].elem = mem[p].elem /\ m[p].id = mem[p].id
      /\ \A a \in Addr \ {n, p} : m[a] = mem[a]
  <2>1. /\ n \in Addr /\ n[2] = end_ptr /\ mem[n] = NULL /\ n # p
        /\ m \in [Addr -> Tuple \cup {NULL}]
        /\ m[n] = mem[p] /\ m[n] # NULL
        /\ m[p].forwarding = n /\ m[p] # NULL
        /\ m[p].len = mem[p].len /\ m[p].isptr = mem[p].isptr
        /\ m[p].elem = mem[p].elem /\ m[p].id = mem[p].id
        /\ \A a \in Addr \ {n, p} : m[a] = mem[a]
    BY <1>0, <1>1, <1>2, <1>3, CopyEffect
  <2> QED
    BY <1>2, <2>1
<1>6. idx \in 1..Len(m[c].elem) /\ m[c] = mem[c] /\ n \in Value
  <2>1. m[c] = mem[c] /\ n \in Value
    BY <1>2, <1>4, <1>5 DEF Value, Ptr
  <2>2. cur.len \in Nat /\ idx \in 1..cur.len
    BY <1>1, <1>2, TupleFacts, SizeAssumption
  <2> QED
    BY <1>2, <2>1, <2>2
<1>7. StoredAt(m, mem', c, idx, n)
  <2>1. StoredAt(m, [m EXCEPT ![c].elem[idx] = n], c, idx, n)
    BY <1>2, <1>5, <1>6, StoreEffect
  <2> QED
    BY <1>1, <2>1
<1>8. mem[p].forwarding = NULL /\ m[n].forwarding = NULL
  BY <1>1, <1>5
<1>9. /\ \A a \in Addr : mem'[a] # NULL <=> mem[a] # NULL \/ a = n
      /\ \A a \in Addr : mem[a] # NULL =>
           /\ mem'[a].len = mem[a].len /\ mem'[a].isptr = mem[a].isptr
           /\ mem'[a].id = mem[a].id
           /\ Len(mem'[a].elem) = Len(mem[a].elem)
           /\ a # p => mem'[a].forwarding = mem[a].forwarding
           /\ \A j \in 1..Len(mem[a].elem) :
                a # c \/ j # idx => mem'[a].elem[j] = mem[a].elem[j]
  <2>1. \A a \in Addr : m[a] # NULL <=> mem[a] # NULL \/ a = n
    BY <1>4, <1>5
  <2>2. \A a \in Addr : mem[a] # NULL =>
          /\ m[a].len = mem[a].len /\ m[a].isptr = mem[a].isptr
          /\ m[a].elem = mem[a].elem /\ m[a].id = mem[a].id
          /\ a # p => m[a].forwarding = mem[a].forwarding
    BY <1>5
  <2> QED
    BY <1>7, <2>1, <2>2 DEF StoredAt
<1>10. /\ mem' \in [Addr -> Tuple \cup {NULL}]
       /\ mem'[c].elem[idx] = n
       /\ mem'[p].forwarding = n
       /\ mem'[n].len = mem[p].len /\ mem'[n].isptr = mem[p].isptr
       /\ mem'[n].id = mem[p].id
       /\ Len(mem'[n].elem) = Len(mem[p].elem) /\ mem'[n].forwarding = NULL
       /\ \A j \in 1..Len(mem[p].elem) : mem'[n].elem[j] = mem[p].elem[j]
  <2>1. /\ mem' \in [Addr -> Tuple \cup {NULL}]
        /\ mem'[c].elem[idx] = n
    BY <1>7 DEF StoredAt
  <2>2. mem'[p].forwarding = n
    BY <1>4, <1>5, <1>7 DEF StoredAt
  <2>3. /\ mem'[n].len = m[n].len /\ mem'[n].isptr = m[n].isptr
        /\ mem'[n].id = m[n].id /\ mem'[n].forwarding = m[n].forwarding
        /\ Len(mem'[n].elem) = Len(m[n].elem)
        /\ \A j \in 1..Len(m[n].elem) : mem'[n].elem[j] = m[n].elem[j]
    BY <1>5, <1>7 DEF StoredAt
  <2> QED
    BY <1>5, <1>8, <2>1, <2>2, <2>3
<1> QED
  BY <1>1, <1>3, <1>5, <1>9, <1>10

LEMMA ScanCopyStep == HeapInv /\ ScanCopy => HeapInv'
<1> SUFFICES ASSUME HeapInv, ScanCopy PROVE HeapInv'
  OBVIOUS
<1>0. PICK c, p, n : /\ c = To(scan_ptr) /\ p = mem[c].elem[idx]
                     /\ n = To(end_ptr)
  OBVIOUS
<1>1. /\ Scanning /\ idx <= cur.len /\ idx \in cur.isptr
      /\ p \in Begins(fromspace) /\ mem[p].forwarding = NULL
      /\ n \in Addr /\ n[2] = end_ptr /\ mem[n] = NULL /\ n # p /\ n # c
      /\ end_ptr' = end_ptr + Size(mem[p]) /\ idx' = idx + 1
      /\ UNCHANGED <<size, fromspace, free_ptr, rootstack, reg, pc, ret, req,
                     scan_ptr>>
  BY <1>0, ScanCopyEffect
<1>2. /\ pc = "scan" /\ Copying /\ CopyInv /\ TypeOK /\ ShapeInv /\ idx \in Nat
      /\ cur = mem[c] /\ scan_ptr \in Nat /\ end_ptr \in Nat /\ idx >= 1
      /\ c \in Begins(tospace) /\ c \in Addr /\ c[1] = tospace /\ c[2] = scan_ptr
      /\ mem[c] # NULL /\ Len(mem[c].elem) = cur.len /\ tospace # fromspace
      /\ scan_ptr < end_ptr
  BY <1>0, <1>1, ScanFacts
<1>3. p \in Begins(fromspace)
  BY <1>1
<1>4. p \in Addr /\ mem[p] # NULL /\ p[1] = fromspace /\ p # c
  BY <1>2, <1>3 DEF Begins
<1>5. n \in Addr /\ n[2] = end_ptr
  BY <1>1
<1>9. /\ \A a \in Addr : mem'[a] # NULL <=> mem[a] # NULL \/ a = n
      /\ \A a \in Addr : mem[a] # NULL =>
           /\ mem'[a].len = mem[a].len /\ mem'[a].isptr = mem[a].isptr
           /\ mem'[a].id = mem[a].id
           /\ Len(mem'[a].elem) = Len(mem[a].elem)
           /\ a # p => mem'[a].forwarding = mem[a].forwarding
           /\ \A j \in 1..Len(mem[a].elem) :
                a # c \/ j # idx => mem'[a].elem[j] = mem[a].elem[j]
  BY <1>0, ScanCopyEffect
<1>10. /\ mem' \in [Addr -> Tuple \cup {NULL}]
       /\ mem'[c].elem[idx] = n
       /\ mem'[p].forwarding = n
       /\ mem'[n].len = mem[p].len /\ mem'[n].isptr = mem[p].isptr
       /\ mem'[n].id = mem[p].id
       /\ Len(mem'[n].elem) = Len(mem[p].elem) /\ mem'[n].forwarding = NULL
       /\ \A j \in 1..Len(mem[p].elem) : mem'[n].elem[j] = mem[p].elem[j]
  BY <1>0, ScanCopyEffect
<1>11. AfterCopy(p)
  BY <1>0, <1>1, <1>9, <1>10 DEF AfterCopy
<1>12. TypeOK'
  <2>1. end_ptr' \in Nat /\ idx' \in Nat
    BY <1>1, <1>2, <1>4, TupleFacts
  <2> QED
    BY <1>1, <1>2, <1>10, <2>1 DEF TypeOK
<1>13. ShapeInv' /\ LayoutInv' /\ TiledUpTo(tospace, end_ptr)' /\ ForwardInv'
  BY <1>1, <1>2, <1>3, <1>11, <1>12, AfterCopyShape, AfterCopyLayout, AfterCopyForward
<1>14. /\ Begins(fromspace)' = Begins(fromspace)
       /\ Begins(tospace)' = Begins(tospace) \cup {n}
       /\ tospace' = tospace
  BY <1>0, <1>1, <1>2, <1>3, <1>11, AfterCopySpaces
<1>15. /\ Refs(fromspace)' = Refs(fromspace)
       /\ Refs(tospace)' = Refs(tospace) \cup {n}
       /\ \A s : \A a \in Begins(s) : a \in Addr /\ mem[a] # NULL /\ a[1] = s
  BY <1>14 DEF Refs, Begins
<1>16. \A a \in Addr : mem[a] # NULL =>
         /\ mem[a].isptr \subseteq 1..Len(mem[a].elem)
         /\ mem[a].isptr \subseteq Nat
  BY <1>2, TupleFacts, SizeAssumption DEF ShapeInv
<1>17. ASSUME NEW a \in Begins(fromspace)' PROVE PointsInto(a, fromspace)'
  <2>1. a \in Begins(fromspace) /\ a # c
    BY <1>2, <1>14, <1>15
  <2> QED
    BY <1>2, <1>9, <1>15, <1>16, <2>1 DEF CopyInv, PointsInto
<1>18. ASSUME NEW d \in Begins(tospace)', NEW k \in mem'[d].isptr
       PROVE  mem'[d].elem[k] \in IF Scanned(d, k)' THEN Refs(tospace)'
                                                    ELSE Refs(fromspace)'
  <2>1. CASE d = n
    <3>1. k \in mem[p].isptr /\ k \in 1..Len(mem[p].elem)
      BY <1>4, <1>10, <1>16, <1>18, <2>1
    <3>2. mem'[d].elem[k] = mem[p].elem[k] /\ mem[p].elem[k] \in Refs(fromspace)
      BY <1>2, <1>3, <1>10, <2>1, <3>1 DEF CopyInv, PointsInto
    <3>3. ~Scanned(d, k)'
      BY <1>1, <1>2, <1>5, <2>1 DEF Scanned
    <3> QED
      BY <1>15, <3>2, <3>3
  <2>2. CASE d \in Begins(tospace)
    <3>1. k \in mem[d].isptr /\ k \in Nat /\ k \in 1..Len(mem[d].elem)
      BY <1>9, <1>15, <1>16, <1>18, <2>2
    <3>2. Scanned(d, k)' <=> Scanned(d, k) \/ (d = c /\ k = idx)
      BY <1>0, <1>1, <2>2, <3>1, ScanAdvance
    <3>3. mem[d].elem[k] \in IF Scanned(d, k) THEN Refs(tospace) ELSE Refs(fromspace)
      BY <1>2, <2>2, <3>1 DEF CopyInv
    <3>4. d # c \/ k # idx => mem'[d].elem[k] = mem[d].elem[k]
      BY <1>9, <1>15, <2>2, <3>1
    <3> QED
      BY <1>10, <1>15, <3>2, <3>3, <3>4
  <2> QED
    BY <1>14, <1>18, <2>1, <2>2
<1>19. \A j \in DOMAIN rootstack' :
         /\ rootstack'[j] \in Refs(fromspace)'
         /\ rootstack'[j] # NULL => mem'[rootstack'[j]].forwarding # NULL
  <2> SUFFICES ASSUME NEW j \in DOMAIN rootstack
               PROVE  /\ rootstack[j] \in Refs(fromspace)
                      /\ rootstack[j] # NULL => mem'[rootstack[j]].forwarding # NULL
    BY <1>1, <1>15
  <2>1. /\ rootstack[j] \in Refs(fromspace)
        /\ rootstack[j] # NULL => mem[rootstack[j]].forwarding # NULL
    BY <1>2 DEF CopyInv
  <2>2. n # NULL
    BY <1>5, ValueAssumption
  <2> QED
    BY <1>9, <1>10, <1>15, <2>1, <2>2 DEF Refs
<1>20. scan_ptr' <= end_ptr' /\ IsTuple(To(scan_ptr))'
  <2>1. Size(mem[p]) \in Nat
    BY <1>2, <1>4, TupleFacts
  <2>2. mem'[c] # NULL
    BY <1>2, <1>9
  <2> QED
    BY <1>0, <1>1, <1>2, <1>14, <2>1, <2>2 DEF IsTuple, To
<1>21. CopyInv'
  BY <1>1, <1>2, <1>13, <1>17, <1>18, <1>19, <1>20 DEF CopyInv
<1>22. SizeInv'
  BY SizeStep DEF HeapInv, Next, Collector
<1>23. ReqInv' /\ GrowInv'
  BY <1>1, <1>2, <1>14 DEF HeapInv, ReqInv, GrowInv, Growing, Collecting, Copying, bytes
<1> QED
  BY <1>1, <1>2, <1>12, <1>13, <1>21, <1>22, <1>23
     DEF HeapInv, Idle, Copying, Updating

-----------------------------------------------------------------------------
(* The swap and the loop that updates the roots                            *)

\* When the scan loop ends, scan_ptr has caught up with end_ptr.
LEMMA AllScanned ==
  ASSUME HeapInv, pc = "scan", ~Scanning
  PROVE  \A d \in Begins(tospace) : \A k : Scanned(d, k)
<1>1. Copying /\ CopyInv /\ TypeOK /\ LayoutInv
  BY DEF HeapInv, Copying
<1>2. /\ scan_ptr \in Nat /\ end_ptr \in Nat /\ scan_ptr <= end_ptr
      /\ size[tospace] \in 0..HeapBound
  BY <1>1, SpaceFacts DEF TypeOK, CopyInv
<1>3. end_ptr <= size[tospace]
  BY <1>1, CopiesRoom
<1>4. scan_ptr = end_ptr
  BY <1>2, <1>3, SizeAssumption DEF Scanning
<1>5. \A d \in Begins(tospace) : d[2] < end_ptr
  BY <1>1, <1>2, TilingEnds DEF CopyInv
<1> QED
  BY <1>4, <1>5 DEF Scanned

LEMMA SwapStep == HeapInv /\ Swap => HeapInv'
<1> SUFFICES ASSUME HeapInv, Swap PROVE HeapInv'
  OBVIOUS
<1>1. /\ pc = "scan" /\ ~Scanning /\ fromspace' = tospace /\ free_ptr' = end_ptr
      /\ pc' = "update" /\ idx' = 1
      /\ UNCHANGED <<mem, size, rootstack, reg, ret, req, scan_ptr, end_ptr>>
  BY DEF Swap, clientVars
<1>2. Copying /\ CopyInv /\ TypeOK /\ LayoutInv
  BY <1>1 DEF HeapInv, Copying
<1>3. /\ scan_ptr \in Nat /\ end_ptr \in Nat /\ free_ptr \in Nat
      /\ scan_ptr <= end_ptr /\ size[tospace] \in 0..HeapBound
      /\ size[fromspace] \in 0..HeapBound /\ tospace # fromspace
      /\ tospace \in {"A", "B"} /\ fromspace \in {"A", "B"}
  BY <1>2, SpaceFacts DEF TypeOK, CopyInv
<1>4. end_ptr <= size[tospace] /\ end_ptr <= free_ptr
  BY <1>2, CopiesRoom, Room DEF CopyInv
<1>6. tospace' = fromspace
  BY <1>1, <1>3 DEF tospace
<1>7. /\ Begins(fromspace)' = Begins(tospace) /\ Begins(tospace)' = Begins(fromspace)
      /\ Refs(fromspace)' = Refs(tospace)
  BY <1>1, <1>6 DEF Begins, Refs
<1>8. LayoutInv'
  BY <1>1, <1>2, <1>4, <1>7 DEF CopyInv, LayoutInv, TiledUpTo, EndOf
<1>9. ShapeInv' /\ ReqInv'
  BY <1>1 DEF HeapInv, ShapeInv, ReqInv
<1>10. TypeOK'
  BY <1>1, <1>2, <1>3 DEF TypeOK
<1>11. SizeInv'
  BY SizeStep DEF HeapInv, Next, Collector
<1>12. GrowInv'
  <2>1. bytes \in Nat /\ bytes' = bytes
    BY <1>1, <1>2, BytesType DEF bytes, TypeOK
  <2>2. LayoutInv /\ free_ptr <= size[fromspace]
    BY <1>2 DEF LayoutInv
  <2>3. Growing => end_ptr + bytes <= size[tospace]
    <3>1. Growing => size[fromspace] + bytes <= size[tospace]
      BY <1>2 DEF HeapInv, GrowInv
    <3> QED
      BY <1>3, <1>4, <2>1, <2>2, <3>1, SizeAssumption
  <2> QED
    BY <1>1, <2>1, <2>3 DEF GrowInv, Growing, Collecting, Copying
<1>13. ASSUME NEW d \in Begins(tospace)
       PROVE  mem[d].forwarding = NULL /\ \A k \in mem[d].isptr : mem[d].elem[k] \in Refs(tospace)
  <2>1. mem[d].forwarding = NULL
    BY <1>2 DEF CopyInv, ForwardInv
  <2>2. \A k : Scanned(d, k)
    BY <1>1, AllScanned
  <2> QED
    BY <1>2, <2>1, <2>2 DEF CopyInv
<1>14. \A a \in Begins(fromspace)' : mem'[a].forwarding = NULL /\ PointsInto(a, fromspace)'
  BY <1>1, <1>7, <1>13 DEF PointsInto
<1>15. ASSUME NEW j \in DOMAIN rootstack, rootstack[j] # NULL
       PROVE  /\ ~(j < 1) /\ rootstack[j] \in Begins(fromspace)
              /\ mem[rootstack[j]].forwarding \in Begins(tospace)
  <2>1. /\ rootstack[j] \in Begins(fromspace)
        /\ mem[rootstack[j]].forwarding # NULL
    BY <1>1, <1>2, <1>15 DEF CopyInv, Refs
  <2>2. mem[rootstack[j]].forwarding \in Begins(tospace)
    BY <1>2, <2>1 DEF CopyInv, ForwardInv
  <2>3. j \in 1..Len(rootstack)
    BY <1>2 DEF TypeOK
  <2> QED
    BY <2>1, <2>2, <2>3
<1>16. UpdateInv'
  BY <1>1, <1>2, <1>7, <1>14, <1>15 DEF UpdateInv, CopyInv
<1> QED
  BY <1>1, <1>8, <1>9, <1>10, <1>11, <1>12, <1>16 DEF HeapInv, Idle, Copying, Updating

LEMMA UpdateRootStep == HeapInv /\ UpdateRoot => HeapInv'
<1> SUFFICES ASSUME HeapInv, UpdateRoot PROVE HeapInv'
  OBVIOUS
<1>1. /\ pc = "update" /\ idx \in DOMAIN rootstack /\ rootstack[idx] # NULL
      /\ rootstack' = [rootstack EXCEPT ![idx] = mem[rootstack[idx]].forwarding]
      /\ idx' = idx + 1
      /\ UNCHANGED <<heapVars, reg, pc, ret, req, scan_ptr, end_ptr>>
  BY DEF UpdateRoot, UpdateLoop, Root
<1>2. UpdateInv /\ TypeOK /\ idx \in Nat
  BY <1>1 DEF HeapInv, Updating, TypeOK
<1>3. /\ ShapeInv' /\ LayoutInv' /\ tospace' = tospace
      /\ \A s : Begins(s)' = Begins(s) /\ Refs(s)' = Refs(s)
      /\ \A a, s : PointsInto(a, s)' <=> PointsInto(a, s)
  BY <1>1, HeapSame
<1>4. mem[rootstack[idx]].forwarding \in Begins(fromspace)
  BY <1>1, <1>2 DEF UpdateInv
<1>5. mem[rootstack[idx]].forwarding \in Ptr
  BY <1>4 DEF Begins, Ptr
<1>6. /\ rootstack' \in Seq(Ptr) /\ DOMAIN rootstack' = DOMAIN rootstack
      /\ \A j \in DOMAIN rootstack :
           rootstack'[j] = IF j = idx THEN mem[rootstack[idx]].forwarding ELSE rootstack[j]
  <2>1. idx \in 1..Len(rootstack) /\ rootstack \in Seq(Ptr)
    BY <1>1, <1>2 DEF TypeOK
  <2> QED
    BY <1>1, <1>5, <2>1, ExceptSeq
<1>7. TypeOK' /\ ReqInv'
  BY <1>1, <1>2, <1>6 DEF heapVars, HeapInv, TypeOK, ReqInv
<1>8. SizeInv'
  BY SizeStep DEF HeapInv, Next, Collector
<1>9. GrowInv'
  BY <1>1 DEF heapVars, HeapInv, GrowInv, Growing, Collecting, Copying, bytes
<1>10. ASSUME NEW j \in DOMAIN rootstack, rootstack'[j] # NULL
       PROVE  IF j < idx + 1 THEN rootstack'[j] \in Begins(fromspace)
              ELSE /\ rootstack'[j] \in Begins(tospace)
                   /\ mem[rootstack'[j]].forwarding \in Begins(fromspace)
  <2>1. j \in Int
    BY <1>2 DEF TypeOK
  <2>2. CASE j = idx
    BY <1>2, <1>4, <1>6, <2>2
  <2>3. CASE j # idx
    <3>1. rootstack'[j] = rootstack[j] /\ (j < idx + 1 <=> j < idx)
      BY <1>2, <1>6, <2>1, <2>3
    <3> QED
      BY <1>2, <1>10, <3>1 DEF UpdateInv
  <2> QED
    BY <2>2, <2>3
<1>11. /\ Begins(fromspace)' = Begins(fromspace) /\ Begins(tospace)' = Begins(tospace)
       /\ \A a \in Begins(fromspace) : PointsInto(a, fromspace)'
  BY <1>1, <1>2, <1>3 DEF UpdateInv, heapVars, PointsInto, Begins, Refs
<1>12. UpdateInv'
  BY <1>1, <1>2, <1>6, <1>10, <1>11 DEF UpdateInv, heapVars
<1> QED
  BY <1>1, <1>3, <1>7, <1>8, <1>9, <1>12 DEF HeapInv, Idle, Copying, Updating

LEMMA UpdateDoneStep == HeapInv /\ UpdateDone => HeapInv'
<1> SUFFICES ASSUME HeapInv, UpdateDone PROVE HeapInv'
  OBVIOUS
<1>1. /\ pc = "update" /\ idx = Len(rootstack) + 1
      /\ mem' = [a \in Addr |-> IF a[1] = fromspace THEN mem[a] ELSE NULL]
      /\ pc' = ret /\ scan_ptr' = 0 /\ end_ptr' = 0 /\ idx' = 1
      /\ UNCHANGED <<size, fromspace, free_ptr, rootstack, reg, ret, req>>
  BY DEF UpdateDone, clientVars
<1>2. UpdateInv /\ TypeOK /\ ret \in {"client", "retry", "grown"}
  BY <1>1 DEF HeapInv, Updating, TypeOK
<1>3. /\ TypeOK' /\ ReqInv'
  BY <1>1, <1>2 DEF HeapInv, TypeOK, ReqInv
<1>4. SizeInv'
  BY SizeStep DEF HeapInv, Next, Collector
<1>5. ShapeInv'
  BY <1>1 DEF HeapInv, ShapeInv
<1>6. /\ tospace' = tospace /\ tospace # fromspace
      /\ Begins(fromspace)' = Begins(fromspace) /\ Begins(tospace)' = {}
      /\ Refs(fromspace)' = Refs(fromspace)
      /\ \A a \in Begins(fromspace) : a \in Addr /\ mem'[a] = mem[a]
  BY <1>1, <1>2, SpaceFacts DEF tospace, Begins, Refs
<1>7. LayoutInv'
  BY <1>1, <1>6 DEF HeapInv, LayoutInv, TiledUpTo, EndOf
<1>8. GrowInv'
  BY <1>1, <1>2 DEF HeapInv, GrowInv, Growing, Collecting, Copying, bytes
<1>9. \A a \in Begins(fromspace)' : mem'[a].forwarding = NULL /\ PointsInto(a, fromspace)'
  BY <1>2, <1>6 DEF UpdateInv, PointsInto
<1>10. \A j \in DOMAIN rootstack : rootstack[j] \in Refs(fromspace)
  <2> SUFFICES ASSUME NEW j \in DOMAIN rootstack, rootstack[j] # NULL
               PROVE  rootstack[j] \in Begins(fromspace)
    BY DEF Refs
  <2>1. j < idx
    BY <1>1, <1>2 DEF TypeOK
  <2> QED
    BY <1>2, <2>1 DEF UpdateInv
<1>11. IdleInv'
  BY <1>1, <1>2, <1>6, <1>9, <1>10 DEF IdleInv, UpdateInv, Refs
<1> QED
  BY <1>1, <1>2, <1>3, <1>4, <1>5, <1>7, <1>8, <1>11 DEF HeapInv, Copying, Updating
=============================================================================
