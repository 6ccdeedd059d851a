# Verification of the pumpkin-spice compiler

The compiler translates a small functional language (numbers, booleans, `let`,
`if`, `and`/`or`, tuples) to x86-64. It is a chain of passes in Go; the compiled
program runs on a runtime in C that gives it tuples from a heap with a copying
collector. This directory models the **front end** (builtins, type checker,
lowering, CPS conversion), the **back end** (instruction selection, register
allocation, homes, stack frame) and the **runtime** (allocator and collector),
checks them with TLC and proves theorems about the back end and the runtime
with TLAPS.

## 1. Inventory

| Component | Source | State | Operations | What makes it correct |
|---|---|---|---|---|
| Lexer, parser | `lex.go`, `grammar.y`, `y.go` | none of its own | `parse` | generated code; not modelled |
| Front-end passes | `front.go` | a scope | `uncoverBools`, `uncoverTuples` | no unshadowed builtin is left, a shadowed one is left alone: the meaning stays |
| Type checker | `types.go` | a scope | `typecheck` | what it lets pass does not go wrong |
| Lowering | `lower.go` | blocks, lists of blocks, register types, counters | `visitExpr`, `visitCond`, `visitCond2`, `visitFunc` | the code means what the source means; registers are set once, before their uses; successors and predecessors agree; the block that returns is last; the order is one the allocator can use; tuples are known as such |
| CPS conversion | `cps.go` | none | `cpsConvert` | the meaning is given to the continuation |
| Driver | `main.go` | the tree between passes | `main3`, `main2` | the passes run in an order they can rely on |
| Instruction selection | `asm.go` | literals of a function | `SelectInstructions`, `copyCFG`, `gcableVars` | two-address code with the meaning of the portable code |
| Register allocator | `reg.go` | live sets, conflict graph, `InUse` sets | `regalloc` | liveness is exact; no two variables needed at once share a register; what is needed after a call is not where the callee or the collector would spoil it; it ends |
| Homes, frame, patching | `asm.go` | slots of two stacks | `assignHomes`, `addStackFrameInstructions`, `patchInstructions` | slots are not shared; the root stack holds tuples only; the frame is undone |
| Runtime | `runtime.c` | two spaces, `free_ptr`, root stack | `psc_gcinit`, `psc_newtuple`, `psc_alloc`, `psc_gccollect` | nothing reachable is lost, split or left dangling; copies fit; growth leaves room; calls return |
| Printers, old generator | `format.go`, `print.go`, `gen.go`, `AsmPrinter` | none | - | text; not modelled |

**How they interact.** `main3` (main.go:24) calls the passes one after the
other on one tree (uncover booleans, typecheck, uncover tuples, lower), then on
the blocks of `prog.funcs[0]`. The first three each keep a scope of their own
and must agree on what a name is; `lower` relies on the checker for types and
on both passes for builtins, and reports or panics when they left something. `regalloc` is called
from inside `assignHomes` and returns a map from variables to numbers; numbers
past the last register become slots. Compiled code shares three things with the
runtime: `r15`, which it passes to `psc_newtuple` as the end of the root stack;
the slots below `r15`, which the collector reads and rewrites; and the layout of
`struct tuple`.

**What is hard here.** Nothing runs concurrently. What is hard is *stale state*:
a collection moves every tuple, so a copy of a pointer anywhere the collector
does not look is wrong afterwards; a register is reused while its old value is
still needed; liveness is computed in one pass that assumes an order of the
blocks, which another pass chose. *Agreement between passes*: a name that one
pass skips is a surprise to a later one, whose errors the driver does not look
at. And *arithmetic at limits*: sizes wrap around, copies must fit a space
that is never compared with. Wrong code shows only for programs with
enough pressure or a collection at the wrong moment, which unit tests seldom
have. `PROJECT.json` lists each such hazard with its line.

## 2. Modules

    Expr        ast.go, the trees             PortableCode   ops, blocks, Func of lower.go
      ^                                         ^        ^
    Front, Types, Cps    one pass each        Portable   runs them
      ^        Meaning   what a tree means      ^        Lower   lower.go (also uses Types)
      |          ^                              |        ^       ^
    Compiler   main3 and main2: front end, lowering, portable run
                                                         |
    Asm   instructions, dest, src, live sets           (Lower gives the sources
      ^                          Select                 of the back end's runs)
    RegAlloc   reg.go              ^                     |
      ^                            |                     |
    Backend    passes of asm.go from Func to code        |
      ^                                                  |
    Execute    portable code against compiled code  <- ExecuteInv <- MCExecute

    TupleHeap <- refines - Runtime <- RuntimeInv        the inductive invariants

`MCCompiler`, `MCExecute` and `MCRuntime` give the constants their values, and
`SmallExprs` has families of sources for the first two. `RuntimeInv` and
`RegAllocInv` are the inductive invariants of `Runtime` and `RegAlloc`, and
`ExecuteInv` is what holds of compiled code and of the machine that runs it. The
theorems are in modules of their own, each extending the one before it:

    RuntimeProof, RuntimeStepsProof, RuntimeRefineProof    about Runtime
    RegAllocProof, RegAllocLiveProof                       about RegAlloc
    BackendProof                                           about Backend
    SelectProof                                            about Select
    FrameProof                                             about Execute

### Expr, Front, Types, Cps (ast.go, front.go, types.go, cps.go)

A tree is a record whose `expr` names the node type of ast.go, with the fields
of the Go struct; `Children` lists its subtrees. Each pass is an operator on
trees of the name it has in Go. What the two passes of front.go have in common,
copying a node and visiting its children in the scope they get, is `Rebuild`;
`Copied` says which child is copied unvisited (the condition of an `if`), and
`inner` in which scope a child is visited (the body of a function: the outer one).

`typecheck` gives a type and one of `Ok`, `Error`, `Panic`: `multiError` joins the
errors of operands, and where the Go drops an error (types.go:168) so does the
operator. `Panic` is an index out of range (types.go:252). In Go tuple and
function types are pointers compared by identity; here they carry `at`, the
place of the node that made them, so that equal types of two expressions
differ and the type of one variable used twice is the same.

`cpsConvert` takes the continuation first, as cps.go does; `Unhandled` is its
panic for a node without a case.

### Lower (lower.go)

The compiler, its functions and its blocks are one record `c` that the visits
pass on: `blocks` are all blocks made so far, by number; `listed[g]` is
`f.blocks` of function `g`; `regtype[g]` are the types `setType` recorded;
`lastreg` is the counter; `b` and `dst` are what Go returns from a visit, the
block where code goes on and the register with the value. Because blocks are
made and listed at different moments, the model can tell what lower.go's order
does: `visitCond` lists its two targets after everything the condition needs,
and `visitCond2` lists the block of a right operand after the blocks that
operand makes. Errors of `errorf` and panics (no type for a register, an
assertion on a type, a condition without a case) are kept in `c.err`.
`Toplevel` is `prog.funcs[0]` with blocks named by position, which is what the
back end takes.

### Compiler (main.go) and Meaning

`stage` is the last pass done; one action per pass, in the order of main.go:38-44.
`Begin` and `Run` then run the portable code op by op (`Portable`) with 1 and 0
for truth values. A source may instead be converted by `CpsConvert`, as `main2`
does. `rejected`, `crashed`, `trapped` (division by zero) and `converted` are ends.

`Meaning` is the reference: `Eval` evaluates a tree with lexical scope, from
left to right, and says how it fails. It is written for all trees, those of the
parser and those between passes, so that each pass can be compared by itself.
Nesting of calls is cut at `Depth`, which gives the failure `depth`; properties
make nothing of such runs.

### Runtime (runtime.c)

| TLA+ | C |
|---|---|
| `mem[<<space, offset>>]` | the `struct tuple` that begins there |
| `size`, `fromspace`, `free_ptr` | `fromspace_begin/end`, `tospace_begin/end`, `free_ptr` |
| `rootstack` | `rootstack_begin` up to `rootstack_ptr` |
| `reg` | a pointer the program holds in a register; a call forgets it |
| `pc`, `ret`, `scan_ptr`, `end_ptr`, `idx` | where control is, and the collector's local variables |

One action is one iteration of a loop (`RootSkip`, `RootCopy`, `ScanSkip`,
`ScanForwarded`, `ScanCopy`, `ScanNext`, `UpdateRoot`) or one straight piece
(`Swap`, `Grow`, `GrowBack`, `NewTuple`, ...); failed assertions are the actions
`RootAbort`, `ScanAbort`, `ReallocAbort`, a read through NULL is a step to
`pc = "crash"`. Sizes are counted modulo `SizeMod`, as `size_t` is. The client
is any program that pushes, stores, pops and loads roots, reads elements that
are pointers, makes tuples and fills them right after, and may call the
collector, as compiled code and `test_tuples.c` do. Two abstractions: words of
memory that belong to no tuple are not represented, and realloc's success is a
choice, limited by `HeapBound`. `id` is a ghost name of a tuple.

`TupleHeap` is the abstract specification: tuples by identity, no addresses;
tuples that the roots do not reach may disappear at any time. `Runtime`
implements it under the mapping `heapById`, which reads from-space by `id`.

### RegAlloc (reg.go)

`pc` names the loop of `regalloc` control is in: `LiveBlock` is one round of
reg.go:70-81, `LivePanic` the index out of range in line 76, `Define`, `NoNode` and
`Call` one instruction of lines 96-188, `Precolour` lines 190-200, `Colour1`
one round of lines 208-237. A `colorNode` is spread over the functions `Reg`,
`Conflict`, `Moves`, `InUse` and `Order` on the set of nodes `G`. Slices that
are only searched and appended to without duplicates are sets. `Asm` holds
`dest`, `src` and `computeLiveSets` as operators.

### Select, Backend, Execute (asm.go)

`Select` is `SelectInstructions` as operators on the portable code `Lower` makes. `Backend` runs the passes in the
order of `main3`; `pass` is the next one and `asm` the code as rewritten so far.
`Key`, `Keys`, `Nth` and `gethome` compute what the map `m` and the closure
`spill` of `assignHomes` build up as code is rewritten: a slot's number is how
many keys the code comes to no later on the same stack. `Execute` then runs the
portable code (`SourceOp`), which writes down every branch it takes, call it
makes, element it stores and result it returns, and after it the compiled code
(`Machine`), which must do the same. Values are terms (`<<"-", x, y>>`), so that
one run stands for all numbers, and both ways are tried at every branch. Every
call makes all registers the convention does not preserve junk and all pointers
stale but those the collector updates: slots below `r15`, and elements with a
bit in the mask that the compiled code passed. The mutants beside the
definitions (`Call_TuplesLikeNumbers`, ...) are the errors the properties were
tried on.

## 3. Runs

| Run | Instance | Shows |
|---|---|---|
| `runtime_heap` | one size of heap that grows once, tuples of 1 and 2 elements, 2 roots | assertions, layout, copies fit, precise collection, the two inductive invariants |
| `runtime_refines` | the same, without data | `Runtime` implements `TupleHeap` |
| `runtime_growth` | heaps of 0 and 6 words, `size_t` modulo 8, tuples of 1 and 3 | growth leaves room or gives up; every call comes to an end |
| `runtime_null_root` | | a disagreement, below |
| `front` | 24,515 sources, with and without errors; `Depth` 3 | what typechecks does not go wrong; each pass keeps the meaning; blocks, registers, order and tuple masks of the portable code are right, and it returns what the source means |
| `front_uncover` | `if true then 1 else 5 end` | a disagreement, below |
| `backend` | 2791 portable programs, lowered from sources; registers `rcx`, `rdx` | exact liveness; no write to the home of a variable still needed; slots inside the frame; compiled code behaves as portable code; roots hold tuples; the caller sees nothing |
| `backend_saved` | fewer sources; registers `rdx`, `rbx`, `r12` | no clobbering, calls survived, the inductive invariants of `RegAllocInv` and `ExecuteInv`, the same behaviour with registers that live across calls, and termination |
| `regalloc_order`, `backend_product`, `backend_if_tuple`, `backend_layout` | | four disagreements, below |

**Bounds of the front end.** `Small` is every tree two deep over 1, `true`
and `x` with every node the parser makes, alone and with `x` bound, typed or not: it has
each way two node types can meet. Beyond it are families for what takes more
depth: conditions in conditions, each used as a value and as the condition of
an `if` (`Conditional`); every operator on negative numbers, zero divisors and
numbers that are ifs (`Numeric`); tuples of tuples and elements of elements, in and
out of range (`Tupled`); functions called under their own name, another one or
recursively, and builtins bound again (`Functional`). Three nested calls let a
recursive function return. All stages are reached and all ops run.

**Bounds of the back end.** The sources (`SmallExprs`) are all sequences of 4
definitions over -, /, `eq`, negation, tuples of 1 or 2 elements and their elements;
5 definitions with fewer operators; 2 definitions, an `if` with a definition in each
branch and one after it; and the conditions of `Conds`, nested twice. They
are lowered by `Lower`. Two registers of the six (`rcx` and `rdx`; `rdx` is an
argument and what division destroys) make three variables too many, so spilling
happens in small programs; `rdx`, `rbx`, `r12` stand for the longer list that is
commented out at reg.go:48. Products and right-nested conditions are left to
the runs about them, since they go wrong; one right-nested condition is in
`backend` too, so that the panic is among the steps it takes.

**Bounds of the runtime.** `HeapBound`, `StackSlots`, `SizeMod`, `MaxElem` and
`MaxLen` are scaled down together; 2 roots and 2 elements suffice for sharing,
cycles (a tuple may point to itself) and a root that is twice on the stack, and
the heap is large enough for two tuples and one growth. What the bounds leave
out is the subject of the proofs, which hold for every value.

**What the front-end properties leave out, and why.** `TypesSound` is about
sources that call functions under a name: the error of a called function
expression is dropped (types.go:168). `UncoverKeepsMeaning` leaves out functions
and parameters that have a builtin's name, because a function's body is
visited in the outer scope (front.go:90). `CpsKeepsMeaning` is about sources with
distinct binders other than `k` and `return`, trivial operands and no call of a
builtin. `LowersUnless` and `TuplesKnown` leave out ifs that may give a tuple
(`ScalarIfs`), the subject of `backend_if_tuple`. `InOrderUnlessNested` is exact but
for constant conditions, whose jumps skip blocks and may hide the disorder. No
text of the repository promises what these exclusions leave out; they are
hazards in `PROJECT.json`.

**Fairness.** `Runtime` assumes weak fairness of the collector and allocator
only: C code runs on once called, and the program may stop for good at any
time. `RegAlloc` and `Execute` assume weak fairness of the next-state relation:
a sequential program that can go on does. `Compiler` states safety only, and no
fairness; every pass is one step. `CHECK_DEADLOCK FALSE` is set where the
program comes to its end, aborts or panics.

### Disagreements found

* `runtime_null_root`: the last loop of `psc_gccollect` reads the forwarding
  pointer of a NULL root (runtime.c:179), which the first loop skips
  (runtime.c:83). Compiled code zeroes its slots, so a collection before the
  first spill dies.
* `front_uncover`: "the uncover-bools pass replaces any unshadowed "true" or
  "false" variables" (front.go:13), but the condition of an `if` is copied
  unchanged (front.go:78), so `lower` does not find the name in scope.
* `regalloc_order`: a right-nested `and`/`or` lists a block before its
  predecessor, and `regalloc` panics (reg.go:76), although a comment expects the
  order to sort itself out (lower.go:667).
* `backend_product`: `dest` takes `imul` to write `rdx` (reg.go:316), but the form
  selected writes its first operand (asm.go:433): for `a*b - a` the product may
  overwrite `a`. `NoClobber` holds of what `dest` says; `SameBehaviour` of what x86 does, so
  `backend` leaves products out.
* `backend_if_tuple`: the join of an `if` is always a `BoolT` (lower.go:479), so a
  tuple in it is not spilled across calls.
* `backend_layout`: elements are stored at `8*i` from the start of the struct,
  over its 72-byte header (asm.go:533, runtime.c:56-63).

## 4. Proofs

tlapm checks all of these for every value of the constants that the named
assumptions allow.

**Runtime.** `SizeInv` (sizes of the two spaces) is inductive by itself and
gives `SpacesMatchHolds` and `NeverShrinksHolds` (`RuntimeProof`). The other
safety properties need `HeapInv` (`RuntimeInv`), which says what is true in three
phases: *idle*, to-space is empty and all pointers lead to tuples of
from-space; *copying*, originals are whole, copies point into to-space up to
the scan position and into from-space beyond, and forwarding is one to one;
*updating*, the spaces are swapped and roots not updated yet lead to originals
that forward. It is needed because none of the properties speaks of the
elements not yet scanned. The heart is `CopiesRoom`: `end_ptr` never passes the
end of to-space although no line of the code compares them. By `CopiesPack`
(`RuntimeProof`), intervals that are moved without duplication and packed
without gaps take no more room than they took, since each word of a copy can be
charged to its own word below `free_ptr`; `ForwardInv` and `TiledUpTo` are its
premises. `RuntimeProof` has a lemma for each action of the collector,
`RuntimeStepsProof` for the others. The theorems are `HeapInvariant`,
`TypeOKHolds`, `HeapTiledHolds`, `CopiesFitHolds`, `AllocInBoundsHolds`,
`CollectorAssertsHolds`.

`HeapInv` says where tuples lie and not what they hold. `ContentInv` adds that,
for the time of a collection: a copy has the length, the mask and the plain
elements of its original; its pointers are those of the original where they have
not been scanned, and where they have, they lead to the copy of what the original's
lead to; and whatever has been copied is in *every* set of tuples that holds the
roots and is closed under pointers. The last part is what makes `CollectPrecise`
provable without an induction on paths: at the end the copies form such a set
themselves, so they are the least one (theorems `ContentInvariant` and
`CollectPreciseHolds`).

`RefinesTupleHeap` (`RuntimeRefineProof`) is the refinement: every step of `Runtime` is,
under `heapById`, a step of `TupleHeap` or a stutter. Collecting maps to nothing
until `Swap`, which loses what is unreachable all at once, and `UpdateRoot`, which changes
addresses in the roots but no identities. Since addresses are looked up
through `id`, the proof needs that live tuples have distinct names, and that forwarding keeps
them, which is in the two invariants.

All but the first two theorems of `Runtime` assume `ShortTuples`, that no tuple longer than
`isptr` is asked for: no pass of the compiler limits the size of a tuple, and with a
longer one the collector aborts, an action of `Runtime` that `runtime_growth` takes.

**RegAlloc.** `NoClobber` and `SurvivesCalls` speak of the end, when every node
has its register; what is true on the way is `AllocInv` (`RegAllocInv`). For the
instructions the graph loop has *met*, their destinations are nodes (`NodesInv`), there
is an edge from a destination to each other defined variable live after
it (`EdgesInv`), and what a call may destroy is banned for what lives across it
(`CallsInv`). The graph is symmetric and has no loops (`ConflictInv`), and once colouring
has begun a node's register is banned for all its neighbours (`ColourInv`): that is why
the first register not in `InUse` is safe. Each action either deals with the
instruction at `<<b, i>>` (`InstrStep`), or meets nothing new and lets the graph grow
(`QuietStep`). The theorems `AllocInvariant`, `NoClobberHolds` and `SurvivesCallsHolds`
hold for every program, every list of distinct registers and every set of
caller-save registers. They speak of variables that an instruction listed so far
defines (`DefinedBy`), because the code adds edges only to nodes there are.

**Liveness.** What those two theorems say is worth as much as `L`. `LiveInv` says of
the one pass from the last block to the first: the blocks after `b` have
live sets, their successors come later and have them too (*settled*), and the sets
solve the data-flow equations. `LiveInvariant` proves it, from a proof that the
recursive function in `computeLiveSets` is what its equation says. A solution of the
equations need not be the least one when code has loops; here it is, because settled
blocks only lead forward. `LivenessExactHolds` proves that, against a definition by
paths (`ReadFrom`, `KeptFrom`, `Needing`), in two inductions written as least
counterexamples (`Least`): backwards over the code of a block (`WithinBlock`) and
from the last block to the first (`NeedingLive`). Further theorems of
`RegAllocLiveProof`: `TypeOKHolds`, `EveryVarHasHomeHolds`, and
`AnyOrderThatIsForward`, which says that a program listed in a forward order never makes
`regalloc` panic: the property `regalloc_order` violates fails for no other reason.

Three of them ask something of the programs. `LivenessExactHolds`: no block is empty
(`NoEmptyBlock`; the live set of an empty block stays empty at reg.go:286, whatever its
successors need); `SelectInstructions` ends a block with a jump, or with the copy of
the result to `rax`. `EveryVarHasHomeHolds`: a variable that is read anywhere is written
somewhere (`WritesAll`), which `SingleAssignment` checks of the portable code.
`AnyOrderThatIsForward`: `Forward`, its subject. The first two are proved of whatever
`SelectInstructions` makes (`SelectsWhole`, below); `MCExecute` assumes them too
(`WholePrograms`), so that TLC evaluates them on the sources of every run. `LiteralAssumption` says that a
literal is a string, which the prover has no axiom for.

**Homes.** `HomesApartHolds` (`BackendProof`) carries `NoClobber` from numbers to
homes: after `assignHomes` no instruction writes the register or slot of another variable
that is needed after it, with the same exception of a copy. Numbers become registers
one to one since no register is listed twice; numbers past the last become slots by the
order in which the code mentions them. That this is one to one is an argument
about that order: it is total (`EarlierOrders`), so every key has a first mention (`First`), and
of two keys of one stack the later one counts all the earlier one does, and itself
(`SlotsDiffer`). `SlotsInFrameHolds` bounds the count by the size of the frame. A
register that the code names itself is a node with its own number (`PrecolouredInv`, which is proved inductive
next to `AllocInv`). Both assume `SomeRegisters`: with an empty list number 0
would be a slot, and a tuple and a number would share key 0, which is its own
negative (asm.go:262). The list has six.

**Instruction selection.** What the theorems above and below ask of programs is asked of
machine code, and so of `SelectInstructions`. `Lowered` (`ExecuteInv`) says what the portable
code is that it is given: blocks that are not empty and end with a branch, a jump or a return;
known ops with as many operands as they need, no more than there are argument registers;
a comparison before each branch; no jump back to the first block; operands that are
literals or registers that some op or jump gives a value. `SelectsWhole` (`SelectProof`)
proves that the code made of it has no empty block (`NoEmptyBlock`), writes every
variable it reads (`WritesAll`), and leaves the frame alone (`Selected`). There is one lemma
for each kind of op (`SelectsBinOp`, `SelectsJump`, `SelectsCall`, `SelectsRecord`,
`SelectsTest`), and `Flat` says where the instructions of a `FlattenSeq` come from. That
the tables of condition codes and of argument registers are never read outside their
domain is part of it. `MCExecute` assumes `Lowered` of what `Lower` makes of the sources
(`WholeFunctions`).

**The frame.** `CallerSeesNothingHolds` (`FrameProof`) says that compiled code gives its
caller back both stack pointers and the callee-save registers, for every `Lowered` function. It is
a statement about the last state of a run; what makes it inductive is `ExecuteInv`, in two
parts that `backend_saved` checks. `CodeInv` is about the code: the first block begins
with `Entry`, the last one ends with `Exit`, and an instruction between
(`Body`) does not push or pop, does not jump back to the first block, writes no stack
pointer and no callee-save register that is not pushed, and stores
nothing above the frame. It follows from what `SelectInstructions` makes (`Selected`), from
`SlotsInFrame` and from the list `registers` that `assignHomes` leaves, and it survives
`addStackFrameInstructions` and `patchInstructions` (lemmas `AssignCode`, `FrameCode`,
`PatchCode` of `BackendProof`; the last is an argument about `FlattenSeq`, whose pieces are
single instructions where `Entry` and `Exit` are). `MachineInv` is about the machine:
after `d` instructions of `Entry` so many registers are pushed, each in its place,
and the stack pointers have moved so far (`Entered(d)`); the same after `u`
instructions of `Exit` (`Left(u)`); between the two all of it stays as it is
(`Inside`). The steps are `EntryStep`, `BodyStep` and `ExitStep`; a block may run
into the next, a jump goes anywhere but to the first block, and `Entry` or `Exit`
may be empty or share a block.

Its assumptions: `SomeRegisters`; `Convention`, that the registers given out, those that
instructions name and those of arguments are registers of the machine and no stack
pointers, that the latter two (`Scratch`) are not callee-save, and that a call destroys neither
a callee-save register nor a stack pointer (reg.go:40-52; the longer list that is commented
out there has `r15`, the root stack pointer, which would not do); and `Lowered` of the
functions, from which `SelectsWhole` gives the rest. `MCExecute` assumes the last two
(`SomeConvention`, `WholeFunctions`), so TLC evaluates them on the sources of every run.

**Model-checked only.** The liveness properties `CallsReturn` and `Finishes`:
liveness under fairness and `ENABLED` are beyond the prover. Everything about
`Compiler`: the passes of the front end, and the meaning they keep, are recursive
operators over trees, no theorem's module reaches them, and induction over trees
is beyond the prover as well. Of `Execute`, `SameBehaviour`, which needs a simulation between
portable and machine code, and `RootsHoldTuples`, which needs to know of each variable in
a root slot that it holds a tuple; what the theorems give them so far is that homes do not
collide, that slots are in the frame, and that the frame is set up and undone.

## 5. Not modelled

The lexer and the parser (generated by goyacc; its trees are the sources of
`MCCompiler`), which are a sixth of the code. The printers (`format.go`,
`print.go`, `AsmPrinter` with `checkMachineInstructions`), whose result is text. The old code
generator `gen.go`, which nothing calls. The driver's I/O and its call of cc.
Functions beyond `lower`: `visitFunc` makes a `Func` that `main3` never compiles.
Texts of error messages. Flags and addresses beyond what compiled code uses.
Stack alignment at calls. The space the root stack has (4096 bytes, never
checked). Wrapping of 64-bit numbers: they are terms in `Execute` and small
integers in `Compiler`.

## 6. Plan

1. Done: all passes from the tree to compiled code, the runtime; the proofs about
   `Runtime`, its refinement of `TupleHeap`, liveness, colouring and homes.
2. Done: the proof that the frame is undone and that the caller gets its registers back,
   from the portable code on, with what instruction selection makes of it.
3. Left: a proof that root slots hold tuples whenever a call is made: the zeroing at the
   entry, `SlotsInFrame`, and that what is moved to a variable in `gcable` is a tuple.
