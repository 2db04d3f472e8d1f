# TBasic: a verification development

TBasic (`src/`) is an interpreter for a small BASIC-like language, written in C:
a one-pass compiler to bytecode, a peephole optimizer, a stack VM whose handlers
tail-call each other, and an object heap with a mark & sweep collector.  This
directory holds TLA+ models of its parts, TLC configurations that check them on
small instances, and TLAPS proofs of the theorems that hold for all instances.
Paths below are relative to the repository (`src/vm.c` is the VM).

`PROJECT.json` maps each definition to the lines it models, lists the runs, the
mutants (a plausible bug for each checked property, defined beside the operator
it changes), the hazards of the code and the theorems.

## The system

| component | state | operations | makes it correct |
|---|---|---|---|
| object heap, `objects.c` | cells, stack of free ids, watermark, tenure count, cost | `heap_store`, `heap_erase`, `heap_tenure`, `heap_get`, `heap_is_ripe`, `heap_del` | no id names two objects; no cell is lost; the cost is that of the live objects |
| collector, `gc.c` | bit set, ring of ids, ring of dict nodes | `GCState_collect`, called by MK_LIST and MK_DICT when the heap is ripe | what is in use stays, what is not goes, a collection ends, the heap's books balance |
| VM control, `vm.c`, `obj_closure.c` | stack, sp, bp, chunk, depth, status, `trying_except`, captures, the global `dispatcher`, the C stack | CALL, NATIVE_CALL, RET, TRY, RAISE_ERR, CATCH_ERR, ABORT_IF, jumps, closures | exceptions reach the innermost CATCH; without AND and OR a callee leaves its caller's slots alone; "ok" means that the program returned |
| VM data, `vm.c`, `obj_list.c`, `obj_dict.c`, `obj_str.c` | values, lists, dict trees, strings | arithmetic, comparison, bitwise, indexing, superinstructions | tags and widths; a dict is a map, a list a sequence |
| compiler, `compiler.c`, `compile_utils.c` | chunk being filled, scopes, captures, active loops, constants | one function per grammar rule | the emitted code means what the source says; jumps are patched; names resolve to the right slot |
| optimizer, `optimizer.c` | automaton state, instruction pointer | `optimizer_apply` on each chunk | the replaced code computes the same value and no jump lands inside it |
| loader, `load_bc.c` | loader state, position, chunk being filled | `tbl_load_from` | a file is loaded as it was written, or refused |
| lexer, `lex.c`, and the values of literals, `mystr.c`, `compiler.c` | position, line, column; the strings of the program | `lexer_next`, `compiler_do_literal` | tokens cover the source; literals mean what they spell, numerals unless they share a lexeme |
| driver and embedding API, `driver.c`, `tb_api.h` | flags, natives, program, VM | compile, run, `tbasic_invoke` | an invocation does not depend on earlier ones |
| natives, display, build, suite, benchmarks, demo | - | - | - |

How they interact: the driver compiles a file to a `Program` (chunks of
instructions and constants, a pool of strings), passes each chunk through the
optimizer, and makes a VM.  VM handlers call the heap (`heap_store`, `heap_get`)
and, before a list or a dict is stored, the collector, which reads the VM's
stack and calls `heap_erase`.  A CALL runs its callee inside its own handler, on
the C stack; natives are called through trampolines, and get the VM to work on.
A host may invoke the same VM again and again.

The program is sequential and persists nothing.  What is hard about it is: an
exception that unwinds through several handlers while one bit and one global
pointer say where it goes; status values that later handlers overwrite; a
collector that must agree with the heap on what an id means, with work areas
that fill up; counters of 8 and 16 bits; state that one invocation leaves to the
next; emitted code whose effect on the stack depends on the path taken; pointers into
tables that grow; fields that are written before and read after something else
was compiled; a file that ends anywhere.

## Modules

| module | models |
|---|---|
| `HandleTable` | abstract: what a heap promises, a table from handles to objects |
| `ObjHeap` | `objects.c`; one action per function that changes the heap.  Instance `Table` maps it to `HandleTable`: `owner` is `cells` |
| `KeyedMap` | abstract: a map from keys to items, asked and changed by calls that take time |
| `Dict` | `obj_dict.c`: the hash and the tree, one turn of a search per step.  Instance `Map` maps it to `KeyedMap`: the item of a key is that of the node with its hash |
| `ItemSequence` | abstract: a sequence that grows at its end, with look-ups and replacements by index |
| `Buffers` | `vec.h`, `mystr.c`, and the get and set of `obj_list.c` and `obj_str.c`.  Instance `Sequence` maps it to `ItemSequence`: the sequence is what is in use of the allocation |
| `Loader` | `load_bc.c`, and what `docs/bytecode_fmt.md` says of a file |
| `Lexer` | `lex.c`, and the conversion of literals to their values by `compiler.c` and `mystr.c` |
| `Scopes` | `compile_utils.c` and what of `compiler.c` deals with names, slots, captures, constants and loops |
| `GC` | extends `ObjHeap`: `gc.c`, and the VM instructions that make, move and connect objects |
| `VMCalls` | the control part of `vm.c`, `closure_invoke_fn`, `tbasic_invoke` |
| `CodeGen` | the code that `compiler.c` emits for control constructs, as operators from the code of the parts to the code of the whole |
| `Optimizer` | `optimizer.c`: the automaton, one iteration of the loop per step, over any code |
| `Arithmetic` | `value.h` and what the arithmetic, bitwise and comparing handlers of `vm.c` compute |
| `OptimizedCode` | extends `Optimizer` and `Arithmetic`: a chunk without calls is optimized and run, and then run as the compiler emitted it |
| `MCContainers` | instance for TLC of the heap, `Dict` and `Buffers`; a behaviour uses one of the three |
| `MCInput` | instance for TLC of `Loader` and `Lexer`, the two readers; a behaviour uses one of them |
| `MCGC`, `MCVMCalls`, `MCOptimizedCode`, `MCScopes` | instances for TLC; the second and third build their programs with `CodeGen` |
| `ContainersProofs` (on `Dict` and `Buffers`), `GCProofs` (on `ObjHeap` and `GC`), `VMCallsProofs`, `OptimizerProofs`, `InputProofs` | theorems |
| `ScopesInvariant`, `ScopesProofs` | the inductive invariant of `Scopes` and the simpler steps; the other steps and the theorems |
| `Recursion` | lemmas: the least number of a set, induction up to a number, and that a function defined by recursion over 0 .. k exists |

**ObjHeap.**  `cells`, `free_ids`, `next_free_id_pos`, `next_cell_id`,
`tenure_count` and `cost` are the fields of `ObjHeap`; `last_id` is what the
latest `heap_store` returned.  An object is an element of a constant set; of its
table of functions only the absence of `del` matters (a closure has none).
Erasing an empty cell or an object without `del` calls through a null pointer:
`heap_status` becomes "crashed" and the model stops.

**GC.**  A collection runs inside one instruction; `phase` is its program
counter, so that its termination can be asked for.  `next_ids` and
`dict_nodes.queue` are the rings as they are: push moves the tail and then
writes, pop reads and then moves the head, and a ring is empty when head and
tail meet, which a push that fills it brings about.  `reach_bits` is the bit
set; setting a position beyond it is a nondeterministic choice between a write
that goes unnoticed and the end of the process.  A stack value is an object id,
the dud id, or `Imm` for anything that is no object.  The tree of a dict is a
chain of nodes.  `items[id]` stands for a list's items, a dict's values, a
closure's captures or an exception's data.

**Dict.**  `nodes` holds the nodes in the order of their allocation, `root` and the
children are positions in it; `call` is the get or set in progress, `curr`,
`prev` and `curr_was_left` are the variables of its loop.  Keys are not kept:
`hash_value` adds up the four bytes of the payload with weights and leaves the
tag out.  `limits`, a history variable, has for each node the bounds on the
hashes below it.

**Buffers.**  One operation per step on one buffer: a list (`AnyVec`), a vector of
scalars (`ScalarVec`) or a string (`mystr`, whose allocation may be one cell longer
than its capacity says).  `data` is the allocation; a store beyond it is recorded in
`outside`.  `AnyVec` and `ScalarVec` grow by one half (the former by one more), strings by
what is needed.

**Loader.**  `state`, `pos`, `prgm`, `temp` and `flags` are the fields of the loader and
the item it is filling; a step is one iteration of the loop in the function of
the current section.  What a constant means is read off its four bytes as the format has
it (`Meaning`); what is loaded is what the code makes of them (`Constant`): reals come
out as ints, and string ids are cut to 16 bits by `make_value_str`.

**Lexer.**  `source` is a sequence of character codes, `lexer` has the fields of `Lexer`,
and `tokens` what `lexer_next` returned; one step is one call, by the function it chooses.
The loops over characters are sets of positions: a lexeme ends at the first one that
does not belong to it.  Behind a literal the next step is `compiler_do_literal`, with
the three conversions of numbers and that of strings; `names` are the strings of the
program, which are looked up by the spelling of the new one, and a numeral is looked up by
its lexeme among those before it (`compiler_record_constant`; the source is one scope).  A
conversion that runs past its lexeme makes `lex_status` "lost".  A source may be any characters, or
`written` from literals that come with what they mean.

**Scopes.**  The source is chosen while it is compiled: each step is the next piece
of it, so that TLC goes through all sources of a bounded length.  `frames` is the
C stack of the `compiler_do_*` functions that wait for a part; `locals` is the
stack of symbol tables, `loops` that of active loops, `chunks` the code so far.
Each instruction carries what in the source it is for, so that the properties can
compare it with where it leads; `info` says whether the compiler still had the
right information when it emitted it.  A declared local whose table has been
reallocated while its initializer was compiled is read through a stale pointer
(compiler.c:1204, 1415): its id may be anything, given as the old one or 0.
Expressions are single operands, and sources have no syntax errors.

**VMCalls.**  A step is the handler of one instruction, or what is left of the
handler of a CALL when its callee has returned.  `frames` is the C stack:
the callers inside `fn_call` or `closure_invoke_fn`.  `returned` is the result
of the handler that is returning, `Running` when a handler is about to be
called.  `dispatcher` is the global pointer, followed by every handler except
RESERVE, RAISE_ERR and CATCH_ERR; the search for a CATCH is an operator over the
code with the count of TRYs that the C code keeps in a `size_t`.  An access
outside of the stack, through the null `upvals` or beyond the captures, or a call
of no chunk (`Faulty`, `BadAccess`) sets `crashed`.  The first instruction of a called
chunk is reached through `dispatcher` (vm.c:879), that of a closure through
`vm_dispatch` (obj_closure.c:79).  `CodeAssumption` says what the VM takes for granted
of a chunk and `compiler.c` provides: jumps land in the chunk, its last instruction is a
RET, marked as the last one unless the chunk is the trampoline of a native, and
the main chunk begins with its RESERVE and not with a CALL.  TLC evaluates it for
the programs of the runs, which `CodeGen` makes.  DUP and PUT_CALLEE are left out: the compiler emits neither.
`wrapped`, a history variable, says that the depth counter has come round.
`Chunk.local_slots`, which `fn_call` adds to `sp`, is 0 in every chunk.
Constants are known by their index, and natives behave as `print` does.

**Optimizer.**  `opt_sp` and `opt_ip` are `Optimizer.sp` and `.ip`, the states
are those of `optimizer.h`, and `tb_optimizer_states` is the table of their edges;
an opcode without an edge leads to the start, and is not read again there.
`source` is a history variable, the code as it was.  `Lhs`, `Rhs` and `Arith`
say how the handlers of the superinstructions read one.

**OptimizedCode.**  Two machines, "optimized" and "source", run one after the
other: `ip`, `sp`, the stack and a status each.  `bp` is 0, since nothing is
called.  An int wraps around at `IntBits`; a float is a fraction (its rounding
and infinities are left out: an operation rounds alike in both machines), and
0/0 stands for NAN.  `INT_MIN / -1` traps, as on the processors of the build.

## Runs

Every passing run explores the complete state space of its instance.

| run | instance | what it shows |
|---|---|---|
| `containers` | heap: 4 cells, 3 objects, one without `del`; dict: 4 keys with the hashes 0, 1, 25 and the largest, 2 items; buffers: capacities from 1 (2 for scalars), up to 5 items | every order of stores, erasures and tenures keeps the books and implements `HandleTable`; dicts filled in every order implement `KeyedMap`, and their searches end; buffers stay inside their allocation through three reallocations and implement `ItemSequence` |
| `gc_lists` | 3 cells, ring of 4, lists of an item that is replaced at any time, and strings | unless the ring overflows, everything that the top of the stack leads to through lists is marked, although the ring never hands out its last id; a collection of acyclic lists ends; a collection is due at two thirds |
| `gc_kinds` | 5 cells, 4 bits, ring of 3, 2 collections; families: lists with dicts, dicts with closures and strings, dicts with errors | the books balance between any two steps of a collection; with fewer bits than cells, as `make_vm` has it (264 to 512), two collections in a row mark nothing stale and leave no unreachable object below the last bit |
| `calls` | 5646 programs, each run twice: main with two statements (TRY in TRY included), a function that handles or passes on exceptions, a leaf, a native; closures with branches and loops; AND and OR, true, false and on closures, in main and in a function; calls deeper than a counter of 4 values | exceptions reach the innermost CATCH in disciplined programs and are never lost in any; in programs without AND and OR, and until the counter comes round, no callee touches its caller's slots; "ok" only when main returned; second runs end as first ones; captures belong to the running closure when closures call nothing; the counter wraps as it should; every run ends |
| `optimizer` | 1856 programs, each with 3 pools of constants: expressions of arithmetic on arithmetic, `??`, AND, OR, prefix `?`, bitwise and comparing operators; ints of 4 bits, flags below 3 | only whole patterns change; superinstructions mean what they replace; the results of exact code agree, traps included; no jump lands in a pattern; `??` and OR leave one value |
| `input` | files: 6 programs with strings, chunks and constants of every kind, their files whole, cut at each byte, or with any one byte changed to one of 6; sources: all of up to 5 (or 4) characters over six small alphabets, and 99 literals of every kind, alone and in pairs | whole files load as written, except reals and string ids of more than 16 bits; cut ones are refused, and whatever the bytes say, each is accounted for and loading ends; no character of a source is lost or read twice, and lines and columns are right; conversions stay inside closed literals; literals mean what they spell, also when two spellings of strings have one text, but a numeral may be taken for an earlier one with its lexeme |
| `scopes` | all sources over 2 names, of up to 5 statements, functions and lambdas, in 4 families: headers of two names, nesting to depth 3, loops with BREAK and CONTINUE, literals spelled alike; symbol tables that begin with 2 entries | slots, captures, constants and jumps belong to what the source names |
| `gc_used`, `calls_uncaught`, `calls_logic`, `opt_order`, `scopes_assign` | | expected violations: see Findings |

Bounds: `MaxStack`, `MaxItems` and `MaxCollections` (GC) and `MaxRuns` (VMCalls)
bound what a program does; `StackCapacity` (VMCalls) and `CellCapacity`,
`HeapPopMax`, `U8Bits` (GC) are the code's own limits made small, so that full
heaps, overflowing rings and stack overflows are reached; `DepthModulus` (256)
is 4, so that deep calls wrap and others do not.  The proportions of the
code are kept: a ring shorter and one longer than the heap occur.
`FlagModulus` (256) is 3, so that the fourth constant does not fit; `IntBits` (32)
is 4, so that sums and products wrap.  `MaxAppend` and `MaxLength` (Buffers) bound
what is appended; `Huge` (Loader) stands for lengths that no file has, which a
changed byte in the upper half of a count gives.  `MaxLiterals` (Lexer) is 2, so that a string
is looked up among the strings before it; `IntWidth` (32) is 8 and `IntLexeme` (8) is 2, so
that two hexadecimal digits fill an int and the longest decimal still fits.  `HeaderNames`, `MaxParts` and
`MaxScopes` (Scopes) bound a source: two names make shadowing, capturing and
swapped slots possible, three scopes a lambda in a lambda, and five parts two
nested loops with a BREAK or CONTINUE in and behind the inner one.
`DEFAULT_SYMBOL_COUNT` (8) is 2, so that tables are reallocated.  Below the 8
scopes or loops with which the stacks of the compiler begin, its pointers to
scopes and loops (compiler.c:1331, 1383, 1761, 1868, 2020) stay good; deeper nests are
not modelled.  The two names of `scopes` are interchangeable (`SYMMETRY`).
`CHECK_DEADLOCK FALSE`: a process that has died, a closed heap, a program out of
its bounds and an ended run stop.

Fairness: `GC!FairSpec` (and `MCSpec` of `MCGC`) has weak fairness of the collector's
steps, `VMCalls!FairSpec` of the VM's, `MCSpec` of `MCContainers` of the turns of a search
in a dict, and `MCSpec` of `MCInput` of the loader's: there is one thread, and a function
that has begun goes on.  Nothing is assumed of the host, which need not invoke again, nor of
the program, which need not allocate.

### The conditions in the properties

Some properties hold only under a condition, and the condition is the result:
without it TLC finds a counterexample in the same instances.

- `Disciplined` (in `InnermostCatch`, `DisciplinedSameOutcome`): no TRY in the
  body of a TRY; calls in a TRY only when nobody but main catches; nothing that
  throws ahead of a TRY outside of TRYs.  `trying_except` is one bit for the
  whole VM, and any CATCH clears it.  560 of the 4536 programs are disciplined.
- `CallersSlotsStay`: no AND and no OR in the program (`WithoutLogic`), and a depth counter that
  has not come round.  JMP_FALSE pops a true left side of AND (vm.c:813) and JMP_IF an object
  on the left of OR (vm.c:840), and the POP behind (compiler.c:1127, 1155) pops one more: two
  `IF TRUE AND TRUE` in a function without locals leave `sp` below `bp`, and the next value
  lands in a slot of the caller.  At a wrapped depth an inner RET writes `stack[0]`
  (vm.c:921).  The run has programs that do either.
- `LeafCapturesAreMine`: closures that call nothing.  `closure_invoke_fn`
  (obj_closure.c:85) resets `upvals` to NULL, not to the caller's, so that a
  closure that has called another goes through a null pointer next.
- `AcyclicCollectionEnds`: acyclic lists.  The mark loop does not look into the
  bit set (gc.c:257), and of a list that holds itself it finds no end.
- `MarkComplete`: two slots below the top or more, no overflow of the ring.  The
  last id pushed is never handed out; the top is pushed once per slot below it,
  and from the second push on nothing is missing.
- `MarksReachable` and `MarkComplete` speak of the top of the stack only: the
  root scan (gc.c:232) indexes with `stack_sp`.
- `OkMeansMainReturned`, `NoExceptionLost` and `DisciplinedSameOutcome` are for runs
  whose depth counter has not come round (`wrapped`): at 256 activations it is 0 again,
  an inner RET takes itself for main's, and the caller of a closure goes on
  although an exception came out of it (obj_closure.c:87).
- `VMTypeOK` has the instruction pointer in the chunk only while a handler is to run:
  an activation that `fn_call` ends at depth 0 (vm.c:886) is back in its own chunk with
  the place that its callee stopped at.  The proof found this; the chunks
  of the runs are too much alike in length.
- `DisciplinedSameOutcome` also excludes ASSERT: after a run in which an ASSERT
  failed in a function and an exception was left uncaught, the global
  `dispatcher` (vm.c:1384 leaves it alone) still seeks a CATCH, and the next
  invocation skips the main chunk.
- `GarbageBelowBitsGoes`: ids below the last bit.  Cells above are never swept:
  gc.h:67 wants a bit for each cell, and `make_vm` has 264 for 512.
- `ReplacedKeepMeaning`, `ExactCodeKeepsResults`: no constant before a local in SUB
  or DIV (see `opt_order`), and ids that fit into the flag (optimizer.c:20
  truncates the first one to 8 bits).
- `OneValuePerExpression`: no AND (see `calls_logic`), no string on the left of
  OR (JMP_IF pops it, and so does the POP behind), and no prefix `?`, which
  leaves the value it looks at below its answer.
- `DictImplementsMap` and the keys of `containers`: keys of different hashes.  NIL and
  0 are one key to a dict, as are 5 and 256 or a string and the int of its id.
- `VariablesKeepApart`: stores through a pointer that is still good (see Scopes); and
  no two parameters of one name, which share a slot while RESERVE counts both as
  arguments, one slot too few.
- `LiteralsKeepValues`: literals of one spelling have one value.  The lexer drops the
  prefix of #x10 and the constants are found by their spelling (compiler.c:310): in
  a function that has used 10, it is 10 too.
- `VariablesKeepApart`, `LiteralsKeepValues`, `LoopJumpsMeet`: no BREAK or CONTINUE in a
  lambda whose loop is around the lambda (`StrayJump`).  The loop takes the position
  for one in its own chunk, and changes whatever instruction is there.
- `LiteralsAsWritten`: a numeral may be taken for one before it that has the same lexeme:
  prefixes are no part of it, so that `#x10` behind `#b10` is 2 (compiler.c:310).  Apart from
  that, decimal integers of at most eight characters, sign included
  (`charspan_atoi` makes 0 of longer ones), reals with a digit before their point (mystr.c:263
  looks for the point from the second character on: `.5` is 500), and escapes of two
  decimal digits (`\x41`): the lexer refuses A to F (lex.c:117), which compiler.c:411 would
  read.  A backslash, `\x5C`, can therefore not be written, and no spelling with an
  escape equals the text of another string.
- `ConversionsStayInside`: strings that are closed.  One that the source ends in is taken for
  a string without its last character (lex.c:158); where that cuts an escape, the
  conversion steps over its end.
- `SourceCovered`: a `#` before anything but a base makes a token of two characters, of
  which one is consumed; it is an unknown token, as is a comment that is not closed.
- `LoadsAsWritten` says nothing of the values of reals and of string ids above 65535
  (`Lossy`).  docs/bytecode_fmt.md:18 has the payload copied into the native value; the loader
  makes an int without a fraction of a real (load_bc.c:293), and `make_value_str` takes a
  `uint16_t` (value.h:75).
- `RefusesCutFiles`: a file cut inside the payload of a constant is refused without a
  flag that says why (load_bc.c:275).

A FOR whose counter is not declared goes through a null pointer (compiler.c:1414):
the model's status is "crashed" then.

`heap_erase` of an empty cell is in the model (the abstract table's `Crash`), and
the collector does it: the sweep goes over ids on the free list too.
`RipeAtTwoThirds` means 342 objects in the VM's heap of 512 cells, where
suite/test_gc.tbasic:4 has 171, so that this test does not collect.  RESERVE only
moves `sp`: locals start with what earlier calls left in their slots, and not
with NIL as bytecode.h:44 says.

### Findings

Each is a run that states what the repository says and that TLC refutes.

- `gc_used`: gc.c:200 thinks of used objects as lost under heavy workloads only.
- `calls_uncaught`: docs/README.md:80 has falsely uncaught exceptions as fixed; a
  THROW that follows an inner TRY in the same TRY is not caught.
- `calls_logic`: compiler.c:1127 speaks of a single result value; for a true left
  side of AND the stack ends one value short.
- `opt_order`: docs/README.md:75 has the optimization pass as done.  A constant
  before a local in SUB or DIV changes places with it: for x = 3, `10 - x` gives
  -7.
- `scopes_assign`: compiler.c:1640 speaks of a simple update of that local slot.  The
  slot is read from `saved_info` behind the right side, where an assignment in a
  lambda has left its own: `f := FUN(x): x := 5; END;` may store the lambda elsewhere.

## Proofs

TLAPS checks these for every value of the constants, from the named assumptions
of the modules: a capacity above 0, `NullCell` no object, a depth modulus above
1, an entry chunk in each program and chunks as `CodeAssumption` has them, keys of a
tag and an int, lists and strings that begin with at least one cell and vectors
with two, a ring of ids and a bit set that are not empty, a bound `MaxItems` that is
a number, closures among the objects without `del` (obj_closure.c gives them none), and
for files `ProgramsAssumption` (what a written program has: entry points, lengths and
counts of two bytes that count, no string and no chunk of length zero, for a zero is the
mark of an end) and `FilesAssumption` (items of a file are bytes, and `Huge` is more than
any file has), and for sources `SourcesAssumption` (characters are codes of a byte, and the
number of literals is a number), and for `Scopes` a symbol table that begins with two
entries or more (`CountAssumption`: it grows by one half, compile_utils.c:108) and
`SpellingAssumption`: a spelling that is the text of another string is its own text.
The latter rests on the lexer, whose escapes have decimal digits (lex.c:117), so that no
text has a backslash and a spelling that equals one has no escape.

- **The heap's books** (`HeapInvariance`).  The inductive invariant `HeapInv` has
  types and the watermark (`HeapTypeOK`: a cell holds an object only below the
  watermark), the free list (`FreeListSound`: its ids are distinct, below the
  watermark, and of empty cells), no loss (`NoCellLost`: each empty cell below
  the watermark is on the list), and the counts.  None of them is inductive
  alone: that a store lands on an empty cell needs `FreeListSound`; that the
  list stays free of duplicates when an erased id is pushed needs that the cell
  was not empty, hence not on it; that the pushed id fits into the buffer needs
  the counts.  The cardinalities are those of `FiniteSetTheorems`.
- From it: `HeapRipeAtTwoThirds` (arithmetic on `cost`), `HeapNoOverwrite` and
  `HeapTenuredStay` (action properties), and `HeapImplementsTable`: initial
  states map to initial states, and each heap action to a step of the table or a
  stutter (`heap_tenure`, an erasure refused by its guard).
- **The collector** (`CollectorKeepsBooks`, `CollectorNeverOverwrites`).  Each
  step of `GC` changes the heap through at most one heap action, or not at all
  (`StepsUseTheHeap`, `MarkingSparesHeap`), so that `HeapInv` is kept by the
  lemmas about the heap, whatever is marked.
- **The types of the collector** (`CollectorTypesCorrect`).  `TypeInv` adds to `GCTypeOK`
  what the program holds on to (`ProgramTypes`) and what a collection has at
  each of its phases (`CollectorTypes`).  One part is about dicts: the walk of a tree
  always ends before it marks a value (`DictNodesLost`), for the first entry that the ring
  hands out is its blank one, and the root is what was pushed last.
- **What is marked** (`CollectorMarksReachable`, `CollectorDropsGarbage`).
  `MarksReachable` is not inductive: it tells of the bits alone.  `MarksSupported` is
  about the bits and the ring: both are within every set of ids that *supports* the
  marks, one that has the object at the top and is closed under what lists and
  closures hold.  The reachable ids are such a set, so that the proof needs no path and
  no induction over the length of one.  The sweep leaves the bits alone, and what it has
  passed is marked or gone (`Swept`).
- **That nothing is missed** (`CollectorMarksAll`).  The ring never hands out the id
  pushed last.  `Pending` says that for some set `done` of ids dealt with, what
  their lists hold and is still open is in the ring (`ItemsQueued`), and that
  each open id in the ring can be reached from an id at another of its places
  (`TwiceQueued`), so that losing one place loses no id.  The root scan brings this about
  by pushing the top twice (`RootsQueued`).  When the ring is empty nothing is open,
  and `done` is closed under the items of lists (`AllMarked`).
- **Dicts** (`DictInvariance`, `DictImplementsMap`).  The invariant `DictInv` has the
  search tree, stated with the bounds that `limits` keeps for each node, for no node
  of a tree tells of all nodes above it, and that the search in progress is on
  course: the hash it looks for is within the bounds of the node it is at.  Hence a
  search that runs out of the tree has missed no node of its hash, and the node
  that `ptree_set` hangs in keeps the tree a search tree.  For the refinement the
  assumption `DistinctHashes` says that the keys differ in their hashes; each turn
  of a search is a stutter, each end of one a step of the map.
- **Buffers** (`BufferInvariance`, `BuffersImplementSequence`).  `BufferInv`: what is in
  use, with room for the terminator of a string, lies inside the capacity, and
  that inside the allocation.  It is inductive because growth makes room for the
  item to come: by one half (vec.h:280) it does so from a capacity of two on, which
  is why the sizes of `ScalarVec` are assumed to be at least that.
- **The depth counter** (`DepthIsCounted`).  The invariant couples `depth` with
  the length of `frames`, the handlers that returned without a RET (`leaked`) and
  whether a handler is running; one lemma per kind of step, over two lemmas of
  modular arithmetic (`CountUp`, `CountDown`).
- **Calls, returns and exceptions** (`VMTypesCorrect`, `OkIsTheMainChunks`,
  `ExceptionsAreNotLost`), for any programs of well-formed chunks.  `VMTypeOK` is
  not inductive.  `CodeInv` adds that a caller goes on behind a CALL, which is why
  its chunk has a marked RET and the search for a CATCH ends in it (`SearchLands`, by
  the least place that stops it); and that a search is due at the start of a run, left
  over from the one before, only on the first two instructions of the main chunk.
  `DataInv` has the values in all slots and captures: an object is a closure that was
  made.  `OkInv` and `ThrowInv` rest on `ExactDepth`: as long as the counter
  has not come round it *is* the number of activations, so that a RET that brings it
  to zero has no callers left (`LastRet`), and a caller that resumes is not at depth
  zero.  `ThrowInv` is what an exception in progress comes with: a handler about to
  run is a CATCH or a RET, and a caller about to resume will search.
- **The optimizer** (`OptimizerKeepsLength`, `OptimizerChangesPatterns`,
  `OptimizerKeepsMeaning`), for every code and every width of the flag.  The
  invariant `OptInv` adds two parts: what is to be read is untouched
  (`RestUntouched`), and the automaton's state tells which operands it has read
  last, still there (`StateTells`).  That is what makes the writes through
  pointers 1 and 2 instructions back hit a pattern, and one that overlaps no
  earlier one: of those only a superinstruction and NOPs are left.
  `TransitCases` enumerates the edges, `FusedMeaning` the superinstructions.
- **Files that are anything** (`BytesAccountedFor`).  `LoaderInv` needs what is
  being read to be a string or a chunk while its section is open, and a turn left in each
  loop (`Reading`).  The sums of `StringBytes` and `ChunkBytes` are functions
  defined by recursion; that such a function exists and what it is turn by turn is shown
  once in `Recursion` (`SumTurns`, `SumAppend`).
- **Files that were written** (`WrittenFilesLoad`, `CutFilesAreRefused`).  `OnCourse` says,
  for each state of the loader, which items of the program were read, and that the
  bytes behind `pos` are those of the items that are left (`Ahead`).  It is stated for
  every program whose bytes begin with the file's (`Starts`), which covers whole files
  and cut ones: the next item is there in full, and read as what it was written from
  (`NextBytes`, `NumberRead`, `InstTyped`, `ConstantRead`), or the file was cut and is
  refused.  Only a refusal in the payload of a constant comes without a flag.
  The program loaded is first shown to be `AsLoaded` of the written one (each constant as
  `load_bc.c` keeps it: a real as the int read from its bytes, an id in 16 bits), and
  that to be the same program but for the `Lossy` constants (`LoadedIsSame`).
- **The lexer** (`SourceIsCovered`, `ConversionsStopAtTheQuote`), for sources of any
  length.  `SourceCovered` tells of tokens; that the next one is placed right needs
  that the lexer itself is (`LexerKnows`: its line and column follow from what is before it),
  and that no token but an unknown one goes on behind it (`SoundTokens`).  One lemma is about
  returning a token, whichever function does (`ReturnKeeps`); the others say where each
  function stops.  Of a string `SoundTokens` keeps what its conversion relies on
  (`TextSound`: no quote in it, and digits behind each `\x`), from which each turn
  of the conversion's loop stays before the quote (`StopsAtTheQuote`): an escape sequence
  cannot lead past a quote, for the quote is none of its characters.
- **The compiler's names, literals and loops** (`CompilerKeepsOrder`, and from it
  `NamesKeepApart`, `ConstantsKeepValues`, `LeavesReachTheirLoop`), for any names, literals
  and bounds, and functions, lambdas and loops in each other to any depth the bounds
  allow.  The three properties speak of the code alone and none is inductive: what an
  instruction gets is decided by symbol tables and loop records that are gone when the
  function is compiled, and by calls that wait while another function is.  `ScopesIInv`
  therefore says that there are owners, one for each call in progress: the chunk, the
  number of tables and the number of loops it will find when it goes on (`Nested`).  Of
  each of these calls it says that a name has one slot in its table and a slot one name
  (`LocalsFit`), that captures, constants and parameters are filed as the chunk has them
  (`ScopeFits`), that what the call remembers is still in the table (`FrameFits`:
  the slot of a declared name, the ids that a lambda will capture), that each slot the
  unfinished code uses is in the table (`SlotsFiled`), and that the positions a loop has
  recorded are those of its BREAKs and CONTINUEs (`LoopFits`).  Of each chunk, finished
  or not, it says what the properties need (`CodeFits`, `JumpFits`).  Most steps append
  to the current chunk and to the current table: one lemma (`PlainStep`) shows for all of
  them that what is below is as it was, since tables and code only grow (`ChunksGrow`,
  `LocalsGrow`).  The others each touch one thing: closing a loop patches its own jumps
  and no others (`LoopStep`), the end of a function patches its RESERVE, and the closure of
  a lambda is emitted into the chunk around it, whose owner is the call below.

Only model-checked, and why:

- Liveness under fairness (`CallsReturn`, `LoadEnds`, `RunsEnd`,
  `AcyclicCollectionEnds`): out of the prover's reach.
- `CallersSlotsStay` needs the least height of the stack at each instruction of a
  program, and `LeafCapturesAreMine` which values can get into each capture: an analysis of
  the program's flow that the invariant would have to contain.  `InnermostCatch` needs
  TRYs and CATCHes that nest, a property of the code's shape that no chunk by
  itself has.
- `DisciplinedSameOutcome` and `ExactCodeKeepsResults` compare two runs, so that the
  invariant is a correspondence between the states of one and of the other at each
  instruction; `OneValuePerExpression`, `JumpsMissPatterns` and what else `CodeGen`'s
  operators give for all programs is an induction over expressions.
- `LiteralsAsWritten`: its definitions fold over the digits of a lexeme as a set.
  Induction over numbers is at hand (`Recursion`), but not what a fold over a set
  computes.

## Not modelled, and what could follow

- Syntax errors and what the compiler does behind them.  There is a loop without an
  end: `compiler_do_block` (compiler.c:1715) gives up on `cgen_dead` only, so that a
  statement with an error that consumes no token is tried again for ever.
- The height of the stack at each point of a program: a false IF and each expression
  statement leave a value behind, and a CATCH does not cut the stack.  The VM models do
  that, and reach the end of the stack by it, but the repository states nothing
  about heights to compare with.
- List and dict literals, keyed access, and values of the dud id in the handlers that
  use them; operations on whole strings, lists and dicts (length, copies, equality).
- Proofs that would come next: `InnermostCatch` for code of the shape that `CodeGen` gives;
  `LiteralsAsWritten`, with the value of a lexeme as a function of the digit reached.

Left out for good: the parsing of `stof`, the rounding of floats, copying and disposal
of vectors and strings, printing, command-line options and console I/O (pure functions
on characters, or pure I/O), the build scripts, the suite and the benchmarks.
