# A verification development for SysY-lang

SysY-lang (the program `cit`) compiles a C-like language: it translates source
files to x86 assembly text, assembles that text to ELF object files and links
them to `a.out`. This directory holds TLA+ modules that model its components, TLC
configurations that check them on small instances, and TLAPS proofs of the
properties that matter most. Paths below are relative to `src/`.

1. [The system](#1-the-system)
2. [Inventory](#2-inventory)
3. [Modules](#3-modules)
4. [Runs](#4-runs)
5. [Proofs](#5-proofs)
6. [Where code and intention disagree](#6-where-code-and-intention-disagree)
7. [What is not modelled](#7-what-is-not-modelled)
8. [Plan](#8-plan)

## 1. The system

`main.cpp` runs three stages one after the other, each for every file: compile,
assemble, link. Nothing is concurrent, and the only state that outlives the
process is the files it writes. What makes the program hard to get right is
therefore not interleaving but long sequences of steps over shared, mutable
structures: graphs that are searched with marks while they are cut, data-flow
sets that are swept until nothing changes, analyses whose results are used after
the code they describe has been rewritten, stacks that mirror the nesting of the
source.

    source -> Scanner -> Lexer -> Parser -> GenIR ----> Fun (InterCode)
                                    |                     |
                                    +----> SymTab         | with -opt: Fun::optimize
                                           (scopes,       v
                                            addresses)   DFG -> ConstPropagation
                                                          -> CopyPropagation
                                                          -> LiveVar (dead code)
                                                          -> DFG::toCode
                                                          -> CoGraph (registers,
                                                             frame addresses)
                                                          |
    a.out <- Linker <- .o <- Assembler <- .s <- genAsm <--+

The parser calls `SymTab` and `GenIR` as it recognises constructs; there is no
syntax tree. `GenIR` appends instructions to the current `Fun`. With `-opt`,
`Fun::optimize` (symbol/fun.cpp:201) runs the passes of the middle column in that
order, each on the structures the one before has left; then `genAsm` prints.

## 2. Inventory

For each component: its state, its operations, what is hard about it, and what
makes it correct.

**Data flow graph** (compiler/optimize/dfg.cpp). State: blocks with the lists
`prevs` and `succs`, a `visited` mark and `canReach`. Operations: `linkBlocks`,
`reachable` (a recursive backward search), `release` (recursive cutting of what
became unreachable), `delLink`, `resetVisit`, `toCode`. Hard: every link is stored
twice; the search marks blocks and several searches share one clearing of the
marks. Correct when both lists agree, when an answer of `reachable` is the truth,
when only unreachable blocks lose their links, and when `toCode` keeps exactly the
blocks that can be reached.

**Constant propagation** (compiler/optimize/constprop.cpp). State: the lattice
value (undefined, a constant, not a constant) of each variable before and after
each block and instruction. Operations: `initBoundary`, `translate`, `analyse`,
`algebraSimplify`, `condJmpOpt`. Hard: calls and stores through pointers change
variables that are not named; the sweeps must rise to a solution and end.
Correct when the values solve the equations, when a constant that is claimed is
the value in every execution, and when the simplified code does what the original
does.

**Copy propagation** (compiler/optimize/copyprop.cpp). State: gen and kill sets of
blocks, the copies available at each instruction. Operations: `translate`,
`analyse`, `__find` (recursive), `propagate`. Hard: `propagate` rewrites the copies
that later searches consult; the search ends only on a cycle through its first
variable. Correct when an available copy holds on every path, and what replaces a
variable is equal to it.

**Live variables and dead code** (compiler/optimize/livevar.cpp). State: live sets
at each point, a dead flag of instructions. Operations: `init`, `translate`,
`analyse`, `elimateDeadCode`. Hard: the code changes between two analyses; a call
whose result is dead becomes another instruction. Correct when the sets are
exactly the variables that some path reads, and nothing removed is needed.

**Bit sets** (compiler/optimize/set.cpp). State: words of 32 bits; union,
intersection, difference. Representation of the sets above.

**Register allocation** (compiler/optimize/alloc.cpp, `CoGraph`). State: a node per
local with its links, degree, colour and excluded colours, and a heap of nodes.
Operations: the constructor (interference edges from live sets), `pickNode`,
`regAlloc`, `Node::paint`. Hard: degrees and exclusions are updated by neighbours'
turns; the number of turns is counted and not tested. Correct when no two
variables live together share a register, when every node has one turn, and when a
spill is forced.

**Symbol table and scopes** (compiler/symbol/symtab.cpp). State: the variables by
name, the function table, `scopeId`, `scopePath`, the current function.
Operations: `enter`, `leave`, `addVar`, `getVar`, `decFun`, `defFun`, `endDefFun`,
`getFun`, `genData`. Hard: names are resolved by comparing one element of scope
paths. Correct when a name means what block scoping says.

**Functions and stack frames** (compiler/symbol/fun.cpp, `CoGraph::stackAlloc`).
State: `curEsp`, `scopeEsp`, `maxDepth`, and with optimisation a tree of scopes with
an `esp` each. Operations: `locate`, `enterScope`, `leaveScope`, `setMaxDep`,
`Scope::find`, `getEsp`. Hard: addresses are reused from scope to scope, and the
optimised code lays them out a second time from other information. Correct when
variables that hold values at the same time share no byte, and the frame is deep
enough for all of them.

**Statement lowering** (compiler/ir/genir.cpp with the statement methods of
compiler/parser/parser.cpp). State: the code, `heads` and `tails` (targets of
`continue` and `break`). Operations: one group of `gen` methods for `if`, `while`,
`do`, `for`, `switch`, `break`, `continue`, `return`. Hard: parts of a statement are
generated in another order than they run; targets live on two stacks. Correct when
labels and jumps do what nested statements mean.

**Expression lowering** (`GenIR::genTwoOp`, `genOneOp`, `genAssign`, `genCall`, ...).
State: the code and the temporaries. Hard: left values are addresses in some places
and values in others. Correct when the code computes the expression, with its side
effects, once.

**Intermediate code** (compiler/ir/interCode.cpp, interInst.cpp). State: a sequence
of instructions with operands, a jump target, data-flow sets. Operations:
`addInst`, `markFirst`, the tests of kinds, `setDead`, `callToProc`.

**x86 generation** (`InterInst::toX86`, compiler/platform.cpp). Operations: loads and
stores of operands, one sequence per instruction. Hard: sequences use registers
that may hold variables. Correct when an instruction changes the home of its result
only.

**Parser** (compiler/parser/parser.cpp). State: the look-ahead token. Operations: one
method per production, `match`, `recovery`. Hard: error recovery must consume
tokens and must not pass null expressions on. Correct when it ends on every input.

**Lexer, scanner, tokens, keywords** (compiler/lexer). State: a buffer with a
position. Operations: `scan`, `tokenize`. Hard: the ends of buffer, file and comment.

**Error reporting** (compiler/error.cpp): two counters and message texts.

**Driver** (main.cpp, compiler/compiler.cpp, linker/link.cpp): arguments, a fixed
order of stages. Hard: what a failed stage leaves to the next.

**Assembler** (src/assembler) and **object writer** (assembler/elf_file.cpp). State:
global label table, current segment and address, the number of the pass.
Operations: two passes over the same text, `switchSeg`, `addlb`, `write`. Hard: both
passes must advance addresses alike; globals live across files. Correct when a
label's address of pass one is where pass two writes.

**Linker** (linker/linker.cpp). State: object files, merged segment lists, symbol
uses and definitions. Operations: `collectInfo`, `symValid`, `allocAddr`,
`symParser`, `relocate`, `assemExe`. Correct when segments do not overlap, addresses
and offsets are congruent, and each relocation gets the address of its symbol.

**Empty passes** (redundelim.h, peephole.h) have no code. **elf.h** is a system
header. **Tests** are two sample programs without expectations.

`PROJECT.json` lists under "hazards" what is hard to test in all this, line by line.

## 3. Modules

Every analysis or pass is a step machine: one action per iteration of a loop body
or per call, a `pc` for the place in the method, `i` and `j` for the loop
counters. The programs a pass works on are a constant (`Shapes`, `Programs`,
`Funs`), so that the proofs speak of all of them and a run names the ones it
enumerates; the assumptions of these constants are named and say what the
pass before leaves (for instance that blocks of code that cannot be reached have
no successors). Lowering and Frames instead build their programs
token by token, as the parser meets them, X86 its function instruction by
instruction; Exprs and Toolchain take the statements and files that their MC
modules list.

`PROJECT.json` maps every definition to the lines it models.

**Dfg** - DFG and `ConstPropagation::condJmpOpt`. `succs` and `prevs` are the two
lists of each block, `visited` the marks, `canReach` the result. `KeepLinks` and
`ResolveJump` are one block of condJmpOpt each: it keeps a conditional jump or
calls `delLink` for the way that is never taken; which of these is a free choice,
because the module is about the graph. The recursion of `release` is the stack
`todo`, that of `reachable` the stack `frames` with the predecessors each call has
still to try: `ReleaseNext`, `ReleaseKeeps`, `ReleaseCuts`, `SearchCall`,
`SearchReturn`. `ToCodeStart`, `ToCodeNext` and `ToCodeAnswer` are the export loop,
which clears the marks before each search, as delLink does only once. `fresh` is a
history variable: no search has ended since the marks were cleared.

**LiveVar** - `at[b][j]` is the live set before instruction j of block b. A backward
sweep over the blocks: `EnterBlock` makes the union over successors, `Translate`
crosses one instruction, `LeaveBlock` compares, `SweepAgain` and `SweepEnd` decide.
`Clean` is the pass of `elimateDeadCode` over the instructions (marking dead
ones, turning calls into `PROC`), `Prune` the rest of a round. `AnalyseAborts` is the
assertion of set.cpp:46 that fires when the exit block was never initialised. What
is live is defined without the algorithm, as the least set of points closed
backwards along paths (`LivePoints`), by what the analysis takes instructions to use or
by what they read.

**RegAlloc** - `links`, `degree`, `exColors` and `color` are the fields of `Node`.
`OldSet`, `NewSet` and `NoVariable` are one instruction of the constructor;
`Paint` and `Spill` one turn of `regAlloc`, for any node of largest degree, because
which of them `make_heap` puts in front is not the algorithm's business. `turns`
is the counter of the loop, which does not look at the nodes. `Endless` is the loop of
the constructor over the pairs of an empty vector (section 6).

**CopyProp** - forward sweeps as in LiveVar, over copies (places in the code), then
`propagate` with the recursive `__find` one step per call (`found`, `cur`). A last
phase walks the original code along any path and keeps `eq`, the pairs of
variables that are certainly equal, so that what the sets and the replaced
operands claim can be compared with executions.

**ConstProp** - forward sweeps over lattice values, then `Simplify` (algebraSimplify
and the choice of condJmpOpt for every jump, one instruction each), then an
execution of the original code with concrete values (`env`), in which calls,
stores through pointers and parameters bring any of `Values`. A store changes globals and
the locals and parameters whose address was taken (`taken`); a called function changes globals and
what it may have the address of (`handed`), from a call or from a global pointer. The simplified
instruction must do the same at every step. A variable that has no value yet is
`Undef` and excuses any claim about it, which is what C says of reading it.

**Lowering** - parser and GenIR for statements. `src` is the sequence of tokens, with
"end" where a statement ends; `open` the stack of active parser methods with their
labels; `code`, `heads` and `tails` as in GenIR. One action for each piece of code
between two parts of a statement (`While`, `For`, `EndFor`, `Case`, `EndCase`, ...). When the
function ends, `Silent` and `Act` walk the code for any outcome of the conditions
next to `expected`, the event that a reading of `src` without labels has next.
`Odd` switches on three constructs for which the code is known to differ from C
(section 6).

**Frames** - SymTab, Fun and stackAlloc over one program: `scopeId`, `scopePath`,
`vars` (varTab), `curEsp`, `scopeEsp`, `maxDepth`, the addresses given while parsing
(`offset`), and the addresses `stackAlloc` gives afterwards (`addr`, from `tree`, its
tree of scopes). A variable may or may not have got a register, which is a free
choice for scalars (`InFrame`, `InRegister`). Every body runs once, as that of a do
loop whose condition is false, so that code has no branches and "holds a value
that is read later" can be defined on the instruction sequence alone, with copies
propagated, one instruction after the other in place, or not. This is where four components meet: names, frames, copies and
stack allocation.

**Exprs** - the expression parser with the GenIR methods it calls, and the
statements that use a value. An input is a tree with the statement it stands in. It
is printed with the parentheses that the grammar's levels ask for (`Show`) and then
parsed token by token. The recursive descent is a stack: `Prefix`, `Open`, `Literal`,
`Ident` begin an operand, `Postfix`, `Unary`, `Shift`, `Reduce`, `Close` are what the
levels do around it, `Element`, `Argument`, `Called` indexes and calls. `GenTwoOp`,
`GenOneOpLeft`, `GenOneOpRight`, `GenArray`, `GenCall`, `Ptr`, `Lea`, `Assign` are the
methods of GenIR; what may be null in the code is a sequence of at most one element,
and an error is kept as its kind. `Finish` is the statement; `Run` executes the
instructions one by one on a memory. The reference knows neither tokens nor
temporaries: `WellTyped` types the tree, `Meaning` evaluates it. `Sequenced` leaves out
trees whose meaning C leaves open (a variable written and read in two operands of one
operator). `Odd` names the constructs for which the code is known to differ from C
(section 6).

**InterCode**, **Words** - the abstract specification of a function's intermediate code:
each instruction does to the values of variables what the comments of `enum Operator`
(compiler/common.h) say, 0 or 1 from `&&` and `||` among them. Nothing is said of registers
or memory. `lost` is the set of variables an instruction does not promise to keep. Words has the
arithmetic of both sides, with bytes of a size that is a constant.

**X86** - `toX86` with `loadVar`, `storeVar`, `leaVar`, `initVar`, and the machine the code
runs on: registers with their halves and bytes, memory by the byte, the last comparison. A store
changes as many bytes as its operand has, whosever they are: two for a char, four
for an int and through every pointer. `layout`
chooses the homes of variables, as regAlloc and stackAlloc may have left them. `Emit`
appends one instruction and its machine code (with `regMaxId`, which decides whether a
division saves `edx`), `Begin` is the caller and the entry code, then each step runs the
machine code of one instruction: `Compute`, `Junction`, `Divide`, `Declare`, `Jump`,
`Argument`, `Call`, `Return`, `TakeAddress`, `ThroughPointer`; `Finish` is the exit code.
`Inter` is the refinement mapping: the value of a variable is the content of its home,
`address` where it is, `high` is `edx`, and `lost` is `Destroyed`, which names the only
cases in which other variables change: a product or a quotient destroys a variable in
`edx`, a remainder does so unless `regMaxId` made it save `edx`, and a call loses the
registers whose saved copies the called function's own variables lie over. So X86 implements InterCode
with these exceptions and no others.

**Encoding** - the machine code of an instruction: operands to fields (parser.c) and
fields to bytes (generator.c). As the reference, `Decode` reads bytes the way the
processor does and gives back an operation with its operands.

**Assembler**, **ElfFile** - the two passes over the lines of a `.s` file. `Section` is
`switchSeg`, and of the first pass also `addShdr`; `Reopen` starts the second pass; `Global`,
`Label`, `Equ`, `Data`, `Instruction` are the kinds of line; `WriteElf` builds the symbol,
relocation and header tables and writes the object file, with its bytes. ElfFile has
what assembler and linker share.

**Linker** - `Linker::link` step by step: `AddElf`, `CollectInfo`, `Validate`, `AllocAddr`,
`SymParser`, one `Relocate` for each relocation, `AssemExe`.

**Toolchain** - composes them. `GenAsm` is the `.s` file of a program as `SymTab::genAsm`
and `genData` write it. `Assemble`, `Collect` and `Link` build an executable from the
files of one input. What it must be is read from the `.s` files alone: a symbol means
the place its definition has in the loaded image (`Meanings`), the code at that place
decodes to the instructions of the file with these symbols, the first operand being the
destination (`CodeIs`), the data is there
(`DataIs`).

The inputs are a constant. `IsFile` says what one may be: lines the assembler's grammar has, in
the three sections in the order `genAsm` writes them. `InputsAssumption` and `NameLenAssumption` (ElfFile)
are all that most of the proofs ask of the files; `AlignAssumption` (Linker) asks for pages of a multiple of 16 bytes.
`RoomAssumption` says where symbols stand (`HasRoom`): `genData` writes them as words, `InterInst` as the
address moved into a whole register, in memory operands and in jumps; an array's size is never 0 (`var.cpp:182`).
The assembler's grammar allows more (`mov al, name`, `db name`), and would cut the address. Only the theorem about `TypeOK` uses it.

`MC*` modules hold the programs of the runs; `*_proofs` the proofs.

## 4. Runs

| run | what it checks | bounds |
|---|---|---|
| dfg | link lists agree, `reachable` is right both ways, exports are exact, it ends | all graphs of 6 blocks that linkBlocks can build |
| dfg_return | *violation*: release takes links of a reachable block | one function of 8 blocks |
| livevar | sets exact after every round, removals stay justified, no read of the code left loses its value but where section 6 says so, it ends | 5 blocks, every mix of instructions in a loop, the loop also cut off or never left |
| regalloc | registers fit, every node has exactly one turn, spills are forced | 2 registers, 4 locals (one may be an array), a global, every sequence of 3 live sets out of 12 |
| copyprop | sets exact, copies hold on every path, the analysis ends | 6 blocks, every mix of two instructions in a loop |
| constprop | claimed constants hold on executions, simplified code agrees, the analysis ends | 975 functions: loops, inner loops, switches, what can be done in three steps with the address of a local or the parameter, every operator with every literal -1..2; values {-1, 0, 2}, walk up to 4 |
| lowering | break and continue rejected rightly, code does what the source says and does not go round in jumps alone | every body of up to 7 tokens |
| frames | names resolve, variables in scope together are apart in both frames and the frames are deep enough (`FramesSound`), plain code keeps values | every program of up to 7 tokens, 2 names, sizes 4 and 5 |
| frames_copies | *violation*: optimised code overwrites a value that is read later | the same, size 4 |
| exprs | exactly the ill-typed is rejected, the rest does what the tree means | 13,620 statements: every operation on every pair of 9 kinds of operand, every tree of two operations over 4, trees that only precedence tells apart, in 6 kinds of statement |
| x86 | the generated code implements InterCode, the stack stays balanced | every function of up to 2 of 42 instructions (a call brings its arguments with it), 7 variables, 4 allocations, 4 contents of memory, 3 of `edx`; bytes of 4 values, four to a word, and 256 of them |
| toolchain | headers say where things are, segments are apart and congruent with the file, the loaded image is what the `.s` files say | 305 builds: every form of instruction the compiler emits but one (section 6), before each of two others, with two data segments; two-file builds with the grammar's other forms; variables in .bss, with .data ending before, at and after the end of a page; files that a stage refuses; pages of 32 bytes |

*Why the bounds are enough.* Six blocks are ENTRY, the return block, EXIT and three
free ones: enough for a loop, a branch around it and a second way in, and for a
dead loop that only marks can leave. The loop of the data-flow runs has a way in, a
way back and a way out, so the first sweep is never the last and sets meet at the
head; the choice of instructions takes every operator to every place in the loop.
Two registers are one less than three variables live together, so both forced and
unforced spills occur and colours run out (`Plat::regNum` is three; the argument is
the same with one more variable, and the proofs hold for any number). The values of
constprop have both signs, zero, and one that is neither neutral nor absorbing; the
walk stops beyond 4 because a loop may count for ever. Seven tokens are three
nested statements with one token inside, or two in sequence in a third: the
stacks are two deep with a sibling. In Frames they are a function with a
parameter, two nested scopes and what is declared and read in and after them.
In exprs the nine kinds of operand are int, char, pointer and array of each, a
literal and a void call; two operations in one tree are enough for every pair
of methods that hand a reference, a temporary or a null to one another. In x86 an
instruction disturbs another only through registers, memory, the stack or
`regMaxId`, so two in a row and a jump back make every pair meet; the allocations
put each variable in a register and in memory, `edx` among them, locals above and
below each other. Bytes of 4 values, four to a word, have signs, overflow and the places of byte,
half and word in memory and registers, which is all that the sequences depend on. In toolchain an
instruction's length moves what comes after it, so each form, chars in `ax` to `di` among them, stands before a
relocated one and before a jump over it; displacements stand on both sides of the
one-byte limits; the page is 32 bytes in place of 4096, so that sections end within,
at and beyond a page.

*What the constraint leaves out.* `NoIdleTokens` drops programs that a shorter one
stands for: two ordinary statements in a row, tokens after a jump in the same
block, empty scopes, the same use twice. In Frames only the first
token may be a global, whose address is not the frame's. `SYMMETRY` exchanges the two names, which no definition tells
apart; those runs check no liveness.

*Deadlock.* Off where the last state has no step: a walk at the end of the
code, a parse at `MaxTokens`, a program that is rejected. Dfg, LiveVar, RegAlloc
and Exprs have an explicit last step (`Done`, `Terminating`, in RegAlloc `Endless` as well), so the check is on. In X86
the machine stops after the function or a fault, in Toolchain after the last stage or a
stage that refuses its input.

*Fairness.* `WF_vars(Next)`: the compiler is one sequential process, so it takes its
next step. In Lowering only the walk is fair (`WF_vars(Silent \/ Act)`): nothing makes
a programmer write another token. The walks of CopyProp and ConstProp come after the
analysis, and their liveness property only asks for the end of the analysis. RegAlloc's fairness is for `Allocates` (section 6).
Frames, Exprs, X86 and Toolchain
have no liveness property and no fairness: their steps follow the input to its end.

## 5. Proofs

Each theorem holds for every value of the constants that satisfies the named
assumptions: any number of blocks, variables, registers, any functions.

**Dfg_proofs** (`NAssumption`, `ShapesAssumption`): `TypeCorrect`, `LinksMirror`,
`ReachableTrue` and `ReachableFalse` (together `ReachableAnswers`), `ExportExact`. The inductive invariant adds to TypeOK
and Mirror: where each phase can be (`Phases`); every predecessor that an active
call has still to try leads to the block asked for (`Ancestors`), which makes an
answer true right even with stale marks; from clean marks, every predecessor of a
marked block is marked or still to be tried (`Marked`), which makes the marked set
closed when the stack is empty and an answer false right; blocks already exported
are exact (`Exported`). Reachability is defined as the least closed set of blocks, so
the two directions are membership in, and an instance of, such a set
(`ReachableClosed`, `ReachableLeast`).

**LiveVar_proofs** (`ConstAssumption`, `ProgramsAssumption`): `TypeCorrect`,
`AnalysisExact`, `RemovedForGood`, `ReadsKeepValues`. `Sound` says that what the sets of the current sweep hold is
live on some path; `Solved` that fresh points satisfy the equations, those between
blocks as long as the sweep has changed nothing. When a sweep ends unchanged the
sets are a solution, hence contain what is live (`LiveLeast`), and by Sound nothing
else. Both survive elimination because marking an instruction dead changes neither
what is live elsewhere nor a set: the result it set was not live. `RemovedForGood`
says that no later round makes a removal wrong: what a removed instruction would set is
not live after it in the code that is left (`Removed`), and stays so as code only shrinks. Live is
here what the analysis takes instructions to use, and its use sets miss the pointer of a store and
the value of a switch. `ReadsKeepValues` is about what instructions read: with these two
excepted (`Unseen`) both meanings of live agree (`SeenLive`), and nothing that was removed is read.

**RegAlloc_proofs** (`ConstAssumption`): `TypeCorrect`, `RegistersAlwaysFit`, `TurnsSuffice`,
`DegreesCount`, `SpillsAreForced`, `TurnsAreFinal`. The invariant: the edges are
symmetric and join exactly variables live together (`Edges`), nothing is coloured
while the graph is built (`Fresh`), neighbours differ (`Proper`), what a node excludes
is what its neighbours have (`Excluded`), degrees count uncoloured neighbours
(`Degrees`), turns left are nodes left (`Turns`). `Turns` rests on `Degrees`: a waiting
node has a degree of at least zero, so one that had its turn, with -1, is never
largest while another waits.

**CopyProp_proofs** (`ConstAssumption`, `ProgramsAssumption`): `TypeCorrect`,
`AnalysisExact`, `CopiesHold`. The dual of LiveVar_proofs: the sets begin full and
shrink. `Sound` says that what a sweep has left out of a set is lost on some path;
`Solved` that fresh points satisfy the equations. When a sweep ends unchanged, the
points where a copy is missing are closed under the steps that lose it, hence contain
all lost points (`LostLeast`), and by Sound no others. `Walk` is the claim for
execution: the pairs known to be equal include every copy of the set at hand. ENTRY
is where it starts, with no copy, and a step adds to the set only what it makes true
and leaves in it only what it does not touch (`AfterHolds`). The proof needs ENTRY to
be a block of one instruction, which markFirst arranges
(compiler/ir/interCode.cpp:28), so `ProgramsAssumption` says so. What `find` does with
the copies is in `Search` only as far as types go: that its replacements are not
always equal is a finding below.

**ConstProp_proofs** (`ConstAssumption`, `ProgramsAssumption`): `TypeCorrect`, `ClaimsRight`,
`SimplifiedRight`. `Solved`: fresh vectors satisfy the equations, as in LiveVar_proofs, so
that when a sweep ends unchanged they are a solution. `Replaced`: the pass has put into the code
what `NewCode` computes from the solution, and nothing else. `Follows`, along the execution: the
vector at hand tells the truth about `env` (`True`), a value that is called constant being that
one or none. `TransferAt` and `AllSolved` turn the equations into what happens to `env` along an edge and
across an instruction, and `NewCodeAgrees` compares the old instruction with the new one, case by case of
`Identity`.

The analysis is right only for the functions it was made for, and the theorems say so. `Regular`
has one condition for each thing it does not see: the function is main or there are no globals
with values (their initial values are taken for those at the entry), every global is
initialised (without a value it counts as any value), a declaration with an initial value is reached before the
variable is assigned (`DEC` is passed over), either no pointer is handed to a call or no
computed local or parameter has its address taken, and no local or parameter has if a global pointer
is assigned (a procedure makes the globals unknown only). Of the
975 functions of the run constprop, 804 are regular; the others keep the properties for
reasons of their own, as when no procedure is called after the address was given away. `SimplifiedRight` also leaves out the steps at which
algebraSimplify puts `SymTab::zero` into the code (`AtZero`); its value is one.

**Lowering_proofs** (`ConstAssumption`), for bodies of every length: `TypeCorrect`,
`JumpsRejectedRightly`, `OrderKept`. `Typed` bounds the labels in the code by the number made, and
`Nested` those of an open statement by its kind. `Mirrors` is the reason why `break` and `continue` find
the right label: above the `None` that the constructor pushes, `heads` and `tails` have one entry
for each open loop and switch, in their order, and `None` in `heads` just for a switch. The hypothesis of
`JumpsRejectedRightly` is that programs have no `continue` in a switch (`Odd`), which the
generator is known to reject (section 6).

`OrderKept` says that the code does what the source says in the source's order (`SameOrder`),
whatever the conditions give; its hypotheses are that no `continue` is in a do loop and no case runs into the
next, the two constructs that do differ. Parsing and walking each have an invariant. `Parsed` keeps an account of the
tokens so far: which token belongs to which (`Tree`), where the labels of each statement begin and which one a
label is (`Labelled`), where the instructions of each token lie (`Laid`), and which tokens the
active methods are (`Stacked`). A function whose values are asked of later tokens has a
solution (`Chain`), so that `Match`, `Owner` and `Enter`, which read the source without labels, are what the account
says (`MatchIs`, `OwnerIs`, `EnterIs`). `Values` then gives the event that is next at each
instruction of a token, and `Means` the one that is next at a label; `TokensRight` shows, one construct
after the other, that an instruction does what is next, or goes to a label that stands for it
(`RightAt`). `Walked`, the invariant of the walk, is that `expected` is the value of the instruction
the walk is at, and `Comes` carries it over tokens without code, as a `default` is. That `None` is no event is
part of `ConstAssumption`, as `None` marks the instructions that do nothing.

**Frames_proofs** (`SizesAssumption`, `MaxTokensAssumption`, `NoneAssumption`), for programs of every
length: `TypeCorrect`, `NamesRight`, `FramesAreSound`, `PlainCodeKeepsLive`. The code decides by scope
paths, the properties speak of tokens and their depths, and the invariant joins the two.
`Scoped`: a variable's path is the beginning of the current one just while its scope has not ended; two
paths that share a scope came the same way to it; scopes below a variable are younger than it, which
is why `getVar`, taking the longest path that fits, finds the innermost declaration. `LaidOut`: the
shares of the open scopes add up to `esp`, and a local in scope lies within what its scope and those around it use,
hence below everything declared before it. Of the second layout, `TreeOK` says that a scope is in
`stackAlloc`'s tree only with the scopes around it, and `AddrOK` that what is still to be declared in scope with a
placed variable begins below it (`AddrBelow`), so that the addresses come out apart (`AddrApart`) and within
the frame (`AddrDeep`). `KeptOK` is about pairs of stores: what was written after a variable that is in
scope, or that is read later, has no byte in common with it; `CodeOK` and `DeepOK` say of the instructions what that
needs.
With copies propagated the second half of this argument fails, which is the finding frames_copies.
The depth of each token is a recursive function of the tokens, and its lemmas go by induction: the
library's theorem takes an operator, `Induction` a set in its place; it
follows from the well-foundedness of `<` on the natural numbers.

**Toolchain_proofs** (`InputsAssumption`, `NameLenAssumption`, `AlignAssumption`), for any number of files of every
length: `ToolchainInvariant`, `SegmentsAreApart`, `HeadersAreTrue`, and with `RoomAssumption` `TypesAreRight`. What the linker places depends on the sizes in the section
headers, these on the assembler's first pass, and the bytes on its second. So the
invariant follows a file all the way. `After(f)[j]` is the place in its section after j lines, a recursive
function of the lines alone: the bytes of an instruction depend on the form of its operands
and not on the addresses that symbols have so far (`InstForm`, over every form of operand
and every instruction), and so the two passes reach the same places. Hence (`AsmAt`) the code written by the second pass
is as long as the first one found .text to be (`CodeWritten`), the data definitions kept add up to .data (`DataKept`), and the
section table holds these sizes, each start aligned to four (`RecordsOK`). An object
file keeps that promise (`ElfOK`), the linker's sections grow from it, file after file: each block begins where the one
before ends, aligned (`Chain`), the section's size is where the last one ends (`SegOK`), and relocating
changes bytes but no shape (`SameShape`). `PagesApart`, `BssPlace` and `CongruentTo` are the arithmetic of pages: an address that is
made congruent to an offset stays in its page, and moves to where `.data` ends only if aligning the offset
crosses a page, which is the exception that `SegmentsApart` names and `BssAfterData` shows to occur (section 6).
For `HeadersAreTrue` the invariant is `TablesOK /\ ObjectFit /\ ExeFit`. The assembler's headers are right because the padding
fills what alignment leaves between .text, .data and .bss (`SectionsFollow`, `PaddingIs`): the parts then follow one another
without a gap and each begins where the ones before it end (`PlacesOfParts`). The linker writes its tables after
the sections, at the offset of .bss, so the file before them must be exactly that long: joining the blocks of a section, with
the bytes between them, gives its size (`JoinGoes`, `JoinedLong`), and the sections the offset (`FileLong`).
The sizes of string tables add up the lengths of names, which are numbers because the tables hold finitely many names
(`AsmTable`, `CollectRefs`), whatever the files.
`TypesAreRight` says that every relocation lies within the size recorded for its section and that no symbol is
left over in `relLb` for the next instruction. Its invariant is `TypesOK`. A symbol that an instruction names has a
field of four bytes (`CodeFits`, shown for each form of instruction in `InstFits`), so the field is relocated or the symbol
dropped, and a symbol in a definition is one of its words (`AllValuesFit`). Where the assembler stands is
inside the section the first pass measured, since places only grow
from one header to the next (`AfterGrows`, `WithinSection`).
Everything here is a fold over lines, values, bytes or files. The library's FoldLeft is recursive over sets, so
`FoldExists` shows for every step of `FoldStep` that a solution exists, `FoldGoes` that the fold
goes through it element by element; `SetFoldExists` does the same for folds over sets.

What is only model-checked:

- liveness and fairness (the proof system has no rule for them here);
- Exprs, which evaluates its trees with recursive operators, and X86, which takes its
  bits from Bitwise: both are out of the prover's reach;
- Toolchain: `ImageRunsTheSource`, which compares the bytes with a decoder.

## 6. Where code and intention disagree

With a run (see "findings" in `PROJECT.json`):

- dfg_return: dfg.cpp:117, nested returns under constant conditions; code that runs is dropped.
- frames_copies: alloc.cpp:244, a copy outlives the scope whose stack space is given away.

Without a run of their own; the modules state the property and hold the program, so
that a configuration with the two shows it:

- `NoReadLosesItsValue` with `Store` (MCLiveVar): a store does not use its pointer,
  livevar.cpp:59; with `Switch`: the value of a switch is removed, livevar.cpp:82.
- `SetSizesAgree` with `Forever` (MCLiveVar): a main that never leaves its loop aborts
  the compiler, livevar.cpp:113.
- `ReplacedAreEqual` with `Chain` (MCCopyProp): operands of copies change under later
  searches, copyprop.cpp:128; `FindReturns` with `Circle`: the search does not return.
- `SimplifiedAgrees` with `ZeroOperators` (MCConstProp): the shared zero has value one,
  symtab.cpp:32.
- `ClaimsHold` with `Programs <- Surprises` (MCConstProp): a variable whose address a global pointer
  keeps, or that is assigned again after its address was given to a call, `g(&p); p = 1; h(); return p;`,
  counts as unchanged by the next procedure, constprop.cpp:239.
- `Allocates` with `Main` (MCRegAlloc): a live set without a local sends the constructor
  into a loop that takes as many turns as there are values of size_t and does nothing in them,
  alloc.cpp:138. The states of the run regalloc have such live sets too; its properties speak of the
  graphs that are coloured.
- `SameOrder` and `RejectedRightly` with `DoLoops`, `SwitchLoop`, `CaseFalls` (MCLowering):
  `continue` in a do loop skips the condition, `continue` in a switch is rejected, a case
  does not fall through.
- `Implements` with `Insts <- Junctions` (MCX86): `and` and `or` write their truth values into the
  lowest byte of a register that still holds an operand, and `and` adds them,
  interInst.cpp:675 against common.h:72. MCInsts has `or` of operands that are one byte, where it agrees.
- `Implements` with `Layouts <- Neighbours` (MCX86): storing a char writes two bytes, and storing through a
  pointer four, while a global char is defined as one (`db`), so the store reaches into the
  global that follows, interInst.cpp:515 and 734. MCLayouts has nothing right after its global char.
- `ImageRunsTheSource` with `Inputs <- Exchanged` (MCToolchain): the assembler exchanges the
  two registers of `and` and `or`, generator.c:18 against parser.c:322. `or eax, ebx` then
  leaves `eax` as it was: `0 || 1` yields 0.
- `StrtabLongEnough` likewise: the assertion of elf_file.cpp:203 reads the outer `idx`,
  which is 43 there, so the assembler aborts on a file with few or short names; `Odd` of
  MCToolchain has one.
- `BssAfterData` with `Inputs <- CrossingBss` (MCToolchain): when .data ends in the last three
  bytes of a page, aligning the file offset of .bss crosses to the next page, and the address made
  congruent to it within the page where .data ends is the start of that page, on the variables of .data,
  linker.cpp:45. The comment on allocAddr, linker.cpp:220, says that the two are not adjacent. No program
  of the compiler has anything in .bss; files for the assembler may.

Kept off by `Odd` of Exprs, without which `DoesWhatItMeans` or `RejectsIllTyped` fails:

- `x++` and `x--` on `*p` or `a[i]` change a temporary only, genir.cpp:483.
- An index that is itself `*p` or `a[i]` is used without being loaded, genir.cpp:52.
- `&&` and `||` evaluate both sides.
- `&` of a pointer has the type of a pointer to its elements; `&*p` gives `p` itself, as
  an lvalue, genir.cpp:438.
- A void value passes as a condition; any literal initialises a pointer, var.cpp:194; a
  void function may return a pointer, genir.cpp:689.

Read in the code and stated in no module:

- The value a global is initialised with is taken for its value at the entry of
  functions that are called later, constprop.cpp:30.
- An int to the left of a pointer is rejected in `+`, genir.cpp:284; `TypeOfBinary` of Exprs takes it over.
- `idiv` takes for the upper half of the dividend what `edx` held, interInst.cpp:584; InterCode
  promises quotients only where `high` extends the sign.
- Addresses of optimised frames begin over the saved registers, alloc.cpp:232: the layouts of
  MCX86 have such frames, for the function and for the one it calls, and `Destroyed` says
  what a call loses by it.
- A char keeps sixteen bits of what it is given (`Fit` of InterCode), as loads and stores move them.
- Parameters are placed from ebp+4, where the return address is, fun.cpp:35; MCX86 has no
  variable there.
- Two source files in one command: the pass number is never reset, so the second is not
  assembled, although main.cpp:58 offers it; two generated files are refused by
  the linker, as each defines `_start`, linker.cpp:173.
- `times n dd label` relocates its first copy only, parser.c:220.
- The size of an executable's string table is kept in eight bits, linker/elf_file.h:49.
- A failed compilation leaves an earlier `.s` file to be assembled, main.cpp:91.

So the passing runs show that the compiler does what it should on programs
without these constructs, and the violations where it does not.

## 7. What is not modelled

The driver's options and error counters and what remains on disk after a failure.
The parser's recovery after a missing token. The lexers of compiler and assembler:
automata over characters, with little that several steps could break. Bit sets are
taken as sets, without the bounds of their words. `createBlocks` is represented by the
graphs that it can lead to. The rules for declaring a function and defining it again
(`decFun`, `defFun`), array lengths and the texts of strings. Two forms of the
assembler's grammar that no generated code has: an immediate stored to memory and
`push` of a symbol. In Exprs a char is as wide as an int; X86 has widths, of small
bytes. Overflow is left out of ConstProp by bounding values; the code folds with the
host's int. What the shared names of ELF (elf.h) stand for is taken from the format.

## 8. Plan

Done, in this order: Dfg, LiveVar, RegAlloc, CopyProp (each with its proofs),
ConstProp, Lowering, Frames; Exprs; InterCode and X86 with the refinement between
them; Encoding, Assembler, Linker and their composition Toolchain.

Next modules:

1. **Optimise** - Fun::optimize as a composition: the graph that Dfg leaves satisfies what
   the assumptions of LiveVar and CopyProp ask for; InterCode, extended with blocks, as
   the specification that the code after each pass implements.
2. **Recovery** - `match` and `recovery` over token classes: parsing ends.
3. **Build** - the driver over several files of which some fail, with the globals of the
   assembler that outlive a file.

Theorem still worth proving: `ImageRunsTheSource`, for one instruction at a time.
