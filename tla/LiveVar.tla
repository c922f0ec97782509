------------------------------ MODULE LiveVar ------------------------------
(***************************************************************************)
(* Live variables and dead code (compiler/optimize/livevar.cpp): the       *)
(* round-robin backward analysis LiveVar::analyse, one step per            *)
(* instruction that LiveVar::translate crosses, and the loop of            *)
(* LiveVar::elimateDeadCode around it.                                     *)
(*                                                                         *)
(* at[b][j] is the set live before instruction j of block b, with the set  *)
(* at the end of the block, Block::liveInfo.out, as its last element.  So  *)
(* at[b][j + 1] is what the code keeps as liveInfo.out of instruction j,   *)
(* unless j is dead, which nothing asks any more.                          *)
(***************************************************************************)
EXTENDS Integers, Sequences, FiniteSets

CONSTANTS
    N,         \* number of basic blocks, 1 is ENTRY and N is EXIT
    Var,       \* the variables the analysis tracks (LiveVar::varList)
    Global,    \* those that are global
    Literal,   \* an operand with index -1, which no set holds
    Programs   \* the functions to analyse

Block == 1 .. N

\* The operators, by what the analysis makes of them: "as" is OP_AS, "expr"
\* the others from OP_ADD to OP_LEA, "arg" an OP_ARG of a base type and
\* "argp" one of an array or pointer, "jcond" is JT or JF, and "skip" stands
\* for labels, ENTRY, EXIT, JMP and RET.
Op == {"as", "expr", "set", "get", "retv", "arg", "argp", "call", "proc",
       "jcond", "jne", "dec", "skip"}

Operand == Var \cup {Literal}
Inst    == [op : Op, res : Operand, arg1 : Operand, arg2 : Operand]

ASSUME ConstAssumption ==
    /\ N \in Nat /\ N >= 2
    /\ Global \subseteq Var
    /\ Literal \notin Var

\* code and succs come from the data flow graph; `reach' is the set of blocks
\* whose canReach mark toCode left on.
ASSUME ProgramsAssumption ==
    \A p \in Programs :
        /\ p \in [code  : [Block -> Seq(Inst)],
                  succs : [Block -> SUBSET Block],
                  reach : SUBSET Block]
        /\ 1 \in p.reach
        /\ \A b \in p.reach : p.succs[b] \subseteq p.reach
        /\ p.succs[N] = {}
        /\ p.code[N] = << [op |-> "skip", res |-> Literal,
                           arg1 |-> Literal, arg2 |-> Literal] >>

VARIABLES
    prog,     \* the function
    dead,     \* instructions marked isDead, as << block, index >>
    procs,    \* CALL instructions callToProc has turned into PROC
    in,       \* Block::liveInfo.in
    at,       \* live sets at every point of every block, see above
    change,   \* some block's `in' changed in this sweep
    i,        \* the block the sweep is at
    j,        \* instructions of block i translate has still to cross
    tmp,      \* translate's running set
    pc

vars == <<prog, dead, procs, in, at, change, i, j, tmp, pc>>

-----------------------------------------------------------------------------
(* Instructions *)

Code(b) == prog.code[b]

\* liveInfo.use and liveInfo.def, as the constructor computes them.
Use(c) ==
    CASE c.op \in {"as", "expr"}          -> {c.arg1, c.arg2} \cap Var
      [] c.op = "set"                     -> {c.res} \cap Var
      [] c.op \in {"get", "argp"}         -> Var
      [] c.op \in {"retv", "arg", "jcond"} -> {c.arg1} \cap Var
      [] c.op \in {"call", "proc"}        -> Global
      [] OTHER                            -> {}

Def(c) ==
    CASE c.op \in {"as", "expr"}   -> {c.res} \ {c.arg1, c.arg2, Literal}
      [] c.op \in {"call", "proc"} -> {c.res} \ (Global \cup {Literal})
      [] OTHER                     -> {}

\* What the comments of enum Operator (common.h) say an instruction reads:
\* SET stores through the pointer arg1, JNE compares arg1 with arg2.
Reads(c) ==
    IF c.op \in {"set", "jne"}
    THEN {c.res, c.arg1, c.arg2} \cap Var
    ELSE Use(c)

Pos    == UNION {{<< b, k >> : k \in DOMAIN Code(b)} : b \in prog.reach}
At(p)  == Code(p[1])[p[2]]
Out(p) == at[p[1]][p[2] + 1]

-----------------------------------------------------------------------------
Init ==
    /\ prog \in Programs
    /\ dead = {}
    /\ procs = {}
    /\ in = [b \in Block |-> {}]
    /\ at = [b \in Block |-> [k \in 1 .. Len(Code(b)) + 1 |-> {}]]
    /\ change = FALSE
    /\ i = N
    /\ j = 0
    /\ tmp = {}
    /\ pc = "analyse"

StartSweep == i' = N - 1 /\ change' = FALSE /\ pc' = "sweep"

\* Mutant of Analyse: a later round starts from the sets of the one before.
AnalyseKeeps ==
    /\ pc = "analyse" /\ (N \in prog.reach \/ Var = {})
    /\ at' = [at EXCEPT ![N] = [k \in 1 .. 2 |-> {}]]
    /\ StartSweep
    /\ UNCHANGED <<prog, dead, procs, in, j, tmp>>

\* analyse: nothing is live after EXIT, nor (yet) before any block.
Analyse ==
    /\ pc = "analyse" /\ (N \in prog.reach \/ Var = {})
    /\ in' = [b \in Block |-> {}]
    /\ at' = [at EXCEPT ![N] = [k \in 1 .. 2 |-> {}]]
    /\ StartSweep
    /\ UNCHANGED <<prog, dead, procs, j, tmp>>

\* The sets of an EXIT block that toCode dropped were never given their size:
\* the assertion of Set::operator- fails.
AnalyseAborts ==
    /\ pc = "analyse" /\ N \notin prog.reach /\ Var # {}
    /\ pc' = "abort"
    /\ UNCHANGED <<prog, dead, procs, in, at, change, i, j, tmp>>

\* Mutant of SkipBlock: the loop runs past block 1.
SkipBlockPast ==
    /\ pc = "sweep" /\ i \notin prog.reach
    /\ i' = i - 1
    /\ UNCHANGED <<prog, dead, procs, in, at, change, j, tmp, pc>>

SkipBlock ==
    /\ pc = "sweep" /\ i >= 1 /\ i \notin prog.reach
    /\ i' = i - 1
    /\ UNCHANGED <<prog, dead, procs, in, at, change, j, tmp, pc>>

\* The out set of block i: what is live before its successors.
EnterBlock ==
    /\ pc = "sweep" /\ i >= 1 /\ i \in prog.reach
    /\ tmp' = UNION {in[s] : s \in prog.succs[i]}
    /\ j' = Len(Code(i))
    /\ at' = [at EXCEPT ![i][Len(Code(i)) + 1] = tmp']
    /\ pc' = "translate"
    /\ UNCHANGED <<prog, dead, procs, in, change, i>>

\* translate crosses instruction j; a dead one changes nothing.
Translate ==
    /\ pc = "translate" /\ j >= 1
    /\ tmp' = IF << i, j >> \in dead THEN tmp
              ELSE Use(Code(i)[j]) \cup (tmp \ Def(Code(i)[j]))
    /\ at' = [at EXCEPT ![i][j] = tmp']
    /\ j' = j - 1
    /\ UNCHANGED <<prog, dead, procs, in, change, i, pc>>

\* Mutant of LeaveBlock: any set that is not empty counts as a change.
LeaveBlockChanged ==
    /\ pc = "translate" /\ j = 0
    /\ change' = (change \/ tmp # {})
    /\ in' = [in EXCEPT ![i] = tmp]
    /\ i' = i - 1
    /\ pc' = "sweep"
    /\ UNCHANGED <<prog, dead, procs, at, j, tmp>>

LeaveBlock ==
    /\ pc = "translate" /\ j = 0
    /\ change' = (change \/ tmp # in[i])
    /\ in' = [in EXCEPT ![i] = tmp]
    /\ i' = i - 1
    /\ pc' = "sweep"
    /\ UNCHANGED <<prog, dead, procs, at, j, tmp>>

SweepAgain ==
    /\ pc = "sweep" /\ i = 0 /\ change
    /\ StartSweep
    /\ UNCHANGED <<prog, dead, procs, in, at, j, tmp>>

SweepEnd ==
    /\ pc = "sweep" /\ i = 0 /\ ~change
    /\ pc' = "clean"
    /\ UNCHANGED <<prog, dead, procs, in, at, change, i, j, tmp>>

\* Mutant of Useless: it looks at what is live before the instruction.
UselessBefore ==
    {p \in Pos \ dead :
        LET c == At(p) IN
        /\ c.op \in {"as", "expr", "get"}
        /\ c.res \notin Global
        /\ c.res \notin at[p[1]][p[2]] \/ (c.op = "as" /\ c.res = c.arg1)}

\* Assignments to a local that is not live after them, and copies a = a.
Useless ==
    {p \in Pos \ dead :
        LET c == At(p) IN
        /\ c.op \in {"as", "expr", "get"}
        /\ c.res \notin Global
        /\ c.res \notin Out(p) \/ (c.op = "as" /\ c.res = c.arg1)}

\* Mutant of Clean: of a call it looks at what is live before it.
CleanCallBefore ==
    /\ pc = "clean"
    /\ dead' = dead \cup Useless
    /\ procs' = procs \cup {p \in Pos : At(p).op = "call" /\ At(p).res \notin at[p[1]][p[2]]}
    /\ pc' = IF Useless = {} THEN "prune" ELSE "analyse"
    /\ UNCHANGED <<prog, in, at, change, i, j, tmp>>

\* One pass of elimateDeadCode over the code; it is repeated if it found any.
Clean ==
    /\ pc = "clean"
    /\ dead' = dead \cup Useless
    /\ procs' = procs \cup {p \in Pos : At(p).op = "call" /\ At(p).res \notin Out(p)}
    /\ pc' = IF Useless = {} THEN "prune" ELSE "analyse"
    /\ UNCHANGED <<prog, in, at, change, i, j, tmp>>

\* The variables instruction p names; a PROC has no result.
Names(p) ==
    {At(p).arg1, At(p).arg2} \cup IF p \in procs THEN {} ELSE {At(p).res}

\* The last call: declarations of variables that nothing left names.
Prune ==
    /\ pc = "prune"
    /\ LET live == UNION {Names(p) : p \in {q \in Pos \ dead : At(q).op # "dec"}}
       IN  dead' = dead \cup {p \in Pos : At(p).op = "dec" /\ At(p).arg1 \notin live}
    /\ pc' = "done"
    /\ UNCHANGED <<prog, procs, in, at, change, i, j, tmp>>

Done == pc \in {"done", "abort"} /\ UNCHANGED vars

Next ==
    \/ Analyse \/ AnalyseAborts
    \/ SkipBlock \/ EnterBlock \/ Translate \/ LeaveBlock
    \/ SweepAgain \/ SweepEnd
    \/ Clean \/ Prune \/ Done

Spec == Init /\ [][Next]_vars /\ WF_vars(Next)

-----------------------------------------------------------------------------
(* Liveness as paths *)

\* A point <<b, k>> lies before instruction k of block b, or at its end.
Points ==
    UNION {{<< b, k >> : k \in 1 .. Len(Code(b)) + 1} : b \in prog.reach}

\* What an instruction needs: what the analysis takes it to use, or what it
\* really reads.
Needs(c, real) == IF real THEN Reads(c) ELSE Use(c)

\* The points right before an instruction, left in the code, that needs v.
NeedPoints(v, real) ==
    {p \in Points : /\ p[2] <= Len(Code(p[1])) /\ p \notin dead
                    /\ v \in Needs(At(p), real)}

\* The points right after p: next is one from which p gets what is live there.
After(p) ==
    IF p[2] > Len(Code(p[1]))
    THEN {<< s, 1 >> : s \in prog.succs[p[1]]}
    ELSE {<< p[1], p[2] + 1 >>}

Sets(v, p) ==
    p[2] <= Len(Code(p[1])) /\ p \notin dead /\ v \in Def(At(p))

\* The sets that hold the points that need v and, with a point, the points
\* before it from which v gets there undisturbed.
LiveSets(v, real) ==
    LET need == NeedPoints(v, real) IN
    {set \in {need \cup more : more \in SUBSET (Points \ need)} :
        \A p \in Points \ set : Sets(v, p) \/ After(p) \cap set = {}}

\* The points where v is live: from which a path leads to an instruction left
\* in the code that needs v, and v is not set on the way.
LivePoints(v, real) ==
    LET sets == LiveSets(v, real) IN
    {p \in Points : \A set \in sets : p \in set}

-----------------------------------------------------------------------------
(* Properties *)

\* The variables have their types and the indices stay inside the code.
TypeOK ==
    /\ dead \subseteq Pos /\ procs \subseteq Pos
    /\ in \in [Block -> SUBSET Var]
    /\ DOMAIN at = Block
    /\ \A b \in Block : at[b] \in [1 .. Len(Code(b)) + 1 -> SUBSET Var]
    /\ change \in BOOLEAN
    /\ i \in 0 .. N
    /\ j \in Nat /\ (pc = "translate" => i >= 1 /\ j <= Len(Code(i)))
    /\ tmp \in SUBSET Var
    /\ pc \in {"analyse", "sweep", "translate", "clean", "prune", "done", "abort"}

\* analyse has returned and no instruction has been marked since.
Analysed == pc \in {"clean", "done"}

\* A sweep that changes nothing is enough: when analyse returns, the set at
\* every point is exactly what is live there in the code that is left, no
\* less (DCE would drop needed code) and no more (registers would be wasted).
LiveExact ==
    Analysed =>
        \A v \in Var :
            {p \in Points : v \in at[p[1]][p[2]]} = LivePoints(v, FALSE)

\* The form a = a that copy propagation leaves behind.
SelfCopy(p) == At(p).op = "as" /\ At(p).res = At(p).arg1

\* No later round makes a result live again that an instruction marked dead,
\* or a call turned into a PROC, would have set.
RemovedStaysUnused ==
    Analysed =>
        /\ \A p \in dead : At(p).op = "dec" \/ SelfCopy(p) \/ At(p).res \notin Out(p)
        /\ \A p \in procs : At(p).res \notin Out(p)

\* The sweeps and the rounds of elimateDeadCode end.
Terminates == <>(pc \in {"done", "abort"})

\* common.h says of OP_SET "SET result,arg1 => *arg1=result" and of OP_JNE
\* "result,arg1,arg2 => if(arg1 > arg2) goto result": both read arg1.  An
\* instruction that is removed set nothing that one left in the code reads.
NoReadLosesItsValue ==
    pc = "done" =>
        \A p \in dead :
            \/ At(p).op = "dec" \/ SelfCopy(p)
            \/ << p[1], p[2] + 1 >> \notin LivePoints(At(p).res, TRUE)

\* The variables that some instruction reads and the analysis does not take it
\* to use: pointers stored through and values switched on.
Unseen == UNION {Reads(At(p)) \ Use(At(p)) : p \in Pos}

\* No other variable loses a value: what elimateDeadCode leaves reads none that
\* an instruction marked dead, or a call turned into a PROC, would have set,
\* along any path, by what instructions read and not by liveInfo.use.
OnlyUnseenLose ==
    pc = "done" =>
        \A p \in dead \cup procs :
            \/ p \notin procs /\ (At(p).op = "dec" \/ SelfCopy(p))
            \/ At(p).res \in Unseen
            \/ << p[1], p[2] + 1 >> \notin LivePoints(At(p).res, TRUE)

\* The operands of Set::operator- have one size (assert in set.cpp:46).
SetSizesAgree == pc # "abort"
=============================================================================
