------------------------------ MODULE CopyProp ------------------------------
(***************************************************************************)
(* Copy propagation (compiler/optimize/copyprop.cpp): the forward analysis *)
(* of CopyPropagation::analyse, one step per instruction, then propagate,  *)
(* one step per call of the recursive __find; after it, a walk along the   *)
(* paths of the original code that keeps track of which variables are      *)
(* certain to be equal.                                                    *)
(*                                                                         *)
(* at[b][j] is copyInfo.in of instruction j of block b; its last element   *)
(* is copyInfo.out of the block.                                           *)
(***************************************************************************)
EXTENDS Integers, Sequences, FiniteSets

CONSTANTS
    N,         \* number of basic blocks, 1 is ENTRY
    Var,       \* variables and literals
    None,      \* a missing operand (nullptr)
    Programs   \* the functions to optimise

Block == 1 .. N

\* The operators by what the pass makes of them: "as" is OP_AS, "expr" the
\* others up to OP_GET but "lea" and "set"; "call" is OP_CALL or OP_PROC,
\* "use" is JT, JF, ARG or RETV, "other" the rest.
Op == {"as", "expr", "lea", "set", "call", "use", "other"}

Operand == Var \cup {None}
Inst    == [op : Op, res : Operand, arg1 : Operand, arg2 : Operand]

ASSUME ConstAssumption ==
    /\ N \in Nat \ {0}
    /\ None \notin Var

\* `reach' is the set of blocks with canReach; release has cut the others off.
\* ENTRY is one instruction: markFirst makes the next one the first of a block.
ASSUME ProgramsAssumption ==
    \A p \in Programs :
        /\ p \in [code  : [Block -> Seq(Inst)],
                  succs : [Block -> SUBSET Block],
                  reach : SUBSET Block]
        /\ 1 \in p.reach /\ Len(p.code[1]) = 1 /\ p.code[1][1].op = "other"
        /\ \A b \in Block : p.succs[b] \subseteq p.reach \ {1}
        /\ \A b \in Block \ p.reach : p.succs[b] = {}
        /\ \A b \in Block : \A k \in DOMAIN p.code[b] :
              LET c == p.code[b][k] IN
              /\ c.op \in {"as", "expr", "lea"} => c.res \in Var
              /\ c.op \in {"as", "set"} => {c.res, c.arg1} \subseteq Var

VARIABLES
    prog,    \* the function, as it was
    inst,    \* its instructions: propagate changes their operands
    out,     \* Block::copyInfo.out
    at,      \* available copies before every instruction, see above
    change,  \* some block's `out' changed in this sweep
    i, j,    \* the block and the instruction the pass is at
    tmp,     \* translate's running set
    found,   \* the operands that find has returned for instruction j
    cur,     \* the variable that __find is at
    eq,      \* pairs of variables that are equal, on the walk
    pc

analysis == <<out, at, change, tmp>>
search   == <<found, cur>>
vars     == <<prog, inst, analysis, i, j, search, eq, pc>>

-----------------------------------------------------------------------------
(* The sets of the constructor *)

Code(b) == prog.code[b]
Pos     == UNION {{<< b, k >> : k \in DOMAIN Code(b)} : b \in prog.reach}
At(p)   == Code(p[1])[p[2]]

\* copyExpr: the positions of the copies.
Copies == {p \in Pos : At(p).op = "as"}

Gen(p) == {p} \cap Copies

\* Mutant of Kill: only copies to the result go.
KillResult(p) ==
    CASE At(p).op \in {"set", "call"}       -> Copies
      [] At(p).op \in {"as", "expr", "lea"} -> {c \in Copies \ {p} : At(p).res = At(c).res}
      [] OTHER                              -> {}

\* A store or a call may change any variable; an instruction that sets its
\* result changes the copies to and from it.
Kill(p) ==
    CASE At(p).op \in {"set", "call"}       -> Copies
      [] At(p).op \in {"as", "expr", "lea"} ->
            {c \in Copies \ {p} : At(p).res \in {At(c).res, At(c).arg1}}
      [] OTHER                              -> {}

-----------------------------------------------------------------------------
(* analyse *)

Init ==
    /\ prog \in Programs
    /\ inst = prog.code
    /\ out = [b \in Block |-> IF b = 1 THEN {} ELSE Copies]
    /\ at = [b \in Block |-> [k \in 1 .. Len(Code(b)) + 1 |-> {}]]
    /\ change = FALSE
    /\ i = 2 /\ j = 1
    /\ tmp = {}
    /\ found = << >> /\ cur = None
    /\ eq = {}
    /\ pc = "sweep"

\* Block::prevs
Prevs(b) == {q \in Block : b \in prog.succs[q]}

SkipBlock ==
    /\ pc = "sweep" /\ i <= N /\ i \notin prog.reach
    /\ i' = i + 1
    /\ UNCHANGED <<prog, inst, analysis, j, search, eq, pc>>

\* Mutant of EnterBlock: a copy that one predecessor has is enough.
EnterBlockAny ==
    /\ pc = "sweep" /\ i <= N /\ i \in prog.reach
    /\ tmp' = UNION {out[q] : q \in Prevs(i)}
    /\ at' = [at EXCEPT ![i][1] = tmp']
    /\ j' = 1
    /\ pc' = "translate"
    /\ UNCHANGED <<prog, inst, out, change, i, search, eq>>

EnterBlock ==
    /\ pc = "sweep" /\ i <= N /\ i \in prog.reach
    /\ tmp' = {c \in Copies : \A q \in Prevs(i) : c \in out[q]}
    /\ at' = [at EXCEPT ![i][1] = tmp']
    /\ j' = 1
    /\ pc' = "translate"
    /\ UNCHANGED <<prog, inst, out, change, i, search, eq>>

Translate ==
    /\ pc = "translate" /\ j <= Len(Code(i))
    /\ tmp' = (tmp \ Kill(<< i, j >>)) \cup Gen(<< i, j >>)
    /\ at' = [at EXCEPT ![i][j + 1] = tmp']
    /\ j' = j + 1
    /\ UNCHANGED <<prog, inst, out, change, i, search, eq, pc>>

\* Mutant of LeaveBlock: any set that is not empty counts as a change.
LeaveBlockChanged ==
    /\ pc = "translate" /\ j > Len(Code(i))
    /\ change' = (change \/ tmp # {})
    /\ out' = [out EXCEPT ![i] = tmp]
    /\ i' = i + 1
    /\ pc' = "sweep"
    /\ UNCHANGED <<prog, inst, at, j, tmp, search, eq>>

LeaveBlock ==
    /\ pc = "translate" /\ j > Len(Code(i))
    /\ change' = (change \/ tmp # out[i])
    /\ out' = [out EXCEPT ![i] = tmp]
    /\ i' = i + 1
    /\ pc' = "sweep"
    /\ UNCHANGED <<prog, inst, at, j, tmp, search, eq>>

SweepAgain ==
    /\ pc = "sweep" /\ i > N /\ change
    /\ change' = FALSE
    /\ i' = 2
    /\ UNCHANGED <<prog, inst, out, at, j, tmp, search, eq, pc>>

SweepEnd ==
    /\ pc = "sweep" /\ i > N /\ ~change
    /\ i' = 1 /\ j' = 1
    /\ pc' = "propagate"
    /\ UNCHANGED <<prog, inst, analysis, search, eq>>

-----------------------------------------------------------------------------
(* propagate *)

\* The operands of an instruction that propagate asks find for, in order.
Wanted(c) ==
    CASE c.op \in {"as", "expr"} -> << c.arg1, c.arg2 >>
      [] c.op = "set"            -> << c.res >>
      [] c.op = "use"            -> << c.arg1 >>
      [] OTHER                   -> << >>

\* The instruction with the operands found in their place.
Replaced(c, ops) ==
    CASE c.op \in {"as", "expr"} -> [c EXCEPT !.arg1 = ops[1], !.arg2 = ops[2]]
      [] c.op = "set"            -> [c EXCEPT !.res = ops[1]]
      [] c.op = "use"            -> [c EXCEPT !.arg1 = ops[1]]
      [] OTHER                   -> c

\* Mutant of NextBlock: the loop runs past the last block.
NextBlockPast ==
    /\ pc = "propagate"
    /\ i \notin prog.reach \/ j > Len(Code(i))
    /\ i' = i + 1 /\ j' = 1
    /\ UNCHANGED <<prog, inst, analysis, search, eq, pc>>

\* The end of a block: on to the next that has not been dropped.
NextBlock ==
    /\ pc = "propagate" /\ i <= N
    /\ i \notin prog.reach \/ j > Len(Code(i))
    /\ i' = i + 1 /\ j' = 1
    /\ UNCHANGED <<prog, inst, analysis, search, eq, pc>>

StartFind ==
    /\ pc = "propagate" /\ i <= N /\ i \in prog.reach /\ j <= Len(Code(i))
    /\ Len(found) < Len(Wanted(inst[i][j]))
    /\ cur' = Wanted(inst[i][j])[Len(found) + 1]
    /\ pc' = "find"
    /\ UNCHANGED <<prog, inst, analysis, i, j, found, eq>>

Replace ==
    /\ pc = "propagate" /\ i <= N /\ i \in prog.reach /\ j <= Len(Code(i))
    /\ Len(found) = Len(Wanted(inst[i][j]))
    /\ inst' = [inst EXCEPT ![i][j] = Replaced(@, found)]
    /\ found' = << >>
    /\ j' = j + 1
    /\ UNCHANGED <<prog, analysis, i, cur, eq, pc>>

\* The copies of the in set of instruction j that give v its value.
Givers(v) == {c \in at[i][j] : At(c).res = v}
Src       == Wanted(inst[i][j])[Len(found) + 1]

\* The copies are those of copyExpr: instructions propagate may have changed.
From(c) == inst[c[1]][c[2]].arg1

Found(v) ==
    /\ found' = Append(found, v)
    /\ pc' = "propagate"
    /\ UNCHANGED <<prog, inst, analysis, i, j, cur, eq>>

\* __find: no copy to `cur'; a copy from where the search began; or go on.
FindEnds   == pc = "find" /\ Givers(cur) = {} /\ Found(cur)
FindCircle == pc = "find" /\ \E c \in Givers(cur) : From(c) = Src /\ Found(Src)
FindOn ==
    /\ pc = "find"
    /\ \E c \in Givers(cur) : From(c) # Src /\ cur' = From(c)
    /\ UNCHANGED <<prog, inst, analysis, i, j, found, eq, pc>>

-----------------------------------------------------------------------------
(* The walk *)

Propagated ==
    /\ pc = "propagate" /\ i > N
    /\ i' = 1 /\ j' = 1 /\ pc' = "walk"
    /\ UNCHANGED <<prog, inst, analysis, search, eq>>

\* What is equal after an instruction of the original code, whatever a store
\* writes to and a call does.
After(c) ==
    CASE c.op \in {"set", "call"}    -> {}
      [] c.op \in {"expr", "lea"}    -> {e \in eq : c.res \notin {e[1], e[2]}}
      [] c.op = "as" /\ c.res # c.arg1 ->
            LET keep  == {e \in eq : c.res \notin {e[1], e[2]}}
                class == {c.arg1} \cup {v \in Var : << c.arg1, v >> \in keep}
            IN  keep \cup {<< c.res, v >> : v \in class} \cup {<< v, c.res >> : v \in class}
      [] OTHER                       -> eq

WalkInst ==
    /\ pc = "walk" /\ j <= Len(Code(i))
    /\ eq' = After(Code(i)[j])
    /\ j' = j + 1
    /\ UNCHANGED <<prog, inst, analysis, i, search, pc>>

WalkEdge ==
    /\ pc = "walk" /\ j > Len(Code(i))
    /\ i' \in prog.succs[i]
    /\ j' = 1
    /\ UNCHANGED <<prog, inst, analysis, search, eq, pc>>

Next ==
    \/ SkipBlock \/ EnterBlock \/ Translate \/ LeaveBlock \/ SweepAgain \/ SweepEnd
    \/ NextBlock \/ StartFind \/ Replace \/ FindEnds \/ FindCircle \/ FindOn
    \/ Propagated \/ WalkInst \/ WalkEdge

Spec == Init /\ [][Next]_vars /\ WF_vars(Next)

-----------------------------------------------------------------------------
(* Availability as paths *)

\* A point << b, k >> lies before instruction k of block b, or at its end.
Points ==
    UNION {{<< b, k >> : k \in 1 .. Len(Code(b)) + 1} : b \in prog.reach}

Following(p) ==
    IF p[2] > Len(Code(p[1]))
    THEN {<< s, 1 >> : s \in prog.succs[p[1]]}
    ELSE {<< p[1], p[2] + 1 >>}

Kills(c, p) == p[2] <= Len(Code(p[1])) /\ c \in Kill(p)

\* The points a path reaches without copy c: from the start of the function,
\* or from an instruction that kills it, and without passing it again.
LostSets(c) ==
    LET lost == {<< 1, 1 >>} \cup UNION {Following(p) : p \in {q \in Points : Kills(c, q)}}
    IN  {set \in {lost \cup more : more \in SUBSET (Points \ lost)} :
            \A p \in set \ {c} : Following(p) \subseteq set}

LostPoints(c) ==
    LET sets == LostSets(c) IN {p \in Points : \A set \in sets : p \in set}

-----------------------------------------------------------------------------
(* Properties *)

\* The variables have their types and the indices stay inside the code.
TypeOK ==
    /\ prog \in Programs
    /\ inst \in [Block -> Seq(Inst)]
    /\ out \in [Block -> SUBSET Copies]
    /\ DOMAIN at = Block
    /\ \A b \in Block : at[b] \in [1 .. Len(Code(b)) + 1 -> SUBSET Copies]
    /\ change \in BOOLEAN
    /\ i \in 1 .. N + 1 /\ j \in Nat
    /\ tmp \subseteq Copies
    /\ found \in Seq(Operand) /\ Len(found) <= 2 /\ cur \in Operand
    /\ eq \subseteq Var \X Var
    /\ pc \in {"sweep", "translate", "propagate", "find", "walk"}

\* The sets are exact: before an instruction, a copy is available if and only
\* if every path from ENTRY passes it and changes neither variable after it.
AvailableExact ==
    pc = "propagate" /\ i = 1 /\ j = 1 =>
        \A c \in Copies : \A p \in Points : p[1] # 1 =>
            (c \in at[p[1]][p[2]] <=> p \notin LostPoints(c))

\* Whatever path execution takes, both sides of an available copy are equal.
AvailableCopiesHold ==
    pc = "walk" /\ j <= Len(Code(i)) =>
        \A c \in at[i][j] : At(c).res = At(c).arg1 \/ << At(c).res, At(c).arg1 >> \in eq

\* The sweeps of analyse end.
AnalysisEnds == <>(pc = "propagate")

\* propagate replaces an operand by the source of its value (copyprop.cpp:90,
\* "find the source var was assigned from, recursively"): the new operand
\* always has the value of the old one.
ReplacedAreEqual ==
    pc = "walk" /\ i \in prog.reach /\ j <= Len(Code(i)) =>
        LET old == Wanted(Code(i)[j])
            new == Wanted(inst[i][j])
        IN  \A k \in DOMAIN old : old[k] = new[k] \/ << old[k], new[k] >> \in eq

\* __find notices circles (copyprop.cpp:99, "a circle appears in the search,
\* e.g. x=y;y=x"): it returns.
FindReturns == pc = "find" ~> pc # "find"
=============================================================================
