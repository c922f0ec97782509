----------------------------- MODULE ConstProp -----------------------------
(***************************************************************************)
(* Constant propagation (compiler/optimize/constprop.cpp): analyse, one    *)
(* step per instruction; algebraSimplify and condJmpOpt's choice for every *)
(* jump, one step per instruction; after them a walk that executes the     *)
(* original code, next to which the new instructions must do the same.     *)
(* What condJmpOpt's choice does to the graph is module Dfg.               *)
(*                                                                         *)
(* at[b][j] is inVals of instruction j of block b, and at[b][j + 1] its    *)
(* outVals.                                                                *)
(***************************************************************************)
EXTENDS Integers, Sequences, FiniteSets

CONSTANTS
    N,             \* number of basic blocks, 1 is ENTRY
    Global, Param, Local,
    Pointers,      \* variables and string literals that are not isBase
    Undef, NAC,    \* UNDEF and NAC; Undef is also an unspecified value
    None,          \* a missing operand (nullptr)
    Values,        \* what a caller, a callee or memory may hold
    ValueBound,    \* the walk stops at greater values than this
    Programs       \* the functions to optimise

Block == 1 .. N
Var   == Global \cup Param \cup Local

Arith    == {"add", "sub", "mul", "div", "mod"}
Compares == {"gt", "ge", "lt", "le", "equ", "ne"}
Binary   == Arith \cup Compares \cup {"and", "or"}
Pure     == Binary \cup {"as", "neg", "not"}
\* InterInst::isExpr: OP_LEA and OP_SET lie between OP_OR and OP_GET.
Expr     == Pure \cup {"get"}
Jump     == {"jt", "jf", "jne", "jmp"}
Op       == Expr \cup Jump \cup
               {"lea", "set", "arg", "proc", "call", "retv", "dec", "other"}

Operand == Var \cup Pointers \cup Int
Inst    == [op : Op, res : Var \cup {None},
            arg1 : Operand \cup {None}, arg2 : Operand \cup {None}]

ASSUME ConstAssumption ==
    /\ N \in Nat \ {0}
    /\ ValueBound \in Nat
    /\ Values \subseteq -ValueBound .. ValueBound
    /\ {Undef, NAC, None} \cap (Var \cup Int) = {}
    /\ Undef # NAC
    /\ (Var \cup Pointers) \cap Int = {}

\* `init' is the initial value of a variable, Undef without one; `target' and
\* `fall' of a block are 0 when the block does not jump, or not fall through.
\* ENTRY is one instruction, and no jump goes to it.
ASSUME ProgramsAssumption ==
    \A p \in Programs :
        /\ p.main \in BOOLEAN
        /\ p.init \in [Var -> Values \cup {Undef}]
        /\ {p.target, p.fall} \subseteq [Block -> (0 .. N) \ {1}]
        /\ p.code \in [Block -> Seq(Inst)]
        /\ p.target[1] = 0 /\ Len(p.code[1]) = 1 /\ p.code[1][1].op = "other"
        /\ \A b \in Block : p.code[b] # << >>
        /\ \A b \in Block : \A k \in DOMAIN p.code[b] :
              LET c == p.code[b][k] IN
              /\ c.op \in Op
              /\ c.op \in Expr \cup {"lea", "call"} => c.res \in Var
              /\ c.op \in Pure => c.arg1 \in Operand
              /\ c.op \in Binary => c.arg2 \in Operand
              /\ c.op = "dec" => c.arg1 \in Var
              /\ c.op \in Jump => k = Len(p.code[b])

VARIABLES
    prog,      \* the function, as it was
    inst,      \* its instructions, simplified so far
    out,       \* Block::outVals
    at,        \* see above
    change,    \* outChange of analyse
    i, j,      \* the block and the instruction the pass is at
    tmp,       \* the values after the instructions of block i so far
    env,       \* the value of every variable, on the walk
    taken,     \* the locals and parameters whose address has been taken
    handed,    \* those whose address other functions may have
    pc

analysis == <<out, at, change, tmp>>
walk     == <<env, taken, handed>>
vars     == <<prog, inst, analysis, i, j, walk, pc>>

-----------------------------------------------------------------------------
(* The values and what an instruction does to them *)

Code(b)  == prog.code[b]
Const(v) == v \notin {Undef, NAC}
Bit(b)   == IF b THEN 1 ELSE 0

Sign(n) == IF n < 0 THEN -1 ELSE 1
Abs(n)  == Sign(n) * n
\* Integer division of C rounds to zero.
Quot(l, r) == Sign(l) * Sign(r) * (Abs(l) \div Abs(r))

Fold(op, l, r) ==
    CASE op = "add" -> l + r
      [] op = "sub" -> l - r
      [] op = "mul" -> l * r
      [] op = "div" -> Quot(l, r)
      [] op = "mod" -> l - r * Quot(l, r)
      [] op = "gt"  -> Bit(l > r)
      [] op = "ge"  -> Bit(l >= r)
      [] op = "lt"  -> Bit(l < r)
      [] op = "le"  -> Bit(l <= r)
      [] op = "equ" -> Bit(l = r)
      [] op = "ne"  -> Bit(l # r)
      [] op = "and" -> Bit(l # 0 /\ r # 0)
      [] op = "or"  -> Bit(l # 0 \/ r # 0)
      [] op = "neg" -> -l
      [] op = "not" -> Bit(l = 0)
      [] op = "as"  -> l

\* What is known of an operand: variables are in the vector, literals are not.
Known(a, vec) ==
    IF a \in Var THEN vec[a] ELSE IF a \in Pointers THEN NAC ELSE a

Value(c, vec) ==
    LET l == Known(c.arg1, vec)
        r == IF c.op \in Binary THEN Known(c.arg2, vec) ELSE l
    IN  CASE c.op = "get" \/ NAC \in {l, r} -> NAC
          [] c.op # "get" /\ NAC \notin {l, r} /\ Undef \in {l, r} -> Undef
          [] c.op # "get" /\ {Undef, NAC} \cap {l, r} = {} ->
                IF c.op \in {"div", "mod"} /\ r = 0 THEN NAC ELSE Fold(c.op, l, r)

Lose(vec, set) == [v \in Var |-> IF v \in set THEN NAC ELSE vec[v]]

\* Mutant of Transfer: a call of a procedure leaves the globals as they are.
TransferProcKeeps(c, vec) ==
    CASE c.op \in Expr -> [vec EXCEPT ![c.res] = Value(c, vec)]
      [] c.op = "set" \/ (c.op = "arg" /\ c.arg1 \in Pointers) -> Lose(vec, Var)
      [] c.op = "call" -> Lose(vec, Global \cup {c.res})
      [] OTHER         -> vec

\* translate for one instruction. A store, or a pointer handed to a call, may
\* change everything; a call changes the globals and its result.
Transfer(c, vec) ==
    CASE c.op \in Expr -> [vec EXCEPT ![c.res] = Value(c, vec)]
      [] c.op = "set" \/ (c.op = "arg" /\ c.arg1 \in Pointers) -> Lose(vec, Var)
      [] c.op = "proc" -> Lose(vec, Global)
      [] c.op = "call" -> Lose(vec, Global \cup {c.res})
      [] OTHER         -> vec

\* join of the values that the predecessors end with.
Join(set) ==
    LET known == set \ {Undef} IN
    CASE known = {} -> Undef
      [] Cardinality(known) = 1 -> CHOOSE v \in known : TRUE
      [] Cardinality(known) > 1 -> NAC

Prevs(b) == {q \in Block : b \in {prog.target[q], prog.fall[q]}}

JoinAll(vecs, b) == [v \in Var |-> Join({vecs[q][v] : q \in Prevs(b)})]

InitVals  == [v \in Var |-> Undef]
\* What a function starts with: parameters and pointers have no known value,
\* the others have the one they are initialised with.
BoundVals ==
    [v \in Var |-> IF v \in Param \cup Pointers THEN NAC ELSE prog.init[v]]

-----------------------------------------------------------------------------
(* analyse *)

Init ==
    /\ prog \in Programs
    /\ inst = prog.code
    /\ out = [b \in Block |-> IF b = 1 THEN BoundVals ELSE InitVals]
    /\ at = [b \in Block |-> [k \in 1 .. Len(Code(b)) + 1 |-> InitVals]]
    /\ change = FALSE
    /\ i = 2 /\ j = 1
    /\ tmp = InitVals
    /\ env = InitVals /\ taken = {} /\ handed = {}
    /\ pc = "sweep"

EnterBlock ==
    /\ pc = "sweep" /\ i <= N
    /\ tmp' = JoinAll(out, i)
    /\ at' = [at EXCEPT ![i][1] = tmp']
    /\ j' = 1
    /\ pc' = "translate"
    /\ UNCHANGED <<prog, inst, out, change, i, walk>>

Translate ==
    /\ pc = "translate" /\ j <= Len(Code(i))
    /\ tmp' = Transfer(Code(i)[j], tmp)
    /\ at' = [at EXCEPT ![i][j + 1] = tmp']
    /\ j' = j + 1
    /\ UNCHANGED <<prog, inst, out, change, i, walk, pc>>

\* Mutant of LeaveBlock: a block counts as changed whenever it knows something.
LeaveBlockKnows ==
    /\ pc = "translate" /\ j > Len(Code(i))
    /\ change' = (change \/ tmp # InitVals)
    /\ out' = [out EXCEPT ![i] = tmp]
    /\ i' = i + 1
    /\ pc' = "sweep"
    /\ UNCHANGED <<prog, inst, at, j, tmp, walk>>

LeaveBlock ==
    /\ pc = "translate" /\ j > Len(Code(i))
    /\ change' = (change \/ tmp # out[i])
    /\ out' = [out EXCEPT ![i] = tmp]
    /\ i' = i + 1
    /\ pc' = "sweep"
    /\ UNCHANGED <<prog, inst, at, j, tmp, walk>>

SweepAgain ==
    /\ pc = "sweep" /\ i > N /\ change
    /\ change' = FALSE
    /\ i' = 2
    /\ UNCHANGED <<prog, inst, out, at, j, tmp, walk, pc>>

\* Mutant of SweepEnd: the first block has number 0.
SweepEndZero ==
    /\ pc = "sweep" /\ i > N /\ ~change
    /\ i' = 0 /\ j' = 1
    /\ pc' = "simplify"
    /\ UNCHANGED <<prog, inst, analysis, walk>>

SweepEnd ==
    /\ pc = "sweep" /\ i > N /\ ~change
    /\ i' = 2 /\ j' = 1
    /\ pc' = "simplify"
    /\ UNCHANGED <<prog, inst, analysis, walk>>

-----------------------------------------------------------------------------
(* algebraSimplify and condJmpOpt *)

\* SymTab::one and SymTab::zero, as the constructor of SymTab makes them.
One  == 1
Zero == 1

\* inst->replace
New(c, op, a, b) == [c EXCEPT !.op = op, !.arg1 = a, !.arg2 = b]

\* Mutant of Identity: zero less a variable is the variable.
IdentitySub(c, n, o, left) ==
    CASE c.op \in {"add", "sub"} /\ n = 0 -> New(c, "as", o, None)
      [] c.op = "mul" /\ n = 0 -> New(c, "as", 0, None)
      [] c.op = "mul" /\ n = 1 -> New(c, "as", o, None)
      [] OTHER -> IF left THEN [c EXCEPT !.arg1 = n] ELSE [c EXCEPT !.arg2 = n]

\* One operand is the constant n and the other is o; `left' if n is on the left.
Identity(c, n, o, left) ==
    CASE c.op = "add" /\ n = 0 -> New(c, "as", o, None)
      [] c.op = "sub" /\ n = 0 -> New(c, IF left THEN "neg" ELSE "as", o, None)
      [] c.op = "mul" /\ n = 0 -> New(c, "as", 0, None)
      [] c.op = "mul" /\ n = 1 -> New(c, "as", o, None)
      [] c.op = "div" /\ left  /\ n = 0 -> New(c, "as", Zero, None)
      [] c.op = "div" /\ ~left /\ n = 1 -> New(c, "as", o, None)
      [] c.op = "mod" /\ n = (IF left THEN 0 ELSE 1) -> New(c, "as", Zero, None)
      [] c.op = "and" /\ n = 0 -> New(c, "as", Zero, None)
      [] c.op = "or"  /\ n # 0 -> New(c, "as", One, None)
      [] \/ c.op = "and" /\ n # 0
         \/ c.op = "or"  /\ n = 0 -> New(c, "ne", o, Zero)
      [] OTHER -> IF left THEN [c EXCEPT !.arg1 = n] ELSE [c EXCEPT !.arg2 = n]

\* The instruction algebraSimplify makes of c, from the values before and after.
Simplified(c, in, after) ==
    CASE c.op \in Expr /\ Const(after[c.res]) -> New(c, "as", after[c.res], None)
      [] c.op \in Binary /\ ~Const(after[c.res]) ->
            LET l == Known(c.arg1, in)
                r == Known(c.arg2, in)
            IN  CASE Const(l) -> Identity(c, l, c.arg2, TRUE)
                  [] ~Const(l) /\ Const(r) -> Identity(c, r, c.arg1, FALSE)
                  [] OTHER -> c
      [] c.op \in {"arg", "retv"} /\ c.arg1 \in Var ->
            IF Const(after[c.arg1]) THEN [c EXCEPT !.arg1 = after[c.arg1]] ELSE c
      [] OTHER -> c

\* Mutant of Decided: JF with a false condition is dropped as well.
DecidedJT(c, in) ==
    IF c.op \in {"jt", "jf"} /\ Const(Known(c.arg1, in))
    THEN IF Known(c.arg1, in) # 0
         THEN New(c, "jmp", None, None)
         ELSE New(c, "other", None, None)
    ELSE c

\* condJmpOpt: a jump whose condition is known becomes a JMP or is removed.
Decided(c, in) ==
    IF c.op \in {"jt", "jf"} /\ Const(Known(c.arg1, in))
    THEN IF (c.op = "jt") = (Known(c.arg1, in) # 0)
         THEN New(c, "jmp", None, None)
         ELSE New(c, "other", None, None)
    ELSE c

Simplify ==
    /\ pc = "simplify" /\ i <= N /\ j <= Len(Code(i))
    /\ LET c == Code(i)[j] IN
       inst' = [inst EXCEPT ![i][j] =
                   Decided(Simplified(c, at[i][j], at[i][j + 1]), at[i][j])]
    /\ j' = j + 1
    /\ UNCHANGED <<prog, analysis, i, walk, pc>>

SimplifyNext ==
    /\ pc = "simplify" /\ i <= N /\ j > Len(Code(i))
    /\ i' = i + 1 /\ j' = 1
    /\ UNCHANGED <<prog, inst, analysis, walk, pc>>

-----------------------------------------------------------------------------
(* Execution *)

\* A call of the function: any arguments; the globals hold what they are
\* initialised with, 0 by default, if it is main, and anything if it is not.
Start ==
    /\ pc = "simplify" /\ i > N
    /\ \E args \in [Param \ Pointers -> Values], glb \in [Global \ Pointers -> Values] :
          /\ prog.main => \A g \in Global \ Pointers :
                glb[g] = IF prog.init[g] = Undef THEN 0 ELSE prog.init[g]
          /\ env' = [v \in Var |-> CASE v \in DOMAIN args -> args[v]
                                     [] v \in DOMAIN glb  -> glb[v]
                                     [] OTHER             -> Undef]
    /\ i' = 1 /\ j' = 1
    /\ pc' = "walk"
    /\ UNCHANGED <<prog, inst, analysis, taken, handed>>

Holds(a) == IF a \in Var THEN env[a] ELSE IF a \in Pointers THEN Undef ELSE a

\* Undef when an operand has no value, or the operation none.
Result(c) ==
    LET l == Holds(c.arg1)
        r == IF c.op \in Binary THEN Holds(c.arg2) ELSE l
    IN  IF Undef \in {l, r} \/ (c.op \in {"div", "mod"} /\ r = 0)
        THEN Undef ELSE Fold(c.op, l, r)

\* What a called function and a store may change.
Foreign == (Global \cup handed) \ Pointers
Exposed == (Global \cup taken) \ Pointers

After(c) ==
    LET with(v) == [env EXCEPT ![c.res] = v]
        called  == {[v \in Var |-> IF v \in Foreign THEN new[v] ELSE env[v]] :
                       new \in [Foreign -> Values]}
    IN  CASE c.op \in Pure -> {with(Result(c))}
          [] c.op = "get"  -> {with(v) : v \in Values}
          [] c.op = "dec"  -> {[env EXCEPT ![c.arg1] = prog.init[c.arg1]]}
          [] c.op = "set"  ->
                {[env EXCEPT ![x] = v] : x \in Exposed, v \in Values}
          [] c.op = "proc" -> called
          [] c.op = "call" -> {[e EXCEPT ![c.res] = v] : e \in called, v \in Values}
          [] OTHER         -> {env}

\* A pointer handed to a call, or kept in a global.
Escapes(c) ==
    \/ c.op = "arg" /\ c.arg1 \in Pointers
    \/ c.op \in Expr \cup {"lea"} /\ c.res \in Global \cap Pointers

WalkInst ==
    /\ pc = "walk" /\ j <= Len(Code(i))
    /\ env' \in After(Code(i)[j])
    /\ \A v \in Var : env'[v] # Undef => Abs(env'[v]) <= ValueBound
    /\ LET c == Code(i)[j] IN
       /\ taken'  = IF c.op = "lea" THEN taken \cup ({c.arg1} \cap (Local \cup Param)) ELSE taken
       /\ handed' = IF Escapes(c) THEN taken' ELSE handed
    /\ j' = j + 1
    /\ UNCHANGED <<prog, inst, analysis, i, pc>>

\* Where instruction c may go at the end of its block: to the target or on.
Ways(c) ==
    LET l == Holds(c.arg1) IN
    CASE c.op = "jmp" -> {"target"}
      [] c.op \in {"jt", "jf", "jne"} ->
            LET r == IF c.op = "jne" THEN Holds(c.arg2) ELSE 0 IN
            IF Undef \in {l, r} THEN {"target", "on"}
            ELSE IF (l # r) = (c.op # "jf") THEN {"target"} ELSE {"on"}
      [] OTHER -> {"on"}

Last(code) == code[Len(code)]

WalkEdge ==
    /\ pc = "walk" /\ j > Len(Code(i))
    /\ \E way \in Ways(Last(Code(i))) :
          i' = IF way = "target" THEN prog.target[i] ELSE prog.fall[i]
    /\ i' # 0
    /\ j' = 1
    /\ UNCHANGED <<prog, inst, analysis, walk, pc>>

Next ==
    \/ EnterBlock \/ Translate \/ LeaveBlock \/ SweepAgain \/ SweepEnd
    \/ Simplify \/ SimplifyNext \/ Start \/ WalkInst \/ WalkEdge

Spec == Init /\ [][Next]_vars /\ WF_vars(Next)

-----------------------------------------------------------------------------
(* The data-flow equations *)

OutOf(code, vec) ==
    LET run[k \in 0 .. Len(code)] ==
            IF k = 0 THEN vec ELSE Transfer(code[k], run[k - 1])
    IN  run[Len(code)]

-----------------------------------------------------------------------------
(* Properties *)

Lattice == Int \cup {Undef, NAC}

\* The variables have their types and the indices stay inside the code.
TypeOK ==
    /\ DOMAIN prog.code = Block
    /\ inst \in [Block -> Seq(Inst)]
    /\ \A b \in Block : Len(inst[b]) = Len(Code(b))
    /\ out \in [Block -> [Var -> Lattice]]
    /\ DOMAIN at = Block
    /\ \A b \in Block : at[b] \in [1 .. Len(Code(b)) + 1 -> [Var -> Lattice]]
    /\ change \in BOOLEAN
    /\ i \in 1 .. N + 1 /\ j \in Nat
    /\ tmp \in [Var -> Lattice]
    /\ env \in [Var -> Int \cup {Undef}]
    /\ taken \cup handed \subseteq Local \cup Param
    /\ pc \in {"sweep", "translate", "simplify", "walk"}

\* What analyse says is constant has that value on every execution.
ClaimsHold ==
    pc = "walk" /\ i # 1 =>
        \A v \in Var : Const(at[i][j][v]) => env[v] \in {at[i][j][v], Undef}

\* On every execution a simplified instruction computes the value, passes on
\* the operand and takes the way that the original one does.
SimplifiedAgrees ==
    pc = "walk" /\ j <= Len(Code(i)) =>
        LET c == Code(i)[j]
            d == inst[i][j]
        IN  /\ c.op \in Pure => d.res = c.res /\ Result(c) \in {Result(d), Undef}
            /\ c.op \in {"arg", "retv"} => Holds(c.arg1) \in {Holds(d.arg1), Undef}
            /\ Ways(d) \subseteq Ways(c)

\* The sweeps of analyse end.
AnalysisEnds == <>(pc = "simplify")
=============================================================================
