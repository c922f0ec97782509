--------------------------- MODULE LiveVar_proofs ---------------------------
(***************************************************************************)
(* Proofs about LiveVar, for every function: when LiveVar::analyse         *)
(* returns, the set at every point is exactly the set of variables that    *)
(* are live there along some path.                                         *)
(***************************************************************************)
EXTENDS LiveVar, TLAPS

-----------------------------------------------------------------------------
(* The inductive invariant *)

Sweeping == pc \in {"sweep", "translate"}
Finished == pc \in {"clean", "prune", "done"}

\* The points whose set the current sweep, or the last one, has computed.
Fresh(p) ==
    \/ Finished
    \/ Sweeping /\ p[1] > i
    \/ pc = "translate" /\ p[1] = i /\ p[2] > j

Control ==
    /\ prog \in Programs
    /\ Sweeping => i <= N - 1
    /\ pc = "translate" => i \in prog.reach /\ tmp = at[i][j + 1]
    /\ Finished => ~change
    /\ in[N] = {} /\ at[N] = [k \in 1 .. 2 |-> {}]

\* What the analysis has put into a set is live there.
Sound ==
    Sweeping \/ Finished =>
        /\ \A b \in prog.reach : \A v \in in[b] : << b, 1 >> \in LivePoints(v, FALSE)
        /\ \A p \in Points : Fresh(p) =>
              \A v \in at[p[1]][p[2]] : p \in LivePoints(v, FALSE)

\* The equations of the analysis at a fresh point; those between blocks are
\* good only as long as the sweep has changed nothing.
Step(p, out) ==
    IF p \in dead THEN out ELSE Use(At(p)) \cup (out \ Def(At(p)))

Solved ==
    \A p \in Points : Fresh(p) =>
        /\ p[2] <= Len(Code(p[1])) => at[p[1]][p[2]] = Step(p, at[p[1]][p[2] + 1])
        /\ p[2] > Len(Code(p[1])) /\ ~change =>
              at[p[1]][p[2]] = UNION {in[s] : s \in prog.succs[p[1]]}
        /\ p[2] = 1 /\ (Finished \/ p[1] > i) => in[p[1]] = at[p[1]][1]

IInv == TypeOK /\ Control /\ Sound /\ Solved

-----------------------------------------------------------------------------
(* Lemmas *)

\* What the assumption says of the function at hand.
LEMMA ProgType ==
    ASSUME prog \in Programs
    PROVE  /\ prog.code \in [Block -> Seq(Inst)]
           /\ prog.succs \in [Block -> SUBSET Block]
           /\ prog.reach \in SUBSET Block /\ 1 \in prog.reach
           /\ \A b \in prog.reach : prog.succs[b] \subseteq prog.reach
           /\ prog.succs[N] = {}
           /\ Len(Code(N)) = 1 /\ Code(N)[1].op = "skip"
           /\ \A b \in Block : Len(Code(b)) \in Nat
           /\ \A b \in Block : \A k \in 1 .. Len(Code(b)) : Code(b)[k] \in Inst
<1>1. /\ prog.code \in [Block -> Seq(Inst)]
      /\ prog.succs \in [Block -> SUBSET Block]
      /\ prog.reach \in SUBSET Block /\ 1 \in prog.reach
      /\ \A b \in prog.reach : prog.succs[b] \subseteq prog.reach
      /\ prog.succs[N] = {}
  BY ProgramsAssumption
<1>2. Len(Code(N)) = 1 /\ Code(N)[1].op = "skip"
  <2>1. prog.code[N] = << [op |-> "skip", res |-> Literal,
                           arg1 |-> Literal, arg2 |-> Literal] >>
    BY ProgramsAssumption
  <2> QED  BY <2>1 DEF Code
<1>3. ASSUME NEW b \in Block
      PROVE  Len(Code(b)) \in Nat /\ \A k \in 1 .. Len(Code(b)) : Code(b)[k] \in Inst
  <2>1. Code(b) \in Seq(Inst)
    BY <1>1 DEF Code
  <2> HIDE DEF Inst
  <2> QED  BY <2>1
<1> QED
  BY <1>1, <1>2, <1>3

\* The use and def sets of an instruction hold tracked variables.
LEMMA UseDefType ==
    ASSUME NEW c \in Inst
    PROVE  Use(c) \subseteq Var /\ (c.op = "skip" => Use(c) = {})
           /\ (c.op = "dec" => Use(c) = {} /\ Def(c) = {})
BY ConstAssumption DEF Use, Def, Inst, Op, Operand

\* EXIT is a block of one instruction that uses nothing.
LEMMA ExitCode ==
    ASSUME prog \in Programs
    PROVE  /\ N \in Block /\ Len(Code(N)) = 1 /\ prog.succs[N] = {}
           /\ Use(Code(N)[1]) = {}
<1>1. N \in Block
  BY ConstAssumption DEF Block
<1>2. Len(Code(N)) = 1 /\ prog.succs[N] = {} /\ Code(N)[1].op = "skip"
  BY ProgType
<1>3. \A k \in 1 .. Len(Code(N)) : Code(N)[k] \in Inst
  BY <1>1, ProgType
<1>4. 1 \in 1 .. Len(Code(N))
  BY <1>2
<1>5. Use(Code(N)[1]) = {}
  BY <1>2, <1>3, <1>4, UseDefType
<1> QED
  BY <1>1, <1>2, <1>5

\* Live points are closed: a point before one that needs v or gets it live.
LEMMA LiveClosed ==
    ASSUME NEW v, NEW p \in Points,
           \/ p \in NeedPoints(v, FALSE)
           \/ ~ Sets(v, p) /\ \E q \in After(p) : q \in LivePoints(v, FALSE)
    PROVE  p \in LivePoints(v, FALSE)
<1> SUFFICES ASSUME NEW set \in LiveSets(v, FALSE)  PROVE p \in set
  BY DEF LivePoints
<1>1. /\ NeedPoints(v, FALSE) \subseteq set
      /\ \A q \in Points \ set : Sets(v, q) \/ After(q) \cap set = {}
  BY DEF LiveSets
<1>2. LivePoints(v, FALSE) \subseteq set
  BY DEF LivePoints
<1> QED
  BY <1>1, <1>2

\* They are the least such set.
LEMMA LiveLeast ==
    ASSUME NEW v, NEW set \in SUBSET Points,
           NeedPoints(v, FALSE) \subseteq set,
           \A p \in Points \ set : Sets(v, p) \/ After(p) \cap set = {}
    PROVE  LivePoints(v, FALSE) \subseteq set
<1>1. set = NeedPoints(v, FALSE) \cup (set \ NeedPoints(v, FALSE))
  OBVIOUS
<1>2. set \ NeedPoints(v, FALSE) \in SUBSET (Points \ NeedPoints(v, FALSE))
  OBVIOUS
<1>3. set \in LiveSets(v, FALSE)
  BY <1>1, <1>2 DEF LiveSets
<1> QED
  BY <1>3 DEF LivePoints

\* What is live at a point is determined by the function and the dead code.
LEMMA LiveSame ==
    ASSUME UNCHANGED <<prog, dead>>
    PROVE  /\ Points' = Points /\ Pos' = Pos /\ \A b : Code(b)' = Code(b)
           /\ \A v : LivePoints(v, FALSE)' = LivePoints(v, FALSE)
           /\ \A p, out : Step(p, out)' = Step(p, out)
<1>1. Points' = Points /\ Pos' = Pos /\ \A b : Code(b)' = Code(b)
  BY DEF Points, Pos, Code
<1>2. ASSUME NEW v  PROVE LivePoints(v, FALSE)' = LivePoints(v, FALSE)
  BY DEF LivePoints, LiveSets, NeedPoints, Points, Sets, After, Needs, At, Code
<1>3. ASSUME NEW p, NEW out  PROVE Step(p, out)' = Step(p, out)
  BY DEF Step, At, Code
<1> QED
  BY <1>1, <1>2, <1>3

\* A point has the block and the index of a set of `at'.
LEMMA PointType ==
    ASSUME prog \in Programs, NEW p \in Points
    PROVE  /\ p = << p[1], p[2] >> /\ p[1] \in prog.reach /\ p[1] \in Block
           /\ Len(Code(p[1])) \in Nat /\ p[2] \in 1 .. Len(Code(p[1])) + 1
<1>1. PICK b \in prog.reach : \E k \in 1 .. Len(Code(b)) + 1 : p = << b, k >>
  BY DEF Points
<1>2. PICK k \in 1 .. Len(Code(b)) + 1 : p = << b, k >>
  BY <1>1
<1>3. b \in Block /\ Len(Code(b)) \in Nat
  BY ProgType
<1> QED
  BY <1>2, <1>3

\* An index of `at' in a reachable block is a point.
LEMMA PointIntro ==
    ASSUME prog \in Programs, NEW b \in prog.reach, NEW k \in 1 .. Len(Code(b)) + 1
    PROVE  << b, k >> \in Points
BY DEF Points

-----------------------------------------------------------------------------
(* At the end of an analysis *)

\* Sound and Solved make the sets exact once nothing has changed.
LEMMA ExactAtEnd == IInv /\ Finished => LiveExact
<1> SUFFICES ASSUME IInv, Finished, NEW v \in Var
             PROVE  {p \in Points : v \in at[p[1]][p[2]]} = LivePoints(v, FALSE)
  BY DEF LiveExact
<1> DEFINE set == {p \in Points : v \in at[p[1]][p[2]]}
<1>1. set \subseteq LivePoints(v, FALSE)
  BY DEF IInv, Sound, Fresh
<1>2. ASSUME NEW p \in Points
      PROVE  /\ p = << p[1], p[2] >> /\ p[1] \in prog.reach /\ p[1] \in Block
             /\ p[2] \in 1 .. Len(Code(p[1])) + 1 /\ Len(Code(p[1])) \in Nat
             /\ p[2] <= Len(Code(p[1])) =>
                  /\ << p[1], p[2] + 1 >> \in Points
                  /\ at[p[1]][p[2]] = Step(p, at[p[1]][p[2] + 1])
             /\ p[2] > Len(Code(p[1])) =>
                  at[p[1]][p[2]] = UNION {in[s] : s \in prog.succs[p[1]]}
  <2>1. PICK b \in prog.reach : \E k \in 1 .. Len(Code(b)) + 1 : p = << b, k >>
    BY DEF Points
  <2>2. PICK k \in 1 .. Len(Code(b)) + 1 : p = << b, k >>
    BY <2>1
  <2>3. b \in Block /\ Len(Code(b)) \in Nat
    BY ProgType DEF IInv, Control
  <2>4. k <= Len(Code(b)) => << b, k + 1 >> \in Points
    BY <2>3 DEF Points
  <2>5. Fresh(p) /\ ~change
    BY DEF Fresh, IInv, Control
  <2> QED  BY <2>2, <2>3, <2>4, <2>5 DEF IInv, Solved
<1>3. NeedPoints(v, FALSE) \subseteq set
  <2> SUFFICES ASSUME NEW p \in NeedPoints(v, FALSE)  PROVE v \in at[p[1]][p[2]]
    BY DEF NeedPoints
  <2>1. p \in Points /\ p[2] <= Len(Code(p[1])) /\ p \notin dead /\ v \in Use(At(p))
    BY DEF NeedPoints, Needs
  <2> QED  BY <1>2, <2>1 DEF Step
<1>4. ASSUME NEW p \in Points \ set, ~ Sets(v, p), NEW q \in After(p)
      PROVE  q \notin set
  <2> DEFINE n == Len(Code(p[1]))
  <2>0. /\ n \in Nat /\ p[2] \in 1 .. n + 1 /\ v \notin at[p[1]][p[2]]
        /\ p[2] <= n => at[p[1]][p[2]] = Step(p, at[p[1]][p[2] + 1])
        /\ p[2] > n  => at[p[1]][p[2]] = UNION {in[s] : s \in prog.succs[p[1]]}
    BY <1>2
  <2>1. CASE p[2] <= n
    <3>1. q = << p[1], p[2] + 1 >>
      <4>1. ~ (p[2] > n)
        BY <2>0, <2>1
      <4> QED  BY <1>4, <4>1 DEF After
    <3>2. v \notin at[p[1]][p[2]] /\ at[p[1]][p[2]] = Step(p, at[p[1]][p[2] + 1])
      BY <2>0, <2>1
    <3>3. p \notin dead => v \notin Def(At(p))
      BY <1>4, <2>1 DEF Sets
    <3>4. v \notin at[p[1]][p[2] + 1]
      BY <3>2, <3>3 DEF Step
    <3> QED  BY <3>1, <3>4
  <2>2. CASE p[2] > n
    <3>1. PICK s \in prog.succs[p[1]] : q = << s, 1 >>
      BY <1>4, <2>2 DEF After
    <3>2. v \notin in[s]
      <4>1. at[p[1]][p[2]] = UNION {in[t] : t \in prog.succs[p[1]]}
        BY <2>0, <2>2
      <4> QED  BY <2>0, <4>1
    <3>3. ASSUME q \in Points  PROVE in[s] = at[s][1]
      <4>1. Fresh(q) /\ q[2] = 1 /\ q[1] = s
        BY <3>1 DEF Fresh
      <4> QED  BY <3>3, <4>1 DEF IInv, Solved
    <3> QED  BY <3>1, <3>2, <3>3
  <2> QED  BY <2>0, <2>1, <2>2
<1>5. LivePoints(v, FALSE) \subseteq set
  <2>1. \A p \in Points \ set : Sets(v, p) \/ After(p) \cap set = {}
    BY <1>4
  <2> HIDE DEF set
  <2>2. set \in SUBSET Points
    BY DEF set
  <2> QED  BY <1>3, <2>1, <2>2, LiveLeast
<1> QED
  BY <1>1, <1>5

-----------------------------------------------------------------------------
(* The invariant is inductive *)

\* No set is computed yet.
LEMMA InitInv == Init => IInv
<1> SUFFICES ASSUME Init  PROVE IInv
  OBVIOUS
<1> USE ConstAssumption
<1>1. prog \in Programs /\ \A b \in Block : Len(Code(b)) \in Nat
  BY ProgType DEF Init
<1>2. TypeOK
  <2>1. \A b \in Block : at[b] \in [1 .. Len(Code(b)) + 1 -> SUBSET Var]
    BY DEF Init
  <2>2. DOMAIN at = Block /\ in \in [Block -> SUBSET Var]
    BY DEF Init
  <2>3. i \in 0 .. N /\ j \in Nat /\ pc = "analyse" /\ change = FALSE
        /\ tmp = {} /\ dead = {} /\ procs = {}
    BY DEF Init
  <2> QED  BY <2>1, <2>2, <2>3 DEF TypeOK
<1>3. Control
  <2>1. Len(Code(N)) = 1 /\ N \in Block
    BY <1>1, ExitCode
  <2>2. at[N] = [k \in 1 .. Len(Code(N)) + 1 |-> {}] /\ in[N] = {}
    BY <2>1 DEF Init
  <2>3. Len(Code(N)) + 1 = 2
    BY <2>1
  <2>4. at[N] = [k \in 1 .. 2 |-> {}]
    BY <2>2, <2>3
  <2>5. pc = "analyse"
    BY DEF Init
  <2> QED  BY <1>1, <2>2, <2>4, <2>5 DEF Control, Sweeping, Finished
<1>4. Sound /\ Solved
  BY DEF Init, Sound, Solved, Fresh, Sweeping, Finished
<1> QED
  BY <1>2, <1>3, <1>4 DEF IInv

\* At EXIT nothing is live.
LEMMA ExitSolved ==
    ASSUME prog \in Programs, in[N] = {}, at[N] = [k \in 1 .. 2 |-> {}],
           NEW p \in Points, p[1] = N
    PROVE  /\ p[2] <= Len(Code(p[1])) => at[p[1]][p[2]] = Step(p, at[p[1]][p[2] + 1])
           /\ p[2] > Len(Code(p[1])) =>
                 at[p[1]][p[2]] = UNION {in[s] : s \in prog.succs[p[1]]}
           /\ p[2] = 1 => in[p[1]] = at[p[1]][1]
           /\ at[p[1]][p[2]] = {}
<1> USE ConstAssumption
<1>1. Len(Code(N)) = 1 /\ prog.succs[N] = {}
  BY ExitCode
<1>3. Use(Code(N)[1]) = {}
  BY ExitCode
<1>4. p[2] \in 1 .. 2 /\ p = << N, p[2] >>
  <2>1. p = << p[1], p[2] >> /\ p[2] \in 1 .. Len(Code(p[1])) + 1
    BY PointType
  <2>2. Len(Code(p[1])) = 1
    BY <1>1
  <2> QED  BY <2>1, <2>2
<1>5. CASE p[2] = 1
  <2>1. At(p) = Code(N)[1]
    BY <1>5 DEF At
  <2> QED  BY SMTT(30), <1>1, <1>3, <1>5, <2>1 DEF Step
<1>6. CASE p[2] = 2
  BY <1>1, <1>6
<1> QED
  BY <1>4, <1>5, <1>6

\* A round begins with empty sets, which are below any solution.
LEMMA AnalyseInv == IInv /\ Analyse => IInv'
<1> SUFFICES ASSUME IInv, Analyse  PROVE IInv'
  OBVIOUS
<1> USE ConstAssumption
<1>1. /\ prog \in Programs /\ pc' = "sweep" /\ i' = N - 1 /\ change' = FALSE
      /\ in' = [b \in Block |-> {}]
      /\ at' = [at EXCEPT ![N] = [k \in 1 .. 2 |-> {}]]
      /\ UNCHANGED <<prog, dead, procs, j, tmp>>
  BY DEF Analyse, StartSweep, IInv, Control
<1>2. N \in Block /\ Len(Code(N)) = 1 /\ DOMAIN at = Block
  BY <1>1, ExitCode DEF IInv, TypeOK
<1>3. in'[N] = {} /\ at'[N] = [k \in 1 .. 2 |-> {}]
  BY <1>1, <1>2
<1>4. TypeOK'
  <2>1. at'[N] \in [1 .. Len(Code(N)) + 1 -> SUBSET Var]
    BY <1>2, <1>3
  <2>2. \A b \in Block : at'[b] \in [1 .. Len(Code(b)) + 1 -> SUBSET Var]
    BY <1>1, <1>2, <2>1 DEF IInv, TypeOK
  <2>3. in' \in [Block -> SUBSET Var]
    BY <1>1
  <2>4. Pos' = Pos /\ \A b : Code(b)' = Code(b)
    BY <1>1 DEF Pos, Code
  <2>5. N - 1 \in 0 .. N
    OBVIOUS
  <2>6. /\ dead \subseteq Pos /\ procs \subseteq Pos /\ tmp \in SUBSET Var
        /\ j \in Nat
    BY DEF IInv, TypeOK
  <2>7. DOMAIN at' = Block
    BY <1>1, <1>2
  <2> QED  BY <1>1, <2>2, <2>3, <2>4, <2>5, <2>6, <2>7 DEF TypeOK
<1>5. Control'
  <2>1. Sweeping' => i' <= N - 1
    BY <1>1
  <2>2. pc' # "translate" /\ ~ Finished'
    BY <1>1 DEF Finished
  <2> QED  BY <1>1, <1>3, <2>1, <2>2 DEF Control
<1>6. ASSUME NEW p \in Points, Fresh(p)'
      PROVE  p[1] = N
  <2>1. p[1] \in Block
    BY <1>1, PointType
  <2> QED  BY <1>1, <1>6, <2>1 DEF Fresh, Sweeping, Finished, Block
<1>7. Points' = Points
  BY <1>1 DEF Points, Code
<1>8. ASSUME NEW p \in Points, Fresh(p)'
      PROVE  /\ p[2] <= Len(Code(p[1])) => at'[p[1]][p[2]] = Step(p, at[p[1]][p[2] + 1])'
             /\ p[2] > Len(Code(p[1])) =>
                   at'[p[1]][p[2]] = UNION {in'[s] : s \in prog.succs[p[1]]}
             /\ p[2] = 1 => in'[p[1]] = at'[p[1]][1]
             /\ at'[p[1]][p[2]] = {}
  <2>1. Len(Code(N)) = 1 /\ prog.succs[N] = {}
    BY <1>1, ExitCode
  <2>3. Use(Code(N)[1]) = {}
    BY <1>1, ExitCode
  <2>4. p[2] \in 1 .. 2 /\ p = << N, p[2] >> /\ p[1] = N
    <3>1. p = << p[1], p[2] >> /\ p[2] \in 1 .. Len(Code(p[1])) + 1 /\ p[1] = N
      BY <1>1, <1>6, <1>8, PointType
    <3>2. Len(Code(p[1])) = 1
      BY <2>1, <3>1
    <3> QED  BY <3>1, <3>2
  <2>5. CASE p[2] = 1
    <3>1. At(p)' = Code(N)[1] /\ Use(At(p))' = {}
      BY <1>1, <2>3, <2>4, <2>5 DEF At, Code
    <3>2. at'[N][1] = {} /\ at'[N][2] = {}
      BY <1>3
    <3>3. Step(p, at[p[1]][p[2] + 1])' = {}
      <4>1. at'[p[1]][p[2] + 1] = {}
        BY <2>4, <2>5, <3>2
      <4> QED  BY <3>1, <4>1 DEF Step
    <3>4. ~ (p[2] > Len(Code(p[1]))) /\ at'[p[1]][1] = {} /\ in'[p[1]] = {}
      BY <1>3, <2>1, <2>4, <2>5, <3>2
    <3> QED  BY <2>5, <3>3, <3>4
  <2>6. CASE p[2] = 2
    BY <1>3, <2>1, <2>4, <2>6
  <2> QED
    <3>1. p[2] = 1 \/ p[2] = 2
      BY <2>4
    <3> QED  BY <3>1, <2>5, <2>6
<1>9. Sound'
  <2>1. \A b \in prog.reach : in'[b] = {}
    BY <1>1, ProgType
  <2> QED  BY <1>1, <1>7, <1>8, <2>1 DEF Sound
<1>10. Solved'
  <2>1. \A p : Len(Code(p[1]))' = Len(Code(p[1]))
    BY <1>1 DEF Code
  <2> QED  BY <1>1, <1>7, <1>8, <2>1 DEF Solved
<1> QED
  BY <1>4, <1>5, <1>9, <1>10 DEF IInv

\* Steps of the loop that touch no set.
LEMMA LoopInv ==
    IInv /\ (AnalyseAborts \/ SkipBlock \/ SweepAgain \/ SweepEnd) => IInv'
<1> SUFFICES ASSUME IInv, AnalyseAborts \/ SkipBlock \/ SweepAgain \/ SweepEnd
             PROVE  IInv'
  OBVIOUS
<1> USE ConstAssumption
<1>1. UNCHANGED <<prog, dead, procs, in, at, j, tmp>> /\ prog \in Programs
  BY DEF AnalyseAborts, SkipBlock, SweepAgain, SweepEnd, IInv, Control
<1>2. /\ Points' = Points /\ Pos' = Pos /\ \A b : Code(b)' = Code(b)
      /\ \A v : LivePoints(v, FALSE)' = LivePoints(v, FALSE)
      /\ \A p, out : Step(p, out)' = Step(p, out)
  BY <1>1, LiveSame
<1>3. /\ i' \in 0 .. N /\ change' \in BOOLEAN /\ pc' # "translate"
      /\ pc' \in {"sweep", "clean", "abort"} /\ (pc' = "clean" => ~ change')
      /\ (pc' # "abort" => pc = "sweep")
      /\ (pc' = "sweep" => i' <= N - 1)
  <2> USE DEF IInv, TypeOK, Control, Sweeping
  <2>1. CASE AnalyseAborts
    BY <2>1 DEF AnalyseAborts
  <2>2. CASE SkipBlock
    BY <2>2 DEF SkipBlock
  <2>3. CASE SweepAgain
    <3>1. i' = N - 1 /\ change' = FALSE /\ pc' = "sweep" /\ pc = "sweep"
      BY <2>3 DEF SweepAgain, StartSweep
    <3>2. N - 1 \in 0 .. N /\ i' <= N - 1
      BY <3>1
    <3> QED  BY <3>1, <3>2
  <2>4. CASE SweepEnd
    BY <2>4 DEF SweepEnd
  <2> QED  BY <2>1, <2>2, <2>3, <2>4
<1>4. TypeOK'
  BY <1>1, <1>2, <1>3 DEF IInv, TypeOK
<1>5. Control'
  BY <1>1, <1>3 DEF IInv, Control, Sweeping, Finished
<1>6. ASSUME NEW p \in Points, Fresh(p)'
      PROVE  Fresh(p) /\ pc = "sweep"
  <2>1. p[1] \in Block /\ p[1] \in prog.reach
    BY <1>1, PointType
  <2>2. i \in 0 .. N
    BY DEF IInv, TypeOK
  <2> USE <1>6, <2>1, <2>2 DEF Fresh, Sweeping, Finished, Block
  <2>3. CASE AnalyseAborts
    BY <2>3 DEF AnalyseAborts
  <2>4. CASE SkipBlock
    BY <2>4 DEF SkipBlock
  <2>5. CASE SweepAgain
    BY <2>5 DEF SweepAgain, StartSweep
  <2>6. CASE SweepEnd
    BY <2>6 DEF SweepEnd
  <2> QED  BY <2>3, <2>4, <2>5, <2>6
<1>7. Sound'
  <2>1. (Sweeping \/ Finished)' => Sweeping
    BY <1>3 DEF Sweeping, Finished
  <2> QED  BY <1>1, <1>2, <1>6, <2>1 DEF IInv, Sound
<1>8. Solved'
  <2> SUFFICES ASSUME NEW p \in Points, Fresh(p)'
      PROVE  /\ p[2] <= Len(Code(p[1])) => at[p[1]][p[2]] = Step(p, at[p[1]][p[2] + 1])
             /\ p[2] > Len(Code(p[1])) /\ ~ change' =>
                   at[p[1]][p[2]] = UNION {in[s] : s \in prog.succs[p[1]]}
             /\ p[2] = 1 => in[p[1]] = at[p[1]][1]
    BY <1>1, <1>2 DEF Solved
  <2>1. Fresh(p) /\ pc = "sweep"
    BY <1>6
  <2>2. p[2] = 1 => in[p[1]] = at[p[1]][1]
    BY <2>1 DEF IInv, Solved, Fresh, Finished, Sweeping
  <2>3. p[2] > Len(Code(p[1])) /\ ~ change' =>
           at[p[1]][p[2]] = UNION {in[s] : s \in prog.succs[p[1]]}
    <3>1. CASE SweepAgain
      <4>1. p[1] = N
        <5>1. p[1] \in Block
          BY <1>1, PointType
        <5> QED  BY <3>1, <5>1, <2>1 DEF SweepAgain, StartSweep, Fresh, Sweeping,
                                         Finished, Block
      <4> QED  BY <1>1, <4>1, ExitSolved DEF IInv, Control
    <3>2. CASE ~ SweepAgain
      <4>1. change' = change
        BY <3>2 DEF AnalyseAborts, SkipBlock, SweepEnd
      <4> QED  BY <2>1, <4>1 DEF IInv, Solved
    <3> QED  BY <3>1, <3>2
  <2> QED  BY <2>1, <2>2, <2>3 DEF IInv, Solved
<1> QED
  BY <1>4, <1>5, <1>7, <1>8 DEF IInv

\* How Solved' is shown within a sweep.
LEMMA SolvedNext ==
    ASSUME UNCHANGED <<prog, dead>>, ~ Finished',
           \A p \in Points : Fresh(p)' =>
               /\ p[2] <= Len(Code(p[1])) => at'[p[1]][p[2]] = Step(p, at'[p[1]][p[2] + 1])
               /\ p[2] > Len(Code(p[1])) /\ ~ change' =>
                     at'[p[1]][p[2]] = UNION {in'[s] : s \in prog.succs[p[1]]}
               /\ p[2] = 1 /\ p[1] > i' => in'[p[1]] = at'[p[1]][1]
    PROVE  Solved'
<1>1. ASSUME NEW p
      PROVE  /\ Step(p, at[p[1]][p[2] + 1])' = Step(p, at'[p[1]][p[2] + 1])
             /\ Len(Code(p[1]))' = Len(Code(p[1]))
  BY DEF Step, At, Code
<1>2. Points' = Points
  BY LiveSame
<1> QED
  BY <1>1, <1>2 DEF Solved

\* The out set of a block: what is live before its successors.
LEMMA EnterInv == IInv /\ EnterBlock => IInv'
<1> SUFFICES ASSUME IInv, EnterBlock  PROVE IInv'
  OBVIOUS
<1> USE ConstAssumption
<1> DEFINE n == Len(Code(i))
<1>1. /\ prog \in Programs /\ pc = "sweep" /\ pc' = "translate"
      /\ i \in prog.reach /\ i >= 1 /\ i <= N - 1 /\ j' = n
      /\ tmp' = UNION {in[s] : s \in prog.succs[i]}
      /\ at' = [at EXCEPT ![i][n + 1] = tmp']
      /\ UNCHANGED <<prog, dead, procs, in, change, i>>
  BY DEF EnterBlock, IInv, Control, Sweeping
<1>2. /\ i \in Block /\ n \in Nat /\ DOMAIN at = Block
      /\ at[i] \in [1 .. n + 1 -> SUBSET Var]
      /\ prog.succs[i] \subseteq prog.reach /\ prog.reach \subseteq Block
  BY <1>1, ProgType DEF IInv, TypeOK, Block
<1>3. /\ Points' = Points /\ Pos' = Pos /\ \A b : Code(b)' = Code(b)
      /\ \A v : LivePoints(v, FALSE)' = LivePoints(v, FALSE)
      /\ \A p, out : Step(p, out)' = Step(p, out)
  BY <1>1, LiveSame
<1>4. tmp' \in SUBSET Var
  BY <1>1, <1>2 DEF IInv, TypeOK
<1> HIDE DEF n
<1>5. /\ at'[i][n + 1] = tmp' /\ at'[i] \in [1 .. n + 1 -> SUBSET Var]
      /\ \A b \in Block \ {i} : at'[b] = at[b]
  BY <1>1, <1>2, <1>4
<1>6. TypeOK'
  <2>1. \A b \in Block : at'[b] \in [1 .. Len(Code(b)) + 1 -> SUBSET Var]
    BY <1>2, <1>5 DEF IInv, TypeOK, n
  <2>2. DOMAIN at' = Block
    BY <1>1, <1>2
  <2>3. j' \in Nat /\ j' <= Len(Code(i))' /\ i' >= 1
    BY <1>1, <1>2, <1>3 DEF n
  <2> QED  BY <1>1, <1>3, <1>4, <2>1, <2>2, <2>3 DEF IInv, TypeOK
<1>7. Control'
  <2>1. N \in Block /\ N # i
    BY <1>1, ExitCode
  <2> QED  BY <1>1, <1>2, <1>5, <2>1 DEF IInv, Control, Sweeping, Finished
<1>8. \* The only new point is the end of the block.
      ASSUME NEW p \in Points, Fresh(p)'
      PROVE  \/ p[1] \in Block \ {i} /\ p[1] > i /\ Fresh(p)
             \/ p = << i, n + 1 >>
  <2>1. /\ p[1] \in Block /\ p = << p[1], p[2] >> /\ p[2] \in 1 .. Len(Code(p[1])) + 1
    BY <1>1, PointType
  <2>2. CASE p[1] > i
    BY <1>1, <1>2, <2>1, <2>2 DEF Fresh, Sweeping, Block
  <2>3. CASE ~ (p[1] > i)
    <3>1. p[1] = i /\ p[2] > n
      BY <1>1, <1>8, <2>3 DEF Fresh, Sweeping, Finished
    <3>2. p[2] \in 1 .. n + 1
      BY <2>1, <3>1 DEF n
    <3> QED  BY <1>2, <2>1, <3>1, <3>2
  <2> QED  BY <2>2, <2>3
<1>9. ASSUME NEW v \in tmp'
      PROVE  << i, n + 1 >> \in LivePoints(v, FALSE)
  <2> DEFINE p == << i, n + 1 >>
  <2>1. PICK s \in prog.succs[i] : v \in in[s]
    BY <1>1
  <2>2. << s, 1 >> \in LivePoints(v, FALSE)
    BY <1>1, <1>2, <2>1 DEF IInv, Sound, Sweeping
  <2>3. p \in Points
    <3>1. n + 1 \in 1 .. Len(Code(i)) + 1
      BY <1>2 DEF n
    <3> QED  BY <1>1, <3>1, PointIntro
  <2>4. ~ Sets(v, p) /\ << s, 1 >> \in After(p)
    BY <1>2, <2>1 DEF Sets, After, n
  <2> QED  BY <2>2, <2>3, <2>4, LiveClosed
<1>10. Sound'
  <2>1. \A b \in prog.reach : \A v \in in[b] : << b, 1 >> \in LivePoints(v, FALSE)
    BY <1>1 DEF IInv, Sound, Sweeping
  <2>2. ASSUME NEW p \in Points, Fresh(p)', NEW v \in at'[p[1]][p[2]]
        PROVE  p \in LivePoints(v, FALSE)
    <3>1. CASE p[1] \in Block \ {i} /\ p[1] > i /\ Fresh(p)
      BY <1>1, <1>5, <2>2, <3>1 DEF IInv, Sound, Sweeping
    <3>2. CASE p = << i, n + 1 >>
      BY <1>5, <1>9, <2>2, <3>2
    <3> QED  BY <1>8, <2>2, <3>1, <3>2
  <2> QED  BY <1>1, <1>3, <2>1, <2>2 DEF Sound
<1>11. ASSUME NEW p \in Points, Fresh(p)'
       PROVE  /\ p[2] <= Len(Code(p[1])) => at'[p[1]][p[2]] = Step(p, at'[p[1]][p[2] + 1])
              /\ p[2] > Len(Code(p[1])) /\ ~ change =>
                    at'[p[1]][p[2]] = UNION {in[s] : s \in prog.succs[p[1]]}
              /\ p[2] = 1 /\ p[1] > i => in[p[1]] = at'[p[1]][1]
  <2>1. CASE p[1] \in Block \ {i} /\ p[1] > i /\ Fresh(p)
    <3>1. at'[p[1]] = at[p[1]]
      BY <1>5, <2>1
    <3> QED  BY <2>1, <3>1 DEF IInv, Solved
  <2>2. CASE p = << i, n + 1 >>
    <3>0. p[1] = i /\ p[2] = n + 1 /\ Len(Code(p[1])) = n
      BY <2>2 DEF n
    <3>1. p[1] = i /\ p[2] = n + 1 /\ ~ (p[2] <= Len(Code(p[1]))) /\ ~ (p[1] > i)
      BY <1>2, <3>0 DEF Block
    <3> QED  BY <1>1, <1>5, <3>1
  <2> QED  BY <1>8, <1>11, <2>1, <2>2
<1>12. Solved'
  <2>1. ~ Finished'
    BY <1>1 DEF Finished
  <2>2. UNCHANGED <<prog, dead>> /\ in' = in /\ change' = change /\ i' = i
    BY <1>1
  <2>3. \A p \in Points : Fresh(p)' =>
          /\ p[2] <= Len(Code(p[1])) => at'[p[1]][p[2]] = Step(p, at'[p[1]][p[2] + 1])
          /\ p[2] > Len(Code(p[1])) /\ ~ change' =>
                at'[p[1]][p[2]] = UNION {in'[s] : s \in prog.succs[p[1]]}
          /\ p[2] = 1 /\ p[1] > i' => in'[p[1]] = at'[p[1]][1]
    BY <1>11, <2>2
  <2> QED  BY <2>1, <2>2, <2>3, SolvedNext
<1> QED
  BY <1>6, <1>7, <1>10, <1>12 DEF IInv

\* translate crosses one instruction.
LEMMA TranslateInv == IInv /\ Translate => IInv'
<1> SUFFICES ASSUME IInv, Translate  PROVE IInv'
  OBVIOUS
<1> USE ConstAssumption
<1> DEFINE n == Len(Code(i))
           q == << i, j >>
<1>1. /\ prog \in Programs /\ pc = "translate" /\ pc' = "translate"
      /\ i \in prog.reach /\ i >= 1 /\ i <= N - 1 /\ j >= 1 /\ j' = j - 1
      /\ tmp = at[i][j + 1] /\ tmp' = Step(q, tmp)
      /\ at' = [at EXCEPT ![i][j] = tmp']
      /\ UNCHANGED <<prog, dead, procs, in, change, i>>
  BY DEF Translate, IInv, Control, Sweeping, TypeOK, Step, At, Code
<1>2. /\ i \in Block /\ n \in Nat /\ DOMAIN at = Block /\ j \in 1 .. n
      /\ at[i] \in [1 .. n + 1 -> SUBSET Var]
  BY <1>1, ProgType DEF IInv, TypeOK, Block
<1>3. /\ Points' = Points /\ Pos' = Pos /\ \A b : Code(b)' = Code(b)
      /\ \A v : LivePoints(v, FALSE)' = LivePoints(v, FALSE)
  BY <1>1, LiveSame
<1>4. tmp' \in SUBSET Var
  <2>1. Code(i)[j] \in Inst
    BY <1>1, <1>2, ProgType
  <2>2. Use(At(q)) \subseteq Var
    BY <2>1, UseDefType DEF At
  <2>3. tmp \subseteq Var
    BY DEF IInv, TypeOK
  <2> QED  BY <1>1, <2>2, <2>3 DEF Step
<1> HIDE DEF n, q
<1>5. /\ at'[i][j] = tmp' /\ at'[i] \in [1 .. n + 1 -> SUBSET Var]
      /\ \A k \in 1 .. n + 1 : k # j => at'[i][k] = at[i][k]
      /\ \A b \in Block \ {i} : at'[b] = at[b]
  BY <1>1, <1>2, <1>4
<1>6. TypeOK'
  <2>1. \A b \in Block : at'[b] \in [1 .. Len(Code(b)) + 1 -> SUBSET Var]
    BY <1>2, <1>5 DEF IInv, TypeOK, n
  <2>2. DOMAIN at' = Block
    BY <1>1, <1>2
  <2>3. j' \in Nat /\ j' <= Len(Code(i))' /\ i' >= 1
    BY <1>1, <1>2, <1>3 DEF n
  <2> QED  BY <1>1, <1>3, <1>4, <2>1, <2>2, <2>3 DEF IInv, TypeOK
<1>7. Control'
  <2>1. N \in Block /\ N # i
    BY <1>1, ExitCode
  <2>2. at'[N] = at[N] /\ j' + 1 = j
    BY <1>1, <1>2, <1>5, <2>1
  <2> QED  BY <1>1, <1>2, <1>5, <2>2 DEF IInv, Control, Sweeping, Finished
<1>8. \* The only new point is the one before the instruction.
      ASSUME NEW p \in Points, Fresh(p)'
      PROVE  \/ p[1] \in Block \ {i} /\ p[1] > i /\ Fresh(p)
             \/ p = << i, p[2] >> /\ p[2] \in j + 1 .. n + 1 /\ Fresh(p)
             \/ p = q
  <2>1. /\ p[1] \in Block /\ p = << p[1], p[2] >> /\ p[2] \in 1 .. Len(Code(p[1])) + 1
    BY <1>1, PointType
  <2>2. CASE p[1] > i
    BY <1>1, <1>2, <2>1, <2>2 DEF Fresh, Sweeping, Block
  <2>3. CASE ~ (p[1] > i)
    <3>1. p[1] = i /\ p[2] > j - 1
      BY <1>1, <1>8, <2>3 DEF Fresh, Sweeping, Finished
    <3>2. p[2] \in 1 .. n + 1 /\ (p[2] = j \/ p[2] > j)
      BY <1>2, <2>1, <3>1 DEF n
    <3>3. CASE p[2] = j
      BY <2>1, <3>1, <3>3 DEF q
    <3>4. CASE p[2] > j
      <4>1. Fresh(p)
        BY <1>1, <3>1, <3>4 DEF Fresh
      <4>2. p[2] \in j + 1 .. n + 1
        BY <1>2, <3>2, <3>4
      <4> QED  BY <2>1, <3>1, <4>1, <4>2
    <3> QED  BY <3>2, <3>3, <3>4
  <2> QED  BY <2>2, <2>3
<1>9. ASSUME NEW v \in tmp'
      PROVE  q \in LivePoints(v, FALSE)
  <2>1. q \in Points
    <3>1. j \in 1 .. Len(Code(i)) + 1
      BY <1>2 DEF n
    <3> QED  BY <1>1, <3>1, PointIntro DEF q
  <2>2. q[1] = i /\ q[2] = j /\ j <= Len(Code(i)) /\ ~ (j > Len(Code(i)))
    BY <1>2 DEF q, n
  <2>3. CASE q \notin dead /\ v \in Use(At(q))
    <3>1. q \in NeedPoints(v, FALSE)
      BY <2>1, <2>2, <2>3 DEF NeedPoints, Needs
    <3> QED  BY <2>1, <3>1, LiveClosed
  <2>4. CASE ~ (q \notin dead /\ v \in Use(At(q)))
    <3> DEFINE r == << i, j + 1 >>
    <3>1. v \in tmp /\ ~ Sets(v, q)
      BY <1>1, <2>4 DEF Step, Sets
    <3>2. r \in Points /\ Fresh(r)
      <4>1. j + 1 \in 1 .. Len(Code(i)) + 1
        BY <1>2 DEF n
      <4> QED  BY <1>1, <1>2, <4>1, PointIntro DEF Fresh
    <3>3. r \in LivePoints(v, FALSE)
      BY <1>1, <3>1, <3>2 DEF IInv, Sound, Sweeping
    <3>4. r \in After(q)
      BY <2>2 DEF After
    <3> QED  BY <2>1, <3>1, <3>3, <3>4, LiveClosed
  <2> QED  BY <2>3, <2>4
<1>10. Sound'
  <2>1. \A b \in prog.reach : \A v \in in[b] : << b, 1 >> \in LivePoints(v, FALSE)
    BY <1>1 DEF IInv, Sound, Sweeping
  <2>2. ASSUME NEW p \in Points, Fresh(p)', NEW v \in at'[p[1]][p[2]]
        PROVE  p \in LivePoints(v, FALSE)
    <3>1. CASE p[1] \in Block \ {i} /\ p[1] > i /\ Fresh(p)
      BY <1>1, <1>5, <2>2, <3>1 DEF IInv, Sound, Sweeping
    <3>2. CASE p = << i, p[2] >> /\ p[2] \in j + 1 .. n + 1 /\ Fresh(p)
      <4>1. p[1] = i /\ p[2] \in 1 .. n + 1 /\ p[2] # j
        BY <1>2, <3>2
      <4>2. at'[i][p[2]] = at[i][p[2]]
        BY <1>5, <4>1
      <4> QED  BY <1>1, <2>2, <3>2, <4>1, <4>2 DEF IInv, Sound, Sweeping
    <3>3. CASE p = q
      BY <1>5, <1>9, <2>2, <3>3 DEF q
    <3> QED  BY <1>8, <2>2, <3>1, <3>2, <3>3
  <2> QED  BY <1>1, <1>3, <2>1, <2>2 DEF Sound
<1>11. ASSUME NEW p \in Points, Fresh(p)'
       PROVE  /\ p[2] <= Len(Code(p[1])) => at'[p[1]][p[2]] = Step(p, at'[p[1]][p[2] + 1])
              /\ p[2] > Len(Code(p[1])) /\ ~ change =>
                    at'[p[1]][p[2]] = UNION {in[s] : s \in prog.succs[p[1]]}
              /\ p[2] = 1 /\ p[1] > i => in[p[1]] = at'[p[1]][1]
  <2>1. CASE p[1] \in Block \ {i} /\ p[1] > i /\ Fresh(p)
    <3>1. at'[p[1]] = at[p[1]]
      BY <1>5, <2>1
    <3> QED  BY <2>1, <3>1 DEF IInv, Solved
  <2>2. CASE p = << i, p[2] >> /\ p[2] \in j + 1 .. n + 1 /\ Fresh(p)
    <3>1. p[1] = i /\ p[2] \in 1 .. n + 1 /\ p[2] # j /\ ~ (p[1] > i)
          /\ Len(Code(p[1])) = n
      BY <1>2, <2>2 DEF Block, n
    <3>2. at'[i][p[2]] = at[i][p[2]]
      BY <1>5, <3>1
    <3>3. p[2] <= n => p[2] + 1 \in 1 .. n + 1 /\ p[2] + 1 # j
      BY <1>2, <2>2, <3>1
    <3>4. p[2] <= n => at'[i][p[2] + 1] = at[i][p[2] + 1]
      BY <1>5, <3>3
    <3> QED  BY <2>2, <3>1, <3>2, <3>4 DEF IInv, Solved
  <2>3. CASE p = q
    <3>1. p[1] = i /\ p[2] = j /\ ~ (p[1] > i) /\ ~ (p[2] > Len(Code(p[1])))
      BY <1>2, <2>3 DEF Block, n, q
    <3>2. at'[i][j + 1] = tmp
      <4>1. j + 1 \in 1 .. n + 1 /\ j + 1 # j
        BY <1>2
      <4> QED  BY <1>1, <1>5, <4>1
    <3> QED  BY <1>1, <1>5, <2>3, <3>1, <3>2
  <2> QED  BY <1>8, <1>11, <2>1, <2>2, <2>3
<1>12. Solved'
  <2>1. ~ Finished'
    BY <1>1 DEF Finished
  <2> QED  BY <1>1, <1>11, <2>1, SolvedNext
<1> QED
  BY <1>6, <1>7, <1>10, <1>12 DEF IInv

\* The in set of the block is stored.
LEMMA LeaveInv == IInv /\ LeaveBlock => IInv'
<1> SUFFICES ASSUME IInv, LeaveBlock  PROVE IInv'
  OBVIOUS
<1> USE ConstAssumption
<1>1. /\ prog \in Programs /\ pc = "translate" /\ pc' = "sweep"
      /\ i \in prog.reach /\ i >= 1 /\ i <= N - 1 /\ j = 0 /\ tmp = at[i][1]
      /\ i' = i - 1 /\ in' = [in EXCEPT ![i] = tmp]
      /\ change' = (change \/ tmp # in[i])
      /\ UNCHANGED <<prog, dead, procs, at, j, tmp>>
  BY DEF LeaveBlock, IInv, Control, Sweeping, TypeOK
<1>2. /\ i \in Block /\ N \in Block /\ N # i /\ in \in [Block -> SUBSET Var]
      /\ tmp \in SUBSET Var /\ change \in BOOLEAN /\ i \in 0 .. N
  BY <1>1, ExitCode DEF IInv, TypeOK, Block
<1>3. /\ Points' = Points /\ Pos' = Pos /\ \A b : Code(b)' = Code(b)
      /\ \A v : LivePoints(v, FALSE)' = LivePoints(v, FALSE)
      /\ \A p, out : Step(p, out)' = Step(p, out)
  BY <1>1, LiveSame
<1>4. in'[i] = tmp /\ \A b \in Block \ {i} : in'[b] = in[b]
  BY <1>1, <1>2
<1>5. ~ change' => in' = in /\ ~ change
  BY <1>1, <1>2
<1>6. TypeOK'
  <2>1. in' \in [Block -> SUBSET Var]
    BY <1>1, <1>2
  <2>2. change' \in BOOLEAN
    BY <1>1, <1>2
  <2>3. i' \in 0 .. N
    BY <1>1, <1>2
  <2> QED  BY <1>1, <1>3, <2>1, <2>2, <2>3 DEF IInv, TypeOK
<1>7. Control'
  <2>1. i' <= N - 1
    BY <1>1, <1>2
  <2> QED  BY <1>1, <1>2, <1>4, <2>1 DEF IInv, Control, Sweeping, Finished
<1>8. ASSUME NEW p \in Points, Fresh(p)'
      PROVE  Fresh(p) /\ p[1] \in Block /\ (p[1] > i \/ p[1] = i)
  <2>1. p[1] \in Block /\ p[2] \in 1 .. Len(Code(p[1])) + 1 /\ Len(Code(p[1])) \in Nat
    BY <1>1, PointType
  <2>2. p[1] > i - 1
    BY <1>1, <1>8 DEF Fresh, Sweeping, Finished
  <2>3. p[1] > i \/ p[1] = i
    BY <1>2, <2>1, <2>2 DEF Block
  <2> QED  BY <1>1, <2>1, <2>3 DEF Fresh, Sweeping
<1>9. Sound'
  <2>1. ASSUME NEW b \in prog.reach, NEW v \in in'[b]
        PROVE  << b, 1 >> \in LivePoints(v, FALSE)
    <3>1. CASE b = i
      <4> DEFINE p == << i, 1 >>
      <4>1. 1 \in 1 .. Len(Code(i)) + 1
        BY <1>1, <1>2, ProgType
      <4>2. p \in Points /\ p[1] = i /\ p[2] = 1
        BY <1>1, <4>1, PointIntro
      <4>3. Fresh(p)
        BY <1>1, <4>2 DEF Fresh
      <4> QED  BY <1>1, <1>4, <2>1, <3>1, <4>2, <4>3 DEF IInv, Sound, Sweeping
    <3>2. CASE b # i
      <4>1. b \in Block
        BY <1>1, ProgType
      <4> QED  BY <1>1, <1>4, <2>1, <3>2, <4>1 DEF IInv, Sound, Sweeping
    <3> QED  BY <3>1, <3>2
  <2>2. ASSUME NEW p \in Points, Fresh(p)', NEW v \in at[p[1]][p[2]]
        PROVE  p \in LivePoints(v, FALSE)
    BY <1>1, <1>8, <2>2 DEF IInv, Sound, Sweeping
  <2> QED  BY <1>1, <1>3, <2>1, <2>2 DEF Sound
<1>10. Solved'
  <2>1. ASSUME NEW p \in Points, Fresh(p)'
        PROVE  /\ p[2] <= Len(Code(p[1])) => at[p[1]][p[2]] = Step(p, at[p[1]][p[2] + 1])
               /\ p[2] > Len(Code(p[1])) /\ ~ change' =>
                     at[p[1]][p[2]] = UNION {in'[s] : s \in prog.succs[p[1]]}
               /\ p[2] = 1 => in'[p[1]] = at[p[1]][1]
    <3>1. Fresh(p) /\ p[1] \in Block /\ (p[1] > i \/ p[1] = i)
      BY <1>8, <2>1
    <3>2. p[2] <= Len(Code(p[1])) => at[p[1]][p[2]] = Step(p, at[p[1]][p[2] + 1])
      BY <3>1 DEF IInv, Solved
    <3>3. p[2] > Len(Code(p[1])) /\ ~ change' =>
             at[p[1]][p[2]] = UNION {in'[s] : s \in prog.succs[p[1]]}
      BY <1>5, <3>1 DEF IInv, Solved
    <3>4. p[2] = 1 => in'[p[1]] = at[p[1]][1]
      <4>1. CASE p[1] = i
        BY <1>1, <1>4, <4>1
      <4>2. CASE p[1] # i
        <5>1. p[1] > i
          BY <3>1, <4>2
        <5> QED  BY <1>4, <3>1, <4>2, <5>1 DEF IInv, Solved
      <4> QED  BY <4>1, <4>2
    <3> QED  BY <3>2, <3>3, <3>4
  <2>2. \A p : Len(Code(p[1]))' = Len(Code(p[1]))
    BY <1>3
  <2> QED  BY <1>1, <1>3, <2>1, <2>2 DEF Solved
<1> QED
  BY <1>6, <1>7, <1>9, <1>10 DEF IInv

\* What is solved stays so when no set changes.
LEMMA SolvedKept ==
    ASSUME Solved, UNCHANGED <<prog, in, at, change, i>>, Finished' => Finished,
           \A p : Fresh(p)' => Fresh(p),
           \A p : Step(p, at[p[1]][p[2] + 1])' = Step(p, at[p[1]][p[2] + 1])
    PROVE  Solved'
<1>1. Points' = Points /\ \A p : Len(Code(p[1]))' = Len(Code(p[1]))
  BY DEF Points, Code
<1>2. ASSUME NEW p \in Points, Fresh(p)'
      PROVE  /\ p[2] <= Len(Code(p[1])) => at[p[1]][p[2]] = Step(p, at[p[1]][p[2] + 1])
             /\ p[2] > Len(Code(p[1])) /\ ~ change =>
                   at[p[1]][p[2]] = UNION {in[s] : s \in prog.succs[p[1]]}
             /\ p[2] = 1 /\ (Finished' \/ p[1] > i) => in[p[1]] = at[p[1]][1]
  BY <1>2 DEF Solved
<1>3. in' = in /\ at' = at /\ change' = change /\ i' = i /\ prog' = prog
  OBVIOUS
<1> SUFFICES ASSUME NEW p \in Points', Fresh(p)'
             PROVE  /\ p[2] <= Len(Code(p[1]))' =>
                          at'[p[1]][p[2]] = Step(p, at[p[1]][p[2] + 1])'
                    /\ p[2] > Len(Code(p[1]))' /\ ~ change' =>
                          at'[p[1]][p[2]] = UNION {in'[s] : s \in prog'.succs[p[1]]}
                    /\ p[2] = 1 /\ (Finished' \/ p[1] > i') => in'[p[1]] = at'[p[1]][1]
  BY DEF Solved
<1>4. p \in Points /\ Fresh(p) /\ Fresh(p)'
  BY <1>1
<1>5. p[2] <= Len(Code(p[1]))' => at'[p[1]][p[2]] = Step(p, at[p[1]][p[2] + 1])'
  <2>1. Step(p, at[p[1]][p[2] + 1])' = Step(p, at[p[1]][p[2] + 1])
    OBVIOUS
  <2>2. Len(Code(p[1]))' = Len(Code(p[1]))
    BY <1>1
  <2> QED  BY <1>2, <1>3, <1>4, <2>1, <2>2
<1>6. p[2] > Len(Code(p[1]))' /\ ~ change' =>
         at'[p[1]][p[2]] = UNION {in'[s] : s \in prog'.succs[p[1]]}
  <2> SUFFICES ASSUME p[2] > Len(Code(p[1]))', ~ change'
               PROVE  at'[p[1]][p[2]] = UNION {in'[s] : s \in prog'.succs[p[1]]}
    OBVIOUS
  <2>1. p[2] > Len(Code(p[1])) /\ ~ change
    BY <1>1, <1>3
  <2>2. at[p[1]][p[2]] = UNION {in[s] : s \in prog.succs[p[1]]}
    BY <1>2, <1>4, <2>1
  <2>3. UNION {in'[s] : s \in prog'.succs[p[1]]} = UNION {in[s] : s \in prog.succs[p[1]]}
    BY <1>3
  <2> QED  BY <1>3, <2>2, <2>3
<1>7. p[2] = 1 /\ (Finished' \/ p[1] > i') => in'[p[1]] = at'[p[1]][1]
  BY <1>2, <1>3, <1>4
<1> QED
  BY <1>5, <1>6, <1>7

\* Dead code is marked; if there was none, the solution stands.
LEMMA CleanInv == IInv /\ Clean => IInv'
<1> SUFFICES ASSUME IInv, Clean  PROVE IInv'
  OBVIOUS
<1>1. /\ pc = "clean" /\ UNCHANGED <<prog, in, at, change, i, j, tmp>>
      /\ dead' = dead \cup Useless /\ Useless \subseteq Pos
      /\ procs' \subseteq Pos /\ procs \subseteq Pos /\ dead \subseteq Pos
      /\ pc' = IF Useless = {} THEN "prune" ELSE "analyse"
  BY DEF Clean, IInv, TypeOK, Useless
<1>2. Pos' = Pos /\ Points' = Points /\ \A b : Code(b)' = Code(b)
  BY <1>1 DEF Pos, Points, Code
<1>3. TypeOK'
  BY <1>1, <1>2 DEF IInv, TypeOK
<1>4. Control'
  BY <1>1 DEF IInv, Control, Sweeping, Finished
<1>5. Sound' /\ Solved'
  <2>1. CASE Useless = {}
    <3>1. UNCHANGED <<prog, dead>> /\ pc' = "prune"
      BY <1>1, <2>1
    <3>2. /\ \A v : LivePoints(v, FALSE)' = LivePoints(v, FALSE)
          /\ \A p, out : Step(p, out)' = Step(p, out)
      BY <3>1, LiveSame
    <3>3. /\ \A p : Fresh(p) /\ Fresh(p)'
          /\ Finished /\ Finished'
      BY <1>1, <3>1 DEF Fresh, Finished
    <3>4. Sound'
      BY <1>1, <1>2, <3>1, <3>2, <3>3 DEF IInv, Sound
    <3>5. ASSUME NEW p
          PROVE  /\ Step(p, at[p[1]][p[2] + 1])' = Step(p, at[p[1]][p[2] + 1])
                 /\ Len(Code(p[1]))' = Len(Code(p[1]))
      BY <1>1, <3>1 DEF Step, At, Code
    <3>6. Solved'
      BY <1>1, <3>3, <3>5, SolvedKept DEF IInv
    <3> QED  BY <3>4, <3>6
  <2>2. CASE Useless # {}
    <3>1. pc' = "analyse"
      BY <1>1, <2>2
    <3> QED  BY <3>1 DEF Sound, Solved, Fresh, Sweeping, Finished
  <2> QED  BY <2>1, <2>2
<1> QED
  BY <1>3, <1>4, <1>5 DEF IInv

\* Removing declarations, which use and set nothing, makes nothing live or dead.
LEMMA PruneInv == IInv /\ Prune => IInv'
<1> SUFFICES ASSUME IInv, Prune  PROVE IInv'
  OBVIOUS
<1>1. /\ pc = "prune" /\ pc' = "done" /\ prog \in Programs
      /\ UNCHANGED <<prog, procs, in, at, change, i, j, tmp>>
      /\ dead \subseteq Pos /\ dead \subseteq dead'
      /\ \A p \in dead' \ dead : p \in Pos /\ At(p).op = "dec"
  BY DEF Prune, IInv, TypeOK, Control
<1>2. Pos' = Pos /\ Points' = Points /\ \A b : Code(b)' = Code(b)
  BY <1>1 DEF Pos, Points, Code
<1>3. TypeOK'
  BY <1>1, <1>2 DEF IInv, TypeOK
<1>4. Control'
  BY <1>1 DEF IInv, Control, Sweeping, Finished
<1>5. ASSUME NEW p \in dead' \ dead
      PROVE  Use(At(p)) = {} /\ Def(At(p)) = {}
  <2>1. PICK b \in prog.reach : \E k \in DOMAIN Code(b) : p = << b, k >>
    BY <1>1, <1>5 DEF Pos
  <2>2. PICK k \in DOMAIN Code(b) : p = << b, k >>
    BY <2>1
  <2>3. Code(b)[k] \in Inst
    <3>1. b \in Block /\ Code(b) \in Seq(Inst)
      BY <1>1, ProgType DEF Code
    <3> HIDE DEF Inst
    <3> QED  BY <2>2, <3>1
  <2>4. At(p) \in Inst /\ At(p).op = "dec"
    BY <1>1, <1>5, <2>2, <2>3 DEF At
  <2> QED  BY <2>4, UseDefType
<1>6. ASSUME NEW p
      PROVE  /\ At(p)' = At(p) /\ After(p)' = After(p)
             /\ Len(Code(p[1]))' = Len(Code(p[1]))
             /\ Step(p, at[p[1]][p[2] + 1])' = Step(p, at[p[1]][p[2] + 1])
  <2>1. At(p)' = At(p) /\ After(p)' = After(p)
        /\ Len(Code(p[1]))' = Len(Code(p[1]))
    BY <1>1 DEF At, After, Code
  <2>2. p \notin dead' \ dead => (p \in dead' <=> p \in dead)
    BY <1>1
  <2>3. CASE p \in dead' \ dead
    BY <1>1, <1>5, <2>1, <2>3 DEF Step
  <2>4. CASE p \notin dead' \ dead
    BY <1>1, <2>1, <2>2, <2>4 DEF Step
  <2> QED  BY <2>1, <2>3, <2>4
<1>7. ASSUME NEW v  PROVE LivePoints(v, FALSE)' = LivePoints(v, FALSE)
  <2>1. NeedPoints(v, FALSE)' = NeedPoints(v, FALSE)
    BY <1>1, <1>2, <1>5, <1>6 DEF NeedPoints, Needs
  <2>2. \A p : Sets(v, p)' <=> Sets(v, p)
    BY <1>1, <1>5, <1>6 DEF Sets
  <2>3. \A p, set : (After(p) \cap set = {})' <=> (After(p) \cap set = {})
    BY <1>6
  <2>4. LiveSets(v, FALSE)' = LiveSets(v, FALSE)
    BY <1>2, <1>6, <2>1, <2>2 DEF LiveSets
  <2> QED  BY <1>2, <2>4 DEF LivePoints
<1>8. /\ \A p : Fresh(p) /\ Fresh(p)'
      /\ Finished /\ Finished'
  BY <1>1 DEF Fresh, Finished
<1>9. Sound'
  BY <1>1, <1>2, <1>7, <1>8 DEF IInv, Sound
<1>10. Solved'
  BY <1>1, <1>6, <1>8, SolvedKept DEF IInv
<1> QED
  BY <1>3, <1>4, <1>9, <1>10 DEF IInv

\* A step that changes nothing.
LEMMA StutterInv == IInv /\ UNCHANGED vars => IInv'
<1> SUFFICES ASSUME IInv, UNCHANGED vars  PROVE IInv'
  OBVIOUS
<1>1. UNCHANGED <<prog, dead, procs, in, at, change, i, j, tmp, pc>>
  BY DEF vars
<1>2. /\ Points' = Points /\ Pos' = Pos /\ \A b : Code(b)' = Code(b)
      /\ \A v : LivePoints(v, FALSE)' = LivePoints(v, FALSE)
      /\ \A p, out : Step(p, out)' = Step(p, out)
  BY <1>1, LiveSame
<1>3. \A p : Fresh(p)' <=> Fresh(p)
  BY <1>1 DEF Fresh, Sweeping, Finished
<1>4. TypeOK' /\ Control'
  BY <1>1, <1>2 DEF IInv, TypeOK, Control, Sweeping, Finished
<1>5. Sound'
  BY <1>1, <1>2, <1>3 DEF IInv, Sound, Sweeping, Finished
<1>6. ASSUME NEW p
      PROVE  /\ Step(p, at[p[1]][p[2] + 1])' = Step(p, at[p[1]][p[2] + 1])
             /\ Len(Code(p[1]))' = Len(Code(p[1]))
  BY <1>1 DEF Step, At, Code
<1>7. Finished' => Finished
  BY <1>1 DEF Finished
<1>8. Solved'
  BY <1>1, <1>3, <1>6, <1>7, SolvedKept DEF IInv
<1> QED
  BY <1>4, <1>5, <1>8 DEF IInv

\* Every step keeps the invariant.
LEMMA NextInv == IInv /\ [Next]_vars => IInv'
BY AnalyseInv, LoopInv, EnterInv, TranslateInv, LeaveInv, CleanInv, PruneInv,
   StutterInv DEF Next, Done

-----------------------------------------------------------------------------
(* What is removed *)

\* What a removed instruction would have set is not live after it: not in the
\* sets, which an analysis empties and fills again, but in the code.
Removed ==
    \A v :
        /\ \A p \in dead : At(p).res = v =>
              \/ At(p).op = "dec" \/ SelfCopy(p)
              \/ << p[1], p[2] + 1 >> \notin LivePoints(v, FALSE)
        /\ \A p \in procs : At(p).res = v =>
              << p[1], p[2] + 1 >> \notin LivePoints(v, FALSE)

\* A position has a block, an index, an instruction, and the point after it.
LEMMA PosType ==
    ASSUME prog \in Programs, NEW p \in Pos
    PROVE  /\ p \in Points /\ << p[1], p[2] + 1 >> \in Points
           /\ At(p) \in Inst /\ p[2] <= Len(Code(p[1])) /\ p[2] \in Nat
           /\ After(p) = {<< p[1], p[2] + 1 >>}
<1>1. PICK b \in prog.reach : \E k \in DOMAIN Code(b) : p = << b, k >>
  BY DEF Pos
<1>2. PICK k \in DOMAIN Code(b) : p = << b, k >>
  BY <1>1
<1>3. b \in Block /\ Len(Code(b)) \in Nat /\ Code(b) \in Seq(Inst)
  BY ProgType DEF Code
<1>4. k \in 1 .. Len(Code(b)) /\ Code(b)[k] \in Inst
  <2> HIDE DEF Inst
  <2> QED  BY <1>3
<1>5. k \in 1 .. Len(Code(b)) + 1 /\ k + 1 \in 1 .. Len(Code(b)) + 1
  BY <1>3, <1>4
<1>6. p[1] = b /\ p[2] = k
  BY <1>2
<1>7. ~ (p[2] > Len(Code(p[1])))
  BY <1>3, <1>4, <1>6
<1> QED
  BY <1>2, <1>3, <1>4, <1>5, <1>6, <1>7, PointIntro DEF At, After

\* What is not a variable is live nowhere.
LEMMA OnlyVarsLive ==
    ASSUME prog \in Programs, dead \subseteq Pos, NEW v, v \notin Var
    PROVE  LivePoints(v, FALSE) = {}
<1>1. NeedPoints(v, FALSE) = {}
  <2> SUFFICES ASSUME NEW p \in NeedPoints(v, FALSE)  PROVE FALSE
    OBVIOUS
  <2>1. p \in Points /\ p[2] <= Len(Code(p[1])) /\ v \in Use(At(p))
    BY DEF NeedPoints, Needs
  <2>2. p[1] \in Block /\ p[2] \in 1 .. Len(Code(p[1])) + 1 /\ Len(Code(p[1])) \in Nat
    BY <2>1, PointType
  <2>3. At(p) \in Inst
    BY <2>1, <2>2, ProgType DEF At
  <2> QED  BY <2>1, <2>3, UseDefType
<1>2. LivePoints(v, FALSE) \subseteq {}
  BY <1>1, LiveLeast
<1> QED
  BY <1>2

\* At the end of an analysis a variable that is not in the set is not live.
LEMMA OutIsLive ==
    ASSUME IInv, Analysed, NEW p \in Pos, NEW v
    PROVE  v \in Out(p) <=> << p[1], p[2] + 1 >> \in LivePoints(v, FALSE)
<1>1. prog \in Programs /\ dead \subseteq Pos /\ LiveExact
  BY ExactAtEnd DEF IInv, Control, TypeOK, Finished, Analysed
<1>2. << p[1], p[2] + 1 >> \in Points
  BY <1>1, PosType
<1>3. CASE v \in Var
  <2>1. {q \in Points : v \in at[q[1]][q[2]]} = LivePoints(v, FALSE)
    BY <1>1, <1>3 DEF LiveExact
  <2> QED  BY <1>2, <2>1 DEF Out
<1>4. CASE v \notin Var
  <2>1. LivePoints(v, FALSE) = {}
    BY <1>1, <1>4, OnlyVarsLive
  <2>2. Out(p) \in SUBSET Var
    <3>1. p[1] \in Block /\ p[2] + 1 \in 1 .. Len(Code(p[1])) + 1
      BY <1>1, <1>2, PointType
    <3>2. at[p[1]] \in [1 .. Len(Code(p[1])) + 1 -> SUBSET Var]
      BY <3>1 DEF IInv, TypeOK
    <3> QED  BY <3>1, <3>2 DEF Out
  <2> QED  BY <1>4, <2>1, <2>2
<1> QED
  BY <1>3, <1>4

\* Taking instructions away makes nothing live, if what they set is not live
\* after them.
LEMMA LiveShrinks ==
    ASSUME prog \in Programs, prog' = prog, dead \subseteq dead', dead' \subseteq Pos,
           NEW v,
           \A p \in dead' \ dead :
              v \in Def(At(p)) => << p[1], p[2] + 1 >> \notin LivePoints(v, FALSE)
    PROVE  LivePoints(v, FALSE)' \subseteq LivePoints(v, FALSE)
<1> DEFINE set == LivePoints(v, FALSE)
<1>1. /\ Points' = Points /\ \A p : At(p)' = At(p) /\ After(p)' = After(p)
      /\ \A p : Len(Code(p[1]))' = Len(Code(p[1]))
  BY DEF Points, At, After, Code
<1>2. set \in SUBSET Points
  BY DEF LivePoints
<1>3. NeedPoints(v, FALSE)' \subseteq set
  <2> SUFFICES ASSUME NEW p \in NeedPoints(v, FALSE)'  PROVE p \in set
    OBVIOUS
  <2>1. /\ p \in Points' /\ p[2] <= Len(Code(p[1]))' /\ p \notin dead'
        /\ v \in Use(At(p)')
    BY DEF NeedPoints, Needs
  <2>2. p \in NeedPoints(v, FALSE)
    BY <1>1, <2>1 DEF NeedPoints, Needs
  <2> QED  BY <1>1, <2>1, <2>2, LiveClosed
<1>4. ASSUME NEW p \in Points \ set, ~ Sets(v, p)'
      PROVE  After(p) \cap set = {}
  <2>1. CASE Sets(v, p)
    <3>1. p \in dead' \ dead /\ v \in Def(At(p))
      BY <1>1, <1>4, <2>1 DEF Sets
    <3>2. After(p) = {<< p[1], p[2] + 1 >>}
      BY <3>1, PosType
    <3> QED  BY <3>1, <3>2
  <2>2. CASE ~ Sets(v, p)
    BY <2>2, LiveClosed
  <2> QED  BY <2>1, <2>2
<1>5. set = NeedPoints(v, FALSE)' \cup (set \ NeedPoints(v, FALSE)')
  BY <1>3
<1>6. set \ NeedPoints(v, FALSE)' \in SUBSET (Points' \ NeedPoints(v, FALSE)')
  BY <1>1, <1>2
<1>7. set \in LiveSets(v, FALSE)'
  <2> HIDE DEF set
  <2>1. \A p \in Points' \ set : Sets(v, p)' \/ After(p)' \cap set = {}
    BY <1>1, <1>4
  <2> QED  BY <1>5, <1>6, <2>1 DEF LiveSets
<1> QED
  <2> HIDE DEF set
  <2>1. LivePoints(v, FALSE)' \subseteq set
    BY <1>7 DEF LivePoints
  <2> QED  BY <2>1 DEF set

\* What was not live after its position before a pass is not afterwards.
LEMMA RemovedKept ==
    ASSUME prog \in Programs, prog' = prog, dead \subseteq dead', dead' \subseteq Pos,
           Removed, procs \subseteq procs',
           \A v : LivePoints(v, FALSE)' \subseteq LivePoints(v, FALSE),
           \A p \in dead' \ dead :
              \/ At(p).op = "dec" \/ SelfCopy(p)
              \/ << p[1], p[2] + 1 >> \notin LivePoints(At(p).res, FALSE),
           \A p \in procs' \ procs :
              << p[1], p[2] + 1 >> \notin LivePoints(At(p).res, FALSE)
    PROVE  Removed'
<1>1. \A p : At(p)' = At(p) /\ SelfCopy(p)' = SelfCopy(p)
  BY DEF At, Code, SelfCopy
<1>2. SUFFICES ASSUME NEW v
      PROVE  /\ \A p \in dead' : At(p).res = v =>
                   \/ At(p).op = "dec" \/ SelfCopy(p)
                   \/ << p[1], p[2] + 1 >> \notin LivePoints(v, FALSE)
             /\ \A p \in procs' : At(p).res = v =>
                   << p[1], p[2] + 1 >> \notin LivePoints(v, FALSE)
  BY <1>1 DEF Removed
<1> QED
  BY DEF Removed

\* Nothing has been removed yet.
LEMMA InitRemoved == Init => Removed
BY DEF Init, Removed

\* A pass takes away assignments and results that are not live: what is live
\* shrinks, and the results that were taken away before stay outside.
LEMMA CleanRemoved == IInv /\ Removed /\ Clean => Removed'
<1> SUFFICES ASSUME IInv, Removed, Clean  PROVE Removed'
  OBVIOUS
<1>1. /\ pc = "clean" /\ prog' = prog /\ prog \in Programs
      /\ dead' = dead \cup Useless /\ dead \subseteq Pos /\ Useless \subseteq Pos
      /\ procs' = procs \cup {p \in Pos : At(p).op = "call" /\ At(p).res \notin Out(p)}
  BY DEF Clean, IInv, Control, TypeOK, Useless
<1>2. ASSUME NEW p \in Pos, NEW v
      PROVE  v \in Out(p) <=> << p[1], p[2] + 1 >> \in LivePoints(v, FALSE)
  BY <1>1, OutIsLive DEF Analysed
<1>3. ASSUME NEW p \in dead' \ dead
      PROVE  /\ p \in Pos /\ At(p).op \in {"as", "expr", "get"}
             /\ At(p).res \notin Out(p) \/ SelfCopy(p)
  BY <1>1, <1>3 DEF Useless, SelfCopy
<1>4. ASSUME NEW v, NEW p \in dead' \ dead, v \in Def(At(p))
      PROVE  << p[1], p[2] + 1 >> \notin LivePoints(v, FALSE)
  <2>1. v = At(p).res /\ v # At(p).arg1
    <3>1. At(p).op \in {"as", "expr", "get"}
      BY <1>3, <1>4
    <3> QED  BY <1>4, <3>1 DEF Def
  <2> QED  BY <1>2, <1>3, <2>1 DEF SelfCopy
<1>5. \A v : LivePoints(v, FALSE)' \subseteq LivePoints(v, FALSE)
  BY <1>1, <1>4, LiveShrinks
<1>6. \A p \in procs' \ procs :
         << p[1], p[2] + 1 >> \notin LivePoints(At(p).res, FALSE)
  BY <1>1, <1>2
<1>7. \A p \in dead' \ dead :
         SelfCopy(p) \/ << p[1], p[2] + 1 >> \notin LivePoints(At(p).res, FALSE)
  BY <1>2, <1>3
<1> QED
  BY <1>1, <1>5, <1>6, <1>7, RemovedKept

\* The last pass takes away declarations only.
LEMMA PruneRemoved == IInv /\ Removed /\ Prune => Removed'
<1> SUFFICES ASSUME IInv, Removed, Prune  PROVE Removed'
  OBVIOUS
<1>1. /\ prog' = prog /\ prog \in Programs /\ procs' = procs
      /\ dead \subseteq dead' /\ dead' \subseteq Pos
      /\ \A p \in dead' \ dead : p \in Pos /\ At(p).op = "dec"
  BY DEF Prune, IInv, Control, TypeOK
<1>2. \A p \in dead' \ dead : Def(At(p)) = {}
  BY <1>1, PosType, UseDefType
<1>3. \A v : LivePoints(v, FALSE)' \subseteq LivePoints(v, FALSE)
  BY <1>1, <1>2, LiveShrinks
<1> QED
  BY <1>1, <1>3, RemovedKept

\* Every step keeps it; the analysis removes nothing.
LEMMA NextRemoved == IInv /\ Removed /\ [Next]_vars => Removed'
<1> SUFFICES ASSUME IInv, Removed, [Next]_vars  PROVE Removed'
  OBVIOUS
<1>1. CASE Clean
  BY <1>1, CleanRemoved
<1>2. CASE Prune
  BY <1>2, PruneRemoved
<1>3. CASE ~ Clean /\ ~ Prune
  <2>1. UNCHANGED <<prog, dead, procs>>
    BY <1>3 DEF Next, Analyse, AnalyseAborts, SkipBlock, EnterBlock, Translate,
                LeaveBlock, SweepAgain, SweepEnd, Done, vars
  <2>2. /\ prog \in Programs /\ dead' \subseteq Pos
        /\ \A v : LivePoints(v, FALSE)' \subseteq LivePoints(v, FALSE)
    BY <2>1, LiveSame DEF IInv, Control, TypeOK
  <2> QED  BY <2>1, <2>2, RemovedKept
<1> QED
  BY <1>1, <1>2, <1>3

\* A variable that is used wherever it is read is live just where the analysis
\* takes it to be live.
LEMMA SeenLive ==
    ASSUME prog \in Programs, NEW v, v \notin Unseen
    PROVE  LivePoints(v, TRUE) = LivePoints(v, FALSE)
<1>1. ASSUME NEW p \in Points, p[2] <= Len(Code(p[1]))
      PROVE  v \in Needs(At(p), TRUE) <=> v \in Needs(At(p), FALSE)
  <2>1. p \in Pos /\ At(p) \in Inst
    <3>1. /\ p = << p[1], p[2] >> /\ p[1] \in prog.reach /\ p[1] \in Block
          /\ Len(Code(p[1])) \in Nat /\ p[2] \in 1 .. Len(Code(p[1])) + 1
      BY PointType
    <3>2. p[2] \in 1 .. Len(Code(p[1]))
      BY <1>1, <3>1
    <3>3. Code(p[1]) \in Seq(Inst)
      <4> HIDE DEF Inst
      <4> QED  BY <3>1, ProgType DEF Code
    <3>4. p[2] \in DOMAIN Code(p[1])
      <4> HIDE DEF Inst
      <4> QED  BY <3>2, <3>3
    <3>5. p \in Pos
      BY <3>1, <3>4 DEF Pos
    <3> QED  BY <3>5, PosType
  <2>2. Use(At(p)) \subseteq Reads(At(p))
    BY <2>1 DEF Use, Reads
  <2>3. v \in Reads(At(p)) => v \in Use(At(p))
    BY <2>1 DEF Unseen
  <2> QED  BY <2>2, <2>3 DEF Needs
<1>2. NeedPoints(v, TRUE) = NeedPoints(v, FALSE)
  BY <1>1 DEF NeedPoints
<1>3. LiveSets(v, TRUE) = LiveSets(v, FALSE)
  BY <1>2 DEF LiveSets
<1> QED
  BY <1>3 DEF LivePoints

-----------------------------------------------------------------------------
(* Theorems *)

\* The inductive invariant holds in every reachable state.
THEOREM Invariance == Spec => []IInv
BY InitInv, NextInv, PTL DEF Spec

LEMMA RemovedAlways == Spec => []Removed
BY InitRemoved, NextRemoved, Invariance, PTL DEF Spec

\* The sets only ever hold tracked variables, at the points of the function,
\* and the indices of the loops stay inside it.
THEOREM TypeCorrect == Spec => []TypeOK
<1>1. IInv => TypeOK
  BY DEF IInv
<1> QED
  BY <1>1, Invariance, PTL

\* For every function, whatever its control flow: once LiveVar::analyse has
\* returned, the variables at every point are exactly those live there in the
\* code that elimateDeadCode has left.
THEOREM AnalysisExact == Spec => []LiveExact
<1>1. IInv => LiveExact
  <2>1. CASE Finished
    BY <2>1, ExactAtEnd
  <2>2. CASE ~ Finished
    BY <2>2 DEF Finished, LiveExact, Analysed
  <2> QED  BY <2>1, <2>2
<1> QED
  BY <1>1, Invariance, PTL

\* For every function: however many rounds elimateDeadCode takes, no later one
\* makes a result live again that an earlier one removed, or whose call it
\* turned into a PROC. Live is what the sets of the analysis say: they miss the
\* pointer of a store (livevar.cpp:59), of which the next theorem speaks.
THEOREM RemovedForGood == Spec => []RemovedStaysUnused
<1>1. Spec => []Removed
  BY RemovedAlways
<1>2. IInv /\ Removed => RemovedStaysUnused
  <2> SUFFICES ASSUME IInv, Removed, Analysed
               PROVE  /\ \A p \in dead : \/ At(p).op = "dec" \/ SelfCopy(p)
                                         \/ At(p).res \notin Out(p)
                      /\ \A p \in procs : At(p).res \notin Out(p)
    BY DEF RemovedStaysUnused
  <2>1. dead \subseteq Pos /\ procs \subseteq Pos
    BY DEF IInv, TypeOK
  <2>2. \A p \in Pos : At(p).res \in Out(p) <=>
                          << p[1], p[2] + 1 >> \in LivePoints(At(p).res, FALSE)
    BY OutIsLive
  <2> QED  BY <2>1, <2>2 DEF Removed
<1> QED
  BY <1>1, <1>2, Invariance, PTL

\* For every function, by what its instructions read: however many rounds
\* elimateDeadCode takes, in the code it leaves only a pointer that is stored
\* through, or a value that is switched on, can lose what it was set to.
THEOREM ReadsKeepValues == Spec => []OnlyUnseenLose
<1>1. IInv /\ Removed => OnlyUnseenLose
  <2> SUFFICES ASSUME IInv, Removed, NEW p \in dead \cup procs,
                      ~ (p \notin procs /\ (At(p).op = "dec" \/ SelfCopy(p))),
                      At(p).res \notin Unseen
               PROVE  << p[1], p[2] + 1 >> \notin LivePoints(At(p).res, TRUE)
    BY DEF OnlyUnseenLose
  <2>1. << p[1], p[2] + 1 >> \notin LivePoints(At(p).res, FALSE)
    BY DEF Removed
  <2>2. prog \in Programs
    BY DEF IInv, Control
  <2> QED  BY <2>1, <2>2, SeenLive
<1> QED
  BY <1>1, RemovedAlways, Invariance, PTL
=============================================================================
