--------------------------- MODULE CopyProp_proofs ---------------------------
(***************************************************************************)
(* Proofs about CopyProp, for every function: when analyse returns, the    *)
(* copies in the set of a point are exactly those that every path brings   *)
(* there unharmed, and both sides of each are equal however the function   *)
(* runs.                                                                   *)
(***************************************************************************)
EXTENDS CopyProp, TLAPS

-----------------------------------------------------------------------------
(* The inductive invariant *)

Sweeping == pc \in {"sweep", "translate"}
Finished == pc \in {"propagate", "find", "walk"}

\* The points whose set the current sweep, or the last one, has computed.
Fresh(p) ==
    \/ Finished
    \/ Sweeping /\ p[1] < i
    \/ pc = "translate" /\ p[1] = i /\ p[2] <= j

Control ==
    /\ prog \in Programs
    /\ j >= 1
    /\ out[1] = {} /\ at[1] = [k \in 1 .. 2 |-> {}]
    /\ Sweeping => i >= 2
    /\ pc = "translate" => /\ i \in prog.reach /\ j \in 1 .. Len(Code(i)) + 1
                           /\ tmp = at[i][j]
    /\ Finished => ~change

\* What a sweep has left out of a set is lost on some path.
Sound ==
    /\ \A b \in prog.reach : \A c \in Copies \ out[b] :
          << b, Len(Code(b)) + 1 >> \in LostPoints(c)
    /\ \A p \in Points : Fresh(p) =>
          \A c \in Copies \ at[p[1]][p[2]] : p \in LostPoints(c)

\* The equations of the analysis at a fresh point; those between blocks are
\* good only as long as the sweep has changed nothing.
Meet(b) == {c \in Copies : \A q \in Prevs(b) : c \in out[q]}
Flow(p, before) == (before \ Kill(p)) \cup Gen(p)

Solved ==
    \A p \in Points : p[1] # 1 /\ Fresh(p) =>
        /\ p[2] = 1 /\ ~change => at[p[1]][1] = Meet(p[1])
        /\ p[2] > 1 =>
              at[p[1]][p[2]] = Flow(<< p[1], p[2] - 1 >>, at[p[1]][p[2] - 1])
        /\ p[2] = Len(Code(p[1])) + 1 /\ (Finished \/ p[1] < i) =>
              out[p[1]] = at[p[1]][p[2]]

\* propagate is inside the code, which keeps its length.
Search ==
    /\ \A b \in Block : Len(inst[b]) = Len(Code(b))
    /\ pc = "find" => /\ i \in prog.reach /\ j <= Len(Code(i))
                      /\ Len(found) < Len(Wanted(inst[i][j]))

\* Wherever the walk is, the copies of the set hold.
Holds(p) ==
    \A c \in at[p[1]][p[2]] : At(c).res = At(c).arg1 \/ << At(c).res, At(c).arg1 >> \in eq

Walk ==
    pc = "walk" => i \in prog.reach /\ j <= Len(Code(i)) + 1 /\ Holds(<< i, j >>)

IInv == TypeOK /\ Control /\ Sound /\ Solved /\ Search /\ Walk

-----------------------------------------------------------------------------
(* Lemmas *)

\* What the assumption says of the function at hand.
LEMMA ProgType ==
    ASSUME prog \in Programs
    PROVE  /\ 1 \in prog.reach /\ prog.reach \subseteq Block
           /\ Len(Code(1)) = 1 /\ Code(1)[1].op = "other"
           /\ \A b \in Block : /\ Code(b) \in Seq(Inst) /\ Len(Code(b)) \in Nat
                               /\ DOMAIN Code(b) = 1 .. Len(Code(b))
                               /\ prog.succs[b] \subseteq prog.reach \ {1}
           /\ \A b \in Block \ prog.reach : prog.succs[b] = {}
<1>1. /\ prog.code \in [Block -> Seq(Inst)]
      /\ 1 \in prog.reach /\ prog.reach \subseteq Block
      /\ Len(prog.code[1]) = 1 /\ prog.code[1][1].op = "other"
      /\ \A b \in Block : prog.succs[b] \subseteq prog.reach \ {1}
      /\ \A b \in Block \ prog.reach : prog.succs[b] = {}
  BY ProgramsAssumption
<1>2. ASSUME NEW b \in Block
      PROVE  /\ Code(b) \in Seq(Inst) /\ Len(Code(b)) \in Nat
             /\ DOMAIN Code(b) = 1 .. Len(Code(b))
  <2>1. Code(b) \in Seq(Inst)
    BY <1>1 DEF Code
  <2> HIDE DEF Inst
  <2> QED  BY <2>1
<1>3. Len(Code(1)) = 1 /\ Code(1)[1].op = "other"
  BY <1>1 DEF Code
<1> QED
  BY <1>1, <1>2, <1>3

\* An instruction of a block, with what the constructor's assumption adds.
LEMMA InstType ==
    ASSUME prog \in Programs, NEW b \in Block, NEW k \in 1 .. Len(Code(b))
    PROVE  /\ Code(b)[k] \in Inst
           /\ Code(b)[k].op \in {"as", "expr", "lea"} => Code(b)[k].res \in Var
           /\ Code(b)[k].op \in {"as", "set"} =>
                 Code(b)[k].res \in Var /\ Code(b)[k].arg1 \in Var
<1>1. Code(b) \in Seq(Inst) /\ k \in DOMAIN Code(b)
  BY ProgType
<1>2. Code(b)[k] \in Inst
  <2> HIDE DEF Inst
  <2> QED  BY <1>1
<1>3. /\ Code(b)[k].op \in {"as", "expr", "lea"} => Code(b)[k].res \in Var
      /\ Code(b)[k].op \in {"as", "set"} => {Code(b)[k].res, Code(b)[k].arg1} \subseteq Var
  <2>1. prog.code[b] = Code(b)
    BY DEF Code
  <2> QED  BY <1>1, <2>1, ProgramsAssumption
<1> QED
  BY <1>2, <1>3

\* A position has a block and the number of an instruction.
LEMMA PosType ==
    ASSUME prog \in Programs, NEW p \in Pos
    PROVE  /\ p = << p[1], p[2] >> /\ p[1] \in prog.reach /\ p[1] \in Block
           /\ p[2] \in 1 .. Len(Code(p[1])) /\ At(p) = Code(p[1])[p[2]]
<1>1. PICK b \in prog.reach : \E k \in DOMAIN Code(b) : p = << b, k >>
  BY DEF Pos
<1>2. PICK k \in DOMAIN Code(b) : p = << b, k >>
  BY <1>1
<1>3. b \in Block /\ DOMAIN Code(b) = 1 .. Len(Code(b))
  BY ProgType
<1> QED
  BY <1>2, <1>3 DEF At

\* A point has the block and the index of a set of `at'.
LEMMA PointType ==
    ASSUME prog \in Programs, NEW p \in Points
    PROVE  /\ p = << p[1], p[2] >> /\ p[1] \in prog.reach /\ p[1] \in Block
           /\ Len(Code(p[1])) \in Nat /\ p[2] \in 1 .. Len(Code(p[1])) + 1
<1>1. PICK b \in prog.reach : \E k \in 1 .. Len(Code(b)) + 1 : p = << b, k >>
  BY DEF Points
<1>2. PICK k \in 1 .. Len(Code(b)) + 1 : p = << b, k >>
  BY <1>1
<1>3. b \in Block /\ Len(Code(b)) \in Nat
  BY ProgType
<1> QED
  BY <1>2, <1>3

\* An index of `at' in a reachable block is a point.
LEMMA PointIntro ==
    ASSUME prog \in Programs, NEW b \in prog.reach, NEW k \in 1 .. Len(Code(b)) + 1
    PROVE  << b, k >> \in Points
BY DEF Points

\* Copies are positions with the operator "as", and so gen sets are copies.
LEMMA CopyType ==
    ASSUME prog \in Programs, NEW c \in Copies
    PROVE  c \in Pos /\ At(c).op = "as" /\ At(c).res \in Var /\ At(c).arg1 \in Var
<1>1. c \in Pos /\ At(c).op = "as"
  BY DEF Copies
<1>2. c[1] \in Block /\ c[2] \in 1 .. Len(Code(c[1])) /\ At(c) = Code(c[1])[c[2]]
  BY <1>1, PosType
<1> QED
  BY <1>1, <1>2, InstType

\* Flow keeps to copies.
LEMMA FlowType ==
    ASSUME NEW p, NEW S \in SUBSET Copies
    PROVE  Flow(p, S) \in SUBSET Copies
BY DEF Flow, Gen

\* A position neither makes nor kills itself: what Kill names is not in Gen.
LEMMA GenNotKilled ==
    ASSUME NEW p
    PROVE  Kill(p) \cap Gen(p) = {}
BY DEF Kill, Gen, Copies

\* Lost points are closed under the steps that do not pass the copy ...
LEMMA LostClosed ==
    ASSUME NEW c, NEW p, NEW q \in Points, q \in Following(p),
           \/ p \in LostPoints(c) /\ p # c
           \/ p \in Points /\ Kills(c, p)
    PROVE  q \in LostPoints(c)
<1> SUFFICES ASSUME NEW set \in LostSets(c)  PROVE q \in set
  BY DEF LostPoints
<1> DEFINE lost == {<< 1, 1 >>} \cup UNION {Following(r) : r \in {r \in Points : Kills(c, r)}}
<1>1. lost \subseteq set /\ \A r \in set \ {c} : Following(r) \subseteq set
  BY DEF LostSets
<1>2. CASE p \in LostPoints(c) /\ p # c
  <2>1. p \in set
    BY <1>2 DEF LostPoints
  <2> QED  BY <1>1, <1>2, <2>1
<1>3. CASE p \in Points /\ Kills(c, p)
  <2>1. q \in lost
    BY <1>3
  <2> QED  BY <1>1, <2>1
<1> QED
  BY <1>2, <1>3

\* ... and hold the start of the function.
LEMMA LostStart ==
    ASSUME NEW c, << 1, 1 >> \in Points
    PROVE  << 1, 1 >> \in LostPoints(c)
BY DEF LostPoints, LostSets

\* They are the least such set.
LEMMA LostLeast ==
    ASSUME NEW c, NEW set \in SUBSET Points, << 1, 1 >> \in set,
           \A p \in Points : Kills(c, p) => Following(p) \subseteq set,
           \A p \in set \ {c} : Following(p) \subseteq set
    PROVE  LostPoints(c) \subseteq set
<1> DEFINE lost == {<< 1, 1 >>} \cup UNION {Following(r) : r \in {r \in Points : Kills(c, r)}}
<1>1. lost \subseteq set
  OBVIOUS
<1>2. set = lost \cup (set \ lost) /\ set \ lost \in SUBSET (Points \ lost)
  BY <1>1
<1>3. set \in LostSets(c)
  BY <1>2 DEF LostSets
<1> QED
  BY <1>3 DEF LostPoints

\* What is lost depends on the function only.
LEMMA LostSame ==
    ASSUME UNCHANGED prog
    PROVE  /\ Points' = Points /\ Pos' = Pos /\ Copies' = Copies
           /\ \A b : Code(b)' = Code(b) /\ Prevs(b)' = Prevs(b)
           /\ \A p : At(p)' = At(p) /\ Gen(p)' = Gen(p) /\ Kill(p)' = Kill(p)
           /\ \A p, S : Flow(p, S)' = Flow(p, S)
           /\ \A c : LostPoints(c)' = LostPoints(c)
<1>1. /\ Points' = Points /\ Pos' = Pos /\ Copies' = Copies
      /\ \A b : Code(b)' = Code(b) /\ Prevs(b)' = Prevs(b)
      /\ \A p : At(p)' = At(p) /\ Gen(p)' = Gen(p)
  BY DEF Points, Pos, Copies, Code, Prevs, At, Gen
<1>2. \A p : Kill(p)' = Kill(p)
  BY <1>1 DEF Kill
<1>3. ASSUME NEW p, NEW S  PROVE Flow(p, S)' = Flow(p, S)
  BY <1>1, <1>2 DEF Flow
<1>4. ASSUME NEW c  PROVE LostPoints(c)' = LostPoints(c)
  <2>1. \A p : (Kills(c, p)' <=> Kills(c, p)) /\ Following(p)' = Following(p)
    BY <1>1, <1>2 DEF Kills, Following
  <2> DEFINE killed == {q \in Points : Kills(c, q)}
             lost == {<< 1, 1 >>} \cup UNION {Following(p) : p \in killed}
             sets == {lost \cup more : more \in SUBSET (Points \ lost)}
  <2>3. killed' = killed
    BY <1>1, <2>1
  <2>4. lost' = lost
    <3> HIDE DEF killed
    <3> QED  BY <2>1, <2>3
  <2>5. sets' = sets
    <3> HIDE DEF lost
    <3> QED  BY <1>1, <2>4
  <2>6. LostSets(c) = {set \in sets : \A p \in set \ {c} : Following(p) \subseteq set}
    BY DEF LostSets
  <2>7. LostSets(c)' = {set \in sets' : \A p \in set \ {c} : Following(p)' \subseteq set}
    BY DEF LostSets
  <2>2. LostSets(c)' = LostSets(c)
    <3> HIDE DEF sets
    <3> QED  BY <2>1, <2>5, <2>6, <2>7
  <2> QED  BY <1>1, <2>2 DEF LostPoints
<1> QED
  BY <1>1, <1>2, <1>3, <1>4

\* Where a step from a point leads.
LEMMA FollowType ==
    ASSUME prog \in Programs, NEW p \in Points, NEW q \in Following(p)
    PROVE  /\ q \in Points /\ q = << q[1], q[2] >>
           /\ \/ p[2] <= Len(Code(p[1])) /\ q = << p[1], p[2] + 1 >>
              \/ /\ p[2] = Len(Code(p[1])) + 1 /\ q[2] = 1
                 /\ q[1] \in prog.succs[p[1]] /\ q[1] \in prog.reach \ {1}
                 /\ p[1] \in Prevs(q[1])
<1>1. /\ p = << p[1], p[2] >> /\ p[1] \in prog.reach /\ p[1] \in Block
      /\ Len(Code(p[1])) \in Nat /\ p[2] \in 1 .. Len(Code(p[1])) + 1
  BY PointType
<1>2. CASE p[2] > Len(Code(p[1]))
  <2>1. PICK s \in prog.succs[p[1]] : q = << s, 1 >>
    BY <1>2 DEF Following
  <2>2. s \in prog.reach \ {1} /\ s \in Block /\ Len(Code(s)) \in Nat
    BY <1>1, ProgType
  <2>3. q \in Points
    <3>1. 1 \in 1 .. Len(Code(s)) + 1
      BY <2>2
    <3> QED  BY <2>1, <2>2, <3>1, PointIntro
  <2>4. p[1] \in Prevs(s)
    BY <1>1, <2>1 DEF Prevs
  <2> QED  BY <1>1, <1>2, <2>1, <2>2, <2>3, <2>4
<1>3. CASE ~ (p[2] > Len(Code(p[1])))
  <2>1. q = << p[1], p[2] + 1 >>
    BY <1>3 DEF Following
  <2>2. p[2] + 1 \in 1 .. Len(Code(p[1])) + 1
    BY <1>1, <1>3
  <2> QED  BY <1>1, <1>3, <2>1, <2>2, PointIntro
<1> QED
  BY <1>2, <1>3

\* The entry block is one instruction, and so has two points.
LEMMA EntryIndex ==
    ASSUME prog \in Programs
    PROVE  /\ Len(Code(1)) + 1 = 2
           /\ \A p \in Points : p[1] = 1 => p[2] = 1 \/ p[2] = 2
<1>1. Len(Code(1)) = 1
  BY ProgType
<1>2. \A n : n = 1 => n + 1 = 2 /\ \A k \in 1 .. n + 1 : k = 1 \/ k = 2
  OBVIOUS
<1>3. ASSUME NEW p \in Points, p[1] = 1
      PROVE  p[2] = 1 \/ p[2] = 2
  <2> DEFINE n == Len(Code(p[1]))
  <2>1. n = 1 /\ p[2] \in 1 .. n + 1
    BY <1>1, <1>3, PointType
  <2> HIDE DEF n
  <2> QED  BY <1>2, <2>1
<1>4. Len(Code(1)) + 1 = 2
  <2> DEFINE n == Len(Code(1))
  <2>1. n = 1
    BY <1>1
  <2> HIDE DEF n
  <2>2. n + 1 = 2
    BY <1>2, <2>1
  <2> QED  BY <2>2 DEF n
<1> QED
  BY <1>3, <1>4

\* No copy is available in the entry block.
LEMMA EntryPoints ==
    ASSUME Control, NEW p \in Points, p[1] = 1
    PROVE  at[p[1]][p[2]] = {}
BY EntryIndex DEF Control

-----------------------------------------------------------------------------
(* At the end of the analysis *)

\* From a point to the next, sets only lose what is killed and gain what is made.
LEMMA AtFollow ==
    ASSUME IInv, Finished, NEW p \in Points, NEW q \in Following(p)
    PROVE  /\ q \in Points
           /\ p[2] <= Len(Code(p[1])) => at[q[1]][q[2]] \subseteq Flow(p, at[p[1]][p[2]])
           /\ p[2] > Len(Code(p[1])) => at[q[1]][q[2]] \subseteq at[p[1]][p[2]]
<1>1. prog \in Programs /\ ~ change
  BY DEF IInv, Control
<1>2. /\ p = << p[1], p[2] >> /\ p[1] \in prog.reach /\ p[1] \in Block
      /\ Len(Code(p[1])) \in Nat /\ p[2] \in 1 .. Len(Code(p[1])) + 1
  BY <1>1, PointType
<1>3. q \in Points /\ Fresh(q) /\ Fresh(p)
  BY <1>1, FollowType DEF Fresh
<1>4. CASE p[2] <= Len(Code(p[1])) /\ q = << p[1], p[2] + 1 >>
  <2>1. CASE p[1] = 1
    BY <1>3, <1>4, <2>1, EntryPoints DEF IInv
  <2>2. CASE p[1] # 1
    <3>1. q[1] # 1 /\ q[2] > 1 /\ << q[1], q[2] - 1 >> = p /\ q[2] - 1 = p[2] /\ q[1] = p[1]
      BY <1>2, <1>4, <2>2
    <3>2. at[q[1]][q[2]] = Flow(<< q[1], q[2] - 1 >>, at[q[1]][q[2] - 1])
      BY <1>3, <3>1 DEF IInv, Solved
    <3> QED  BY <1>2, <1>3, <1>4, <3>1, <3>2
  <2> QED  BY <2>1, <2>2
<1>5. CASE /\ p[2] = Len(Code(p[1])) + 1 /\ q[2] = 1
           /\ q[1] \in prog.reach \ {1} /\ p[1] \in Prevs(q[1])
  <2>1. at[q[1]][1] \subseteq out[p[1]]
    <3>1. at[q[1]][1] = Meet(q[1])
      BY <1>1, <1>3, <1>5 DEF IInv, Solved
    <3> QED  BY <1>5, <3>1 DEF Meet
  <2>2. CASE p[1] = 1
    BY <1>2, <1>3, <1>5, <2>1, <2>2 DEF IInv, Control
  <2>3. CASE p[1] # 1
    <3>1. out[p[1]] = at[p[1]][p[2]]
      BY <1>3, <1>5, <2>3 DEF IInv, Solved
    <3> QED  BY <1>2, <1>3, <1>5, <2>1, <3>1
  <2> QED  BY <2>2, <2>3
<1> QED
  BY <1>1, <1>4, <1>5, FollowType

\* Sound and Solved make the sets exact once nothing has changed.
LEMMA ExactAtEnd ==
    ASSUME IInv, Finished, NEW c \in Copies, NEW p \in Points
    PROVE  c \in at[p[1]][p[2]] <=> p \notin LostPoints(c)
<1> DEFINE set == {r \in Points : c \notin at[r[1]][r[2]]}
<1>0. prog \in Programs
  BY DEF IInv, Control
<1>1. ASSUME p \in set  PROVE p \in LostPoints(c)
  BY <1>1 DEF IInv, Sound, Fresh
<1>2. << 1, 1 >> \in set
  <2>1. 1 \in 1 .. Len(Code(1)) + 1 /\ 1 \in prog.reach
    BY <1>0, ProgType
  <2>2. << 1, 1 >> \in Points
    BY <1>0, <2>1, PointIntro
  <2> QED  BY <2>2, EntryPoints DEF IInv
<1>3. ASSUME NEW r \in Points, Kills(c, r), NEW q \in Following(r)
      PROVE  q \in set
  <2>1. q \in Points /\ at[q[1]][q[2]] \subseteq Flow(r, at[r[1]][r[2]])
    BY <1>3, AtFollow DEF Kills
  <2>2. c \notin Flow(r, at[r[1]][r[2]])
    BY <1>3, GenNotKilled DEF Kills, Flow
  <2> QED  BY <2>1, <2>2
<1>4. ASSUME NEW r \in set \ {c}, NEW q \in Following(r)
      PROVE  q \in set
  <2>1. r \in Points /\ c \notin at[r[1]][r[2]] /\ c # r
    BY <1>4
  <2>2. q \in Points
    BY <1>4, <2>1, AtFollow
  <2>3. CASE r[2] <= Len(Code(r[1]))
    <3>1. at[q[1]][q[2]] \subseteq Flow(r, at[r[1]][r[2]])
      BY <1>4, <2>1, <2>3, AtFollow
    <3>2. c \notin Flow(r, at[r[1]][r[2]])
      BY <2>1 DEF Flow, Gen
    <3> QED  BY <2>2, <3>1, <3>2
  <2>4. CASE r[2] > Len(Code(r[1]))
    BY <1>4, <2>1, <2>2, <2>4, AtFollow
  <2>5. r[2] \in Int /\ Len(Code(r[1])) \in Int
    BY <1>0, <2>1, PointType
  <2> QED  BY <2>3, <2>4, <2>5
<1>5. LostPoints(c) \subseteq set
  <2>1. /\ set \in SUBSET Points
        /\ \A r \in Points : Kills(c, r) => Following(r) \subseteq set
        /\ \A r \in set \ {c} : Following(r) \subseteq set
    BY <1>3, <1>4
  <2> HIDE DEF set
  <2> QED  BY <1>2, <2>1, LostLeast
<1> QED
  BY <1>1, <1>5

-----------------------------------------------------------------------------
(* The invariant is inductive *)

\* ENTRY makes no copy: both its points are lost for every copy.
LEMMA EntryLost ==
    ASSUME prog \in Programs, NEW c \in Copies, NEW p \in Points, p[1] = 1
    PROVE  p \in LostPoints(c)
<1>1. /\ p = << 1, p[2] >> /\ p[2] \in 1 .. Len(Code(1)) + 1 /\ 1 \in prog.reach
      /\ Len(Code(1)) = 1 /\ Code(1)[1].op = "other"
  BY PointType, ProgType
<1>2. p[2] = 1 \/ p[2] = 2
  BY EntryIndex
<1>3. << 1, 1 >> \in Points
  BY <1>1, PointIntro
<1>4. << 1, 1 >> \in LostPoints(c)
  BY <1>3, LostStart
<1>5. << 1, 1 >> # c
  BY <1>1, CopyType DEF At
<1>6. << 1, 2 >> \in Following(<< 1, 1 >>)
  BY <1>1 DEF Following
<1>7. CASE p[2] = 2
  BY <1>1, <1>4, <1>5, <1>6, <1>7, LostClosed
<1> QED
  BY <1>1, <1>2, <1>4, <1>7

\* Before the first sweep only ENTRY's sets are known.
LEMMA InitInv == Init => IInv
<1> SUFFICES ASSUME Init  PROVE IInv
  OBVIOUS
<1> USE ConstAssumption
<1>1. /\ prog \in Programs /\ i = 2 /\ j = 1 /\ pc = "sweep" /\ change = FALSE
      /\ inst = prog.code /\ tmp = {} /\ found = << >> /\ cur = None /\ eq = {}
      /\ out = [b \in Block |-> IF b = 1 THEN {} ELSE Copies]
      /\ at = [b \in Block |-> [k \in 1 .. Len(Code(b)) + 1 |-> {}]]
  BY DEF Init
<1>2. /\ 1 \in Block /\ 1 \in prog.reach /\ prog.reach \subseteq Block
      /\ Len(Code(1)) = 1
  BY <1>1, ProgType
<1>3. TypeOK
  <2>1. inst \in [Block -> Seq(Inst)]
    BY <1>1, ProgramsAssumption
  <2>2. out \in [Block -> SUBSET Copies]
    BY <1>1
  <2>3. DOMAIN at = Block /\ \A b \in Block : at[b] \in [1 .. Len(Code(b)) + 1 -> SUBSET Copies]
    BY <1>1
  <2>4. found \in Seq(Operand) /\ Len(found) <= 2 /\ cur \in Operand
    BY <1>1 DEF Operand
  <2>5. i \in 1 .. N + 1 /\ j \in Nat
    BY <1>1
  <2> QED  BY <1>1, <2>1, <2>2, <2>3, <2>4, <2>5 DEF TypeOK
<1>4. Control
  <2>1. at[1] = [k \in 1 .. 2 |-> {}]
    <3>1. at[1] = [k \in 1 .. Len(Code(1)) + 1 |-> {}]
      BY <1>1, <1>2
    <3>2. Len(Code(1)) + 1 = 2
      BY <1>1, EntryIndex
    <3> QED  BY <3>1, <3>2
  <2>2. out[1] = {}
    BY <1>1, <1>2
  <2>3. j >= 1 /\ i >= 2 /\ pc # "translate" /\ ~ Finished
    BY <1>1 DEF Finished
  <2> QED  BY <1>1, <2>1, <2>2, <2>3 DEF Control
<1>5. ASSUME NEW p \in Points, Fresh(p)
      PROVE  p[1] = 1
  <2>1. p[1] \in Block
    BY <1>1, PointType
  <2>2. p[1] < 2
    BY <1>1, <1>5 DEF Fresh, Finished, Sweeping
  <2> QED  BY <2>1, <2>2 DEF Block
<1>6. Sound
  <2>1. ASSUME NEW b \in prog.reach, NEW c \in Copies \ out[b]
        PROVE  << b, Len(Code(b)) + 1 >> \in LostPoints(c)
    <3>1. b = 1
      BY <1>1, <1>2, <2>1
    <3>2. << b, Len(Code(b)) + 1 >> \in Points
      <4>1. Len(Code(b)) + 1 \in 1 .. Len(Code(b)) + 1
        BY <1>2, <3>1
      <4> QED  BY <1>1, <4>1, PointIntro
    <3> QED  BY <1>1, <3>1, <3>2, EntryLost
  <2> QED  BY <1>1, <1>5, <2>1, EntryLost DEF Sound
<1>7. Solved
  BY <1>5 DEF Solved
<1>8. Search /\ Walk
  <2>1. \A b \in Block : Len(inst[b]) = Len(Code(b))
    BY <1>1 DEF Code
  <2> QED  BY <1>1, <2>1 DEF Search, Walk
<1> QED
  BY <1>3, <1>4, <1>6, <1>7, <1>8 DEF IInv

\* After the analysis its results stay.
LEMMA KeptInv ==
    ASSUME IInv, UNCHANGED <<prog, out, at, change>>, Finished, Finished', j' >= 1
    PROVE  Control' /\ Sound' /\ Solved'
<1>1. /\ Points' = Points /\ Copies' = Copies
      /\ \A b : Code(b)' = Code(b) /\ Prevs(b)' = Prevs(b)
      /\ \A p, S : Flow(p, S)' = Flow(p, S)
      /\ \A c : LostPoints(c)' = LostPoints(c)
  BY LostSame
<1>2. \A p : Fresh(p) /\ Fresh(p)'
  BY DEF Fresh
<1>3. Control'
  BY DEF IInv, Control, Sweeping, Finished
<1>4. Sound'
  BY <1>1, <1>2 DEF IInv, Sound
<1>5. \A b : Meet(b)' = Meet(b)
  BY <1>1 DEF Meet
<1>6. Solved'
  BY <1>1, <1>2, <1>5 DEF IInv, Solved
<1> QED
  BY <1>3, <1>4, <1>6

\* Sound and Solved carry over a step that computes no set.
LEMMA SetsKept ==
    ASSUME IInv, UNCHANGED <<prog, out, at, change>>,
           \A p \in Points : Fresh(p)' => Fresh(p),
           \A p \in Points : Finished' \/ p[1] < i' => Finished \/ p[1] < i
    PROVE  Sound' /\ Solved'
<1>1. /\ Points' = Points /\ Copies' = Copies
      /\ \A b : Code(b)' = Code(b) /\ Prevs(b)' = Prevs(b)
      /\ \A p, S : Flow(p, S)' = Flow(p, S)
      /\ \A c : LostPoints(c)' = LostPoints(c)
  BY LostSame
<1>2. Sound'
  BY <1>1 DEF IInv, Sound
<1>3. \A b : Meet(b)' = Meet(b)
  BY <1>1 DEF Meet
<1>4. Solved'
  BY <1>1, <1>3 DEF IInv, Solved
<1> QED
  BY <1>2, <1>4

\* A block that release has cut off has no points.
LEMMA SkipInv == IInv /\ SkipBlock => IInv'
<1> SUFFICES ASSUME IInv, SkipBlock  PROVE IInv'
  OBVIOUS
<1> USE ConstAssumption
<1>1. /\ pc = "sweep" /\ i <= N /\ i \notin prog.reach /\ i' = i + 1 /\ i \in Nat
      /\ UNCHANGED <<prog, inst, out, at, change, tmp, j, found, cur, eq, pc>>
      /\ prog \in Programs
  BY DEF SkipBlock, analysis, search, IInv, TypeOK, Control
<1>2. Pos' = Pos /\ Copies' = Copies /\ \A b : Code(b)' = Code(b)
  BY <1>1, LostSame
<1>3. TypeOK'
  <2>1. i' \in 1 .. N + 1
    BY <1>1
  <2> QED  BY <1>1, <1>2, <2>1 DEF IInv, TypeOK
<1>4. Control'
  BY <1>1 DEF IInv, Control, Sweeping, Finished
<1>5. ASSUME NEW p \in Points
      PROVE  /\ p[1] < i' => p[1] < i
             /\ Fresh(p)' => Fresh(p)
  <2>1. p[1] \in Nat /\ p[1] # i
    BY <1>1, PointType DEF Block
  <2>2. p[1] < i' => p[1] < i
    BY <1>1, <2>1
  <2> QED  BY <1>1, <2>2 DEF Fresh, Sweeping, Finished
<1>6. Sound' /\ Solved'
  BY <1>1, <1>5, SetsKept DEF Finished
<1>7. Search' /\ Walk'
  BY <1>1, <1>2 DEF IInv, Search, Walk
<1> QED
  BY <1>3, <1>4, <1>6, <1>7 DEF IInv

\* The next sweep begins: only ENTRY's sets stand.
LEMMA AgainInv == IInv /\ SweepAgain => IInv'
<1> SUFFICES ASSUME IInv, SweepAgain  PROVE IInv'
  OBVIOUS
<1> USE ConstAssumption
<1>1. /\ pc = "sweep" /\ i' = 2 /\ change' = FALSE
      /\ UNCHANGED <<prog, inst, out, at, tmp, j, found, cur, eq, pc>>
      /\ prog \in Programs
  BY DEF SweepAgain, search, IInv, Control
<1>2. /\ Points' = Points /\ Pos' = Pos /\ Copies' = Copies /\ \A b : Code(b)' = Code(b)
      /\ \A c : LostPoints(c)' = LostPoints(c)
  BY <1>1, LostSame
<1>3. TypeOK'
  <2>1. change' \in BOOLEAN
    BY <1>1
  <2>2. i' \in 1 .. N + 1
    <3>1. i' = 2
      BY <1>1
    <3> QED  BY <3>1
  <2>3. UNCHANGED <<prog, inst, out, at, tmp, j, found, cur, eq, pc>>
    BY <1>1
  <2> QED  BY <1>2, <2>1, <2>2, <2>3 DEF IInv, TypeOK
<1>4. Control'
  <2>1. /\ j' >= 1 /\ i' >= 2 /\ pc' # "translate" /\ ~ Finished'
        /\ out'[1] = {} /\ at'[1] = [k \in 1 .. 2 |-> {}] /\ prog' \in Programs
    BY <1>1 DEF IInv, Control, Finished
  <2> QED  BY <2>1 DEF Control
<1>5. ASSUME NEW p \in Points, Fresh(p)'
      PROVE  p[1] = 1
  <2>1. p[1] \in Block
    BY <1>1, PointType
  <2>2. p[1] < 2
    BY <1>1, <1>5 DEF Fresh, Finished, Sweeping
  <2> QED  BY <2>1, <2>2 DEF Block
<1>6. Sound'
  BY <1>1, <1>2, <1>5, EntryLost DEF IInv, Sound
<1>7. Solved'
  BY <1>2, <1>5 DEF Solved
<1>8. Search' /\ Walk'
  BY <1>1, <1>2 DEF IInv, Search, Walk
<1> QED
  BY <1>3, <1>4, <1>6, <1>7, <1>8 DEF IInv

\* A sweep without a change ends the analysis.
LEMMA EndInv == IInv /\ SweepEnd => IInv'
<1> SUFFICES ASSUME IInv, SweepEnd  PROVE IInv'
  OBVIOUS
<1> USE ConstAssumption
<1>1. /\ pc = "sweep" /\ i > N /\ ~ change /\ i' = 1 /\ j' = 1 /\ pc' = "propagate"
      /\ UNCHANGED <<prog, inst, out, at, change, tmp, found, cur, eq>>
      /\ prog \in Programs /\ i \in 1 .. N + 1
  BY DEF SweepEnd, analysis, search, IInv, TypeOK, Control
<1>2. Pos' = Pos /\ Copies' = Copies /\ \A b : Code(b)' = Code(b)
  BY <1>1, LostSame
<1>3. TypeOK'
  BY <1>1, <1>2 DEF IInv, TypeOK
<1>4. Control'
  BY <1>1 DEF IInv, Control, Sweeping, Finished
<1>5. ASSUME NEW p \in Points
      PROVE  Fresh(p) /\ p[1] < i
  <2>1. p[1] \in 1 .. N
    BY <1>1, PointType DEF Block
  <2>2. p[1] < i
    BY <1>1, <2>1
  <2> QED  BY <1>1, <2>2 DEF Fresh, Sweeping
<1>6. Sound' /\ Solved'
  BY <1>1, <1>5, SetsKept
<1>7. Search' /\ Walk'
  BY <1>1, <1>2 DEF IInv, Search, Walk
<1> QED
  BY <1>3, <1>4, <1>6, <1>7 DEF IInv

\* The meet over the predecessors: a copy it drops is lost at one of them.
LEMMA EnterInv == IInv /\ EnterBlock => IInv'
<1> SUFFICES ASSUME IInv, EnterBlock  PROVE IInv'
  OBVIOUS
<1> USE ConstAssumption
<1>1. /\ pc = "sweep" /\ pc' = "translate" /\ i <= N /\ i \in prog.reach
      /\ tmp' = Meet(i) /\ at' = [at EXCEPT ![i][1] = tmp'] /\ j' = 1
      /\ UNCHANGED <<prog, inst, out, change, i, found, cur, eq>>
      /\ prog \in Programs /\ i >= 2
  BY DEF EnterBlock, Meet, search, IInv, Control, Sweeping
<1>2. /\ Points' = Points /\ Pos' = Pos /\ Copies' = Copies
      /\ \A b : Code(b)' = Code(b) /\ Prevs(b)' = Prevs(b)
      /\ \A p, S : Flow(p, S)' = Flow(p, S)
      /\ \A c : LostPoints(c)' = LostPoints(c)
  BY <1>1, LostSame
<1>3. /\ i \in Block /\ i # 1 /\ Len(Code(i)) \in Nat
      /\ DOMAIN at = Block /\ at[i] \in [1 .. Len(Code(i)) + 1 -> SUBSET Copies]
      /\ Meet(i) \in SUBSET Copies
  <2>1. i \in Block
    BY <1>1, ProgType
  <2> QED  BY <1>1, <2>1, ProgType DEF IInv, TypeOK, Meet
<1>4. 1 \in 1 .. Len(Code(i)) + 1 /\ << i, 1 >> \in Points
  <2>1. 1 \in 1 .. Len(Code(i)) + 1
    BY <1>3
  <2> QED  BY <1>1, <2>1, PointIntro
<1>5. /\ at'[i] = [at[i] EXCEPT ![1] = Meet(i)]
      /\ \A b \in Block \ {i} : at'[b] = at[b]
      /\ DOMAIN at' = Block
  BY <1>1, <1>3
<1>6. at'[i][1] = Meet(i)
  BY <1>3, <1>4, <1>5
<1>7. TypeOK'
  <2>1. at'[i] \in [1 .. Len(Code(i)) + 1 -> SUBSET Copies]
    BY <1>3, <1>5
  <2>2. \A b \in Block : at'[b] \in [1 .. Len(Code(b)) + 1 -> SUBSET Copies]
    BY <1>5, <2>1 DEF IInv, TypeOK
  <2>3. j' \in Nat /\ tmp' \subseteq Copies
    BY <1>1, <1>3
  <2> QED  BY <1>1, <1>2, <1>5, <2>2, <2>3 DEF IInv, TypeOK
<1>8. Control'
  <2>1. at'[1] = at[1]
    <3>1. 1 \in Block \ {i}
      BY <1>3 DEF Block
    <3> QED  BY <1>5, <3>1
  <2>2. j' \in 1 .. Len(Code(i)) + 1 /\ tmp' = at'[i][j']
    BY <1>1, <1>4, <1>6
  <2> QED  BY <1>1, <1>2, <2>1, <2>2 DEF IInv, Control, Sweeping, Finished
<1>9. ASSUME NEW p \in Points, Fresh(p)'
      PROVE  \/ p[1] < i /\ Fresh(p) /\ at'[p[1]] = at[p[1]]
             \/ p = << i, 1 >>
  <2>1. p = << p[1], p[2] >> /\ p[1] \in Block /\ p[2] \in 1 .. Len(Code(p[1])) + 1
    BY <1>1, PointType
  <2>2. p[1] < i \/ (p[1] = i /\ p[2] <= 1)
    BY <1>1, <1>9 DEF Fresh, Sweeping, Finished
  <2>3. CASE p[1] < i
    <3>1. p[1] \in Block \ {i}
      BY <1>3, <2>1, <2>3 DEF Block
    <3> QED  BY <1>1, <1>5, <2>3, <3>1 DEF Fresh, Sweeping
  <2>4. CASE p[1] = i /\ p[2] <= 1
    <3>1. Len(Code(p[1])) \in Nat
      BY <1>3, <2>4
    <3>2. p[2] = 1
      BY <2>1, <2>4, <3>1
    <3> QED  BY <2>1, <2>4, <3>2
  <2> QED  BY <2>2, <2>3, <2>4
<1>10. ASSUME NEW c \in Copies \ Meet(i)
       PROVE  << i, 1 >> \in LostPoints(c)
  <2>1. PICK q \in Prevs(i) : c \notin out[q]
    BY DEF Meet
  <2>2. q \in Block /\ i \in prog.succs[q]
    BY <2>1 DEF Prevs
  <2>3. q \in prog.reach /\ Len(Code(q)) \in Nat
    BY <1>1, <2>2, ProgType
  <2> DEFINE p == << q, Len(Code(q)) + 1 >>
  <2>4. p \in LostPoints(c)
    BY <2>1, <2>3 DEF IInv, Sound
  <2>5. p # c
    <3>1. c[1] = q => c[2] \in 1 .. Len(Code(q))
      BY <1>1, CopyType, PosType
    <3> QED  BY <2>3, <3>1
  <2>6. << i, 1 >> \in Following(p)
    BY <2>2, <2>3 DEF Following
  <2> QED  BY <1>4, <2>4, <2>5, <2>6, LostClosed
<1>11. Sound'
  <2>1. ASSUME NEW p \in Points, Fresh(p)', NEW c \in Copies \ at'[p[1]][p[2]]
        PROVE  p \in LostPoints(c)
    <3>1. CASE p[1] < i /\ Fresh(p) /\ at'[p[1]] = at[p[1]]
      BY <2>1, <3>1 DEF IInv, Sound
    <3>2. CASE p = << i, 1 >>
      BY <1>6, <1>10, <2>1, <3>2
    <3> QED  BY <1>9, <2>1, <3>1, <3>2
  <2> QED  BY <1>1, <1>2, <2>1 DEF IInv, Sound
<1>12. \A b : Meet(b)' = Meet(b)
  BY <1>1, <1>2 DEF Meet
<1>13. Solved'
  <2>1. ASSUME NEW p \in Points, p[1] # 1, Fresh(p)'
        PROVE  /\ p[2] = 1 /\ ~ change => at'[p[1]][1] = Meet(p[1])
               /\ p[2] > 1 => at'[p[1]][p[2]] =
                     Flow(<< p[1], p[2] - 1 >>, at'[p[1]][p[2] - 1])
               /\ p[2] = Len(Code(p[1])) + 1 /\ p[1] < i => out[p[1]] = at'[p[1]][p[2]]
    <3>1. CASE p[1] < i /\ Fresh(p) /\ at'[p[1]] = at[p[1]]
      BY <2>1, <3>1 DEF IInv, Solved
    <3>2. CASE p = << i, 1 >>
      BY <1>3, <1>6, <3>2 DEF Block
    <3> QED  BY <1>9, <2>1, <3>1, <3>2
  <2>2. ~ Finished'
    BY <1>1 DEF Finished
  <2> QED  BY <1>1, <1>2, <1>12, <2>1, <2>2 DEF Solved
<1>14. Search' /\ Walk'
  BY <1>1, <1>2 DEF IInv, Search, Walk
<1> QED
  BY <1>7, <1>8, <1>11, <1>13, <1>14 DEF IInv

\* One instruction: what it loses was lost before, or is killed by it.
LEMMA TranslateInv == IInv /\ Translate => IInv'
<1> SUFFICES ASSUME IInv, Translate  PROVE IInv'
  OBVIOUS
<1> USE ConstAssumption
<1> DEFINE n == Len(Code(i))
           q == << i, j >>
           r == << i, j + 1 >>
<1>1. /\ pc = "translate" /\ pc' = "translate" /\ i \in prog.reach /\ j <= n
      /\ tmp = at[i][j] /\ tmp' = Flow(q, tmp)
      /\ at' = [at EXCEPT ![i][j + 1] = tmp'] /\ j' = j + 1
      /\ UNCHANGED <<prog, inst, out, change, i, found, cur, eq>>
      /\ prog \in Programs /\ i >= 2
  BY DEF Translate, Flow, search, IInv, Control, Sweeping
<1>2. /\ Points' = Points /\ Pos' = Pos /\ Copies' = Copies
      /\ \A b : Code(b)' = Code(b) /\ Prevs(b)' = Prevs(b)
      /\ \A p, S : Flow(p, S)' = Flow(p, S)
      /\ \A c : LostPoints(c)' = LostPoints(c)
  BY <1>1, LostSame
<1>3. /\ i \in Block /\ i # 1 /\ n \in Nat /\ j \in 1 .. n + 1
      /\ DOMAIN at = Block /\ at[i] \in [1 .. n + 1 -> SUBSET Copies]
      /\ tmp \in SUBSET Copies
  <2>1. i \in Block
    BY <1>1, ProgType
  <2> QED  BY SMTT(30), <1>1, <2>1, ProgType DEF IInv, TypeOK, Control
<1>4. /\ j \in 1 .. n /\ j + 1 \in 1 .. n + 1 /\ j # j + 1
      /\ tmp' \in SUBSET Copies
  BY <1>1, <1>3, FlowType
<1>5. q \in Points /\ r \in Points /\ Fresh(q)
  <2>1. j \in 1 .. n + 1
    BY <1>4
  <2> QED  BY <1>1, <1>3, <1>4, <2>1, PointIntro DEF Fresh
<1>6. /\ at'[i] = [at[i] EXCEPT ![j + 1] = tmp']
      /\ \A b \in Block \ {i} : at'[b] = at[b]
      /\ DOMAIN at' = Block
  BY <1>1, <1>3
<1>7. /\ at'[i][j + 1] = tmp'
      /\ \A k \in 1 .. n + 1 : k # j + 1 => at'[i][k] = at[i][k]
  BY <1>3, <1>4, <1>6
<1>8. TypeOK'
  <2>1. at'[i] \in [1 .. n + 1 -> SUBSET Copies]
    BY <1>3, <1>4, <1>6
  <2>2. \A b \in Block : at'[b] \in [1 .. Len(Code(b)) + 1 -> SUBSET Copies]
    BY <1>6, <2>1 DEF IInv, TypeOK
  <2>3. j' \in Nat /\ tmp' \subseteq Copies
    BY <1>1, <1>4
  <2> QED  BY <1>1, <1>2, <1>6, <2>2, <2>3 DEF IInv, TypeOK
<1>9. Control'
  <2>1. at'[1] = at[1]
    <3>1. 1 \in Block \ {i}
      BY <1>3 DEF Block
    <3> QED  BY <1>6, <3>1
  <2>2. j' \in 1 .. Len(Code(i)) + 1 /\ tmp' = at'[i][j'] /\ j' >= 1
    BY <1>1, <1>4, <1>7
  <2> QED  BY <1>1, <1>2, <2>1, <2>2 DEF IInv, Control, Sweeping, Finished
<1>10. ASSUME NEW p \in Points, Fresh(p)'
       PROVE  \/ p[1] < i /\ Fresh(p) /\ at'[p[1]] = at[p[1]]
              \/ /\ p = << i, p[2] >> /\ p[2] \in 1 .. j /\ Fresh(p)
                 /\ \A k \in 1 .. j : at'[i][k] = at[i][k]
              \/ p = r
  <2>1. p = << p[1], p[2] >> /\ p[1] \in Block /\ p[2] \in 1 .. Len(Code(p[1])) + 1
    BY <1>1, PointType
  <2>2. p[1] < i \/ (p[1] = i /\ p[2] <= j + 1)
    BY <1>1, <1>10 DEF Fresh, Sweeping, Finished
  <2>3. CASE p[1] < i
    <3>1. p[1] \in Block \ {i}
      BY <1>3, <2>1, <2>3 DEF Block
    <3> QED  BY <1>1, <1>6, <2>3, <3>1 DEF Fresh, Sweeping
  <2>4. CASE p[1] = i /\ p[2] <= j + 1
    <3>1. p[2] \in 1 .. n + 1
      BY <2>1, <2>4
    <3>2. p[2] \in 1 .. j \/ p[2] = j + 1
      BY <1>3, <2>4, <3>1
    <3>3. \A k \in 1 .. j : at'[i][k] = at[i][k]
      BY <1>3, <1>4, <1>7
    <3>4. p[2] \in 1 .. j => Fresh(p)
      BY <1>1, <2>4 DEF Fresh
    <3> QED  BY <2>1, <2>4, <3>2, <3>3, <3>4
  <2> QED  BY <2>2, <2>3, <2>4
<1>11. ASSUME NEW c \in Copies \ tmp'
       PROVE  r \in LostPoints(c)
  <2>1. c # q /\ (c \notin tmp \/ c \in Kill(q))
    <3>1. c \notin Gen(q)
      BY <1>1, <1>11 DEF Flow
    <3> QED  BY <1>1, <1>11, <3>1 DEF Flow, Gen
  <2>2. r \in Following(q)
    BY <1>3, <1>4 DEF Following
  <2>3. CASE c \notin tmp
    <3>1. q \in LostPoints(c)
      BY <1>1, <1>5, <2>3 DEF IInv, Sound
    <3> QED  BY <1>5, <2>1, <2>2, <3>1, LostClosed
  <2>4. CASE c \in Kill(q)
    <3>1. Kills(c, q)
      BY <1>1, <2>4 DEF Kills
    <3> QED  BY <1>5, <2>2, <3>1, LostClosed
  <2> QED  BY <2>1, <2>3, <2>4
<1>12. Sound'
  <2>1. ASSUME NEW p \in Points, Fresh(p)', NEW c \in Copies \ at'[p[1]][p[2]]
        PROVE  p \in LostPoints(c)
    <3>1. CASE p[1] < i /\ Fresh(p) /\ at'[p[1]] = at[p[1]]
      BY <2>1, <3>1 DEF IInv, Sound
    <3>2. CASE /\ p = << i, p[2] >> /\ p[2] \in 1 .. j /\ Fresh(p)
               /\ \A k \in 1 .. j : at'[i][k] = at[i][k]
      <4>1. p[1] = i /\ at'[p[1]][p[2]] = at[p[1]][p[2]]
        BY <3>2
      <4> QED  BY <2>1, <3>2, <4>1 DEF IInv, Sound
    <3>3. CASE p = r
      BY <1>7, <1>11, <2>1, <3>3
    <3> QED  BY <1>10, <2>1, <3>1, <3>2, <3>3
  <2> QED  BY <1>1, <1>2, <2>1 DEF IInv, Sound
<1>13. \A b : Meet(b)' = Meet(b)
  BY <1>1, <1>2 DEF Meet
<1>14. Solved'
  <2>1. ASSUME NEW p \in Points, p[1] # 1, Fresh(p)'
        PROVE  /\ p[2] = 1 /\ ~ change => at'[p[1]][1] = Meet(p[1])
               /\ p[2] > 1 => at'[p[1]][p[2]] =
                     Flow(<< p[1], p[2] - 1 >>, at'[p[1]][p[2] - 1])
               /\ p[2] = Len(Code(p[1])) + 1 /\ p[1] < i => out[p[1]] = at'[p[1]][p[2]]
    <3>1. CASE p[1] < i /\ Fresh(p) /\ at'[p[1]] = at[p[1]]
      BY <2>1, <3>1 DEF IInv, Solved
    <3>2. CASE /\ p = << i, p[2] >> /\ p[2] \in 1 .. j /\ Fresh(p)
               /\ \A k \in 1 .. j : at'[i][k] = at[i][k]
      <4>1. p[1] = i /\ ~ (p[1] < i)
        BY <1>3, <3>2 DEF Block
      <4>2. /\ at'[p[1]][p[2]] = at[p[1]][p[2]] /\ (p[2] = 1 => at'[p[1]][1] = at[p[1]][1])
            /\ p[2] > 1 => at'[p[1]][p[2] - 1] = at[p[1]][p[2] - 1]
        <5>1. p[2] > 1 => p[2] - 1 \in 1 .. j
          BY <1>3, <3>2
        <5> QED  BY <3>2, <4>1, <5>1
      <4> QED  BY <2>1, <3>2, <4>1, <4>2 DEF IInv, Solved
    <3>3. CASE p = r
      <4>1. p[1] = i /\ p[2] = j + 1 /\ ~ (p[1] < i) /\ p[2] # 1 /\ p[2] - 1 = j
        BY <1>3, <3>3 DEF Block
      <4>2. at'[i][j] = tmp
        BY <1>1, <1>3, <1>4, <1>7
      <4> QED  BY <1>1, <1>7, <4>1, <4>2
    <3> QED  BY <1>10, <2>1, <3>1, <3>2, <3>3
  <2>2. ~ Finished'
    BY <1>1 DEF Finished
  <2> QED  BY <1>1, <1>2, <1>13, <2>1, <2>2 DEF Solved
<1>15. Search' /\ Walk'
  BY <1>1, <1>2 DEF IInv, Search, Walk
<1> QED
  BY <1>8, <1>9, <1>12, <1>14, <1>15 DEF IInv

\* The out set of the block is stored.
LEMMA LeaveInv == IInv /\ LeaveBlock => IInv'
<1> SUFFICES ASSUME IInv, LeaveBlock  PROVE IInv'
  OBVIOUS
<1> USE ConstAssumption
<1> DEFINE n == Len(Code(i))
<1>1. /\ pc = "translate" /\ pc' = "sweep" /\ i \in prog.reach /\ j > n
      /\ j \in 1 .. n + 1 /\ tmp = at[i][j] /\ i' = i + 1
      /\ out' = [out EXCEPT ![i] = tmp] /\ change' = (change \/ tmp # out[i])
      /\ UNCHANGED <<prog, inst, at, j, tmp, found, cur, eq>>
      /\ prog \in Programs /\ i >= 2
  BY DEF LeaveBlock, search, IInv, Control, Sweeping
<1>2. /\ Points' = Points /\ Pos' = Pos /\ Copies' = Copies
      /\ \A b : Code(b)' = Code(b) /\ Prevs(b)' = Prevs(b)
      /\ \A p, S : Flow(p, S)' = Flow(p, S)
      /\ \A c : LostPoints(c)' = LostPoints(c)
  BY <1>1, LostSame
<1>3. /\ i \in Block /\ i # 1 /\ i \in 1 .. N /\ n \in Nat /\ j = n + 1
      /\ out \in [Block -> SUBSET Copies] /\ tmp \in SUBSET Copies
  <2>1. i \in Block /\ n \in Nat
    BY <1>1, ProgType
  <2>2. j = n + 1
    BY <1>1, <2>1
  <2> QED  BY SMTT(30), <1>1, <2>1, <2>2 DEF IInv, TypeOK, Block
<1>4. out'[i] = tmp /\ \A b \in Block \ {i} : out'[b] = out[b]
  BY <1>1, <1>3
<1>5. ~ change' => out' = out /\ ~ change
  BY <1>1, <1>3
<1>6. TypeOK'
  <2>1. out' \in [Block -> SUBSET Copies]
    BY <1>1, <1>3
  <2>2. change' \in BOOLEAN
    BY <1>1
  <2>3. i' \in 1 .. N + 1
    BY <1>1, <1>3
  <2>4. UNCHANGED <<prog, inst, at, j, tmp, found, cur, eq>> /\ pc' = "sweep"
    BY <1>1
  <2> QED  BY <1>2, <2>1, <2>2, <2>3, <2>4 DEF IInv, TypeOK
<1>7. Control'
  <2>1. out'[1] = out[1]
    <3>1. 1 \in Block \ {i}
      BY <1>3 DEF Block
    <3> QED  BY <1>4, <3>1
  <2>2. i' >= 2 /\ pc' # "translate" /\ ~ Finished'
    BY <1>1, <1>3 DEF Finished
  <2>3. UNCHANGED <<prog, at, j>>
    BY <1>1
  <2> QED  BY <2>1, <2>2, <2>3 DEF IInv, Control
<1>8. ASSUME NEW p \in Points, Fresh(p)'
      PROVE  Fresh(p) /\ p[1] \in Block /\ (p[1] < i \/ p[1] = i)
  <2>1. p[1] \in Block /\ p[2] \in 1 .. Len(Code(p[1])) + 1
    BY <1>1, PointType
  <2>2. p[1] < i + 1
    BY <1>1, <1>8 DEF Fresh, Sweeping, Finished
  <2>3. p[1] < i \/ p[1] = i
    BY <1>3, <2>1, <2>2 DEF Block
  <2>4. p[1] = i => p[2] <= j
    <3>1. p[1] = i => p[2] \in 1 .. n + 1
      BY <2>1
    <3> QED  BY <1>3, <3>1
  <2> QED  BY <1>1, <2>1, <2>3, <2>4 DEF Fresh, Sweeping
<1>9. Sound'
  <2>1. ASSUME NEW b \in prog.reach, NEW c \in Copies \ out'[b]
        PROVE  << b, Len(Code(b)) + 1 >> \in LostPoints(c)
    <3>1. CASE b = i
      <4> DEFINE p == << i, n + 1 >>
      <4>1. n + 1 \in 1 .. n + 1
        BY <1>3
      <4>2. p \in Points /\ p[1] = i /\ p[2] = j
        BY <1>1, <1>3, <4>1, PointIntro
      <4>3. Fresh(p) /\ c \notin at[p[1]][p[2]]
        BY <1>1, <1>3, <1>4, <2>1, <3>1, <4>2 DEF Fresh
      <4> QED  BY <2>1, <3>1, <4>2, <4>3 DEF IInv, Sound
    <3>2. CASE b # i
      <4>1. b \in Block
        BY <1>1, ProgType
      <4> QED  BY <1>4, <2>1, <3>2, <4>1 DEF IInv, Sound
    <3> QED  BY <3>1, <3>2
  <2>2. ASSUME NEW p \in Points, Fresh(p)', NEW c \in Copies \ at[p[1]][p[2]]
        PROVE  p \in LostPoints(c)
    BY <1>8, <2>2 DEF IInv, Sound
  <2> QED  BY <1>1, <1>2, <2>1, <2>2 DEF Sound
<1>10. ~ change' => \A b : Meet(b)' = Meet(b)
  BY <1>2, <1>5 DEF Meet
<1>11. Solved'
  <2>1. ASSUME NEW p \in Points, p[1] # 1, Fresh(p)'
        PROVE  /\ p[2] = 1 /\ ~ change' => at[p[1]][1] = Meet(p[1])
               /\ p[2] > 1 => at[p[1]][p[2]] =
                     Flow(<< p[1], p[2] - 1 >>, at[p[1]][p[2] - 1])
               /\ p[2] = Len(Code(p[1])) + 1 => out'[p[1]] = at[p[1]][p[2]]
    <3>1. Fresh(p) /\ p[1] \in Block /\ (p[1] < i \/ p[1] = i)
      BY <1>8, <2>1
    <3>2. /\ p[2] = 1 /\ ~ change' => at[p[1]][1] = Meet(p[1])
          /\ p[2] > 1 => at[p[1]][p[2]] =
                Flow(<< p[1], p[2] - 1 >>, at[p[1]][p[2] - 1])
      BY <1>5, <2>1, <3>1 DEF IInv, Solved
    <3>3. p[2] = Len(Code(p[1])) + 1 => out'[p[1]] = at[p[1]][p[2]]
      <4>1. CASE p[1] = i
        BY <1>1, <1>3, <1>4, <4>1
      <4>2. CASE p[1] < i /\ p[1] # i
        BY <1>4, <2>1, <3>1, <4>2 DEF IInv, Solved
      <4> QED  BY <3>1, <4>1, <4>2
    <3> QED  BY <3>2, <3>3
  <2> QED  BY <1>1, <1>2, <1>10, <2>1 DEF Solved
<1>12. Search' /\ Walk'
  BY <1>1, <1>2 DEF IInv, Search, Walk
<1> QED
  BY <1>6, <1>7, <1>9, <1>11, <1>12 DEF IInv

\* The operands asked for, and the instruction with what was found for them.
LEMMA WantedType ==
    ASSUME NEW c \in Inst
    PROVE  /\ Wanted(c) \in Seq(Operand) /\ Len(Wanted(c)) \in 0 .. 2
           /\ \A ops \in Seq(Operand) : Len(ops) = Len(Wanted(c)) => Replaced(c, ops) \in Inst
<1>1. /\ c.op \in Op /\ c.res \in Operand /\ c.arg1 \in Operand /\ c.arg2 \in Operand
      /\ c = [op |-> c.op, res |-> c.res, arg1 |-> c.arg1, arg2 |-> c.arg2]
  BY DEF Inst
<1>2. CASE c.op \in {"as", "expr"}
  <2>1. Wanted(c) = << c.arg1, c.arg2 >>
    BY <1>2 DEF Wanted
  <2>2. ASSUME NEW ops \in Seq(Operand), Len(ops) = 2
        PROVE  Replaced(c, ops) \in Inst
    <3>1. ops[1] \in Operand /\ ops[2] \in Operand
      BY <2>2
    <3>2. Replaced(c, ops) = [c EXCEPT !.arg1 = ops[1], !.arg2 = ops[2]]
      BY <1>2 DEF Replaced
    <3> QED  BY <1>1, <3>1, <3>2 DEF Inst
  <2> QED  BY <1>1, <2>1, <2>2
<1>3. CASE c.op = "set"
  <2>1. Wanted(c) = << c.res >>
    BY <1>3 DEF Wanted
  <2>2. ASSUME NEW ops \in Seq(Operand), Len(ops) = 1
        PROVE  Replaced(c, ops) \in Inst
    <3>1. ops[1] \in Operand
      BY <2>2
    <3>2. Replaced(c, ops) = [c EXCEPT !.res = ops[1]]
      BY <1>3 DEF Replaced
    <3> QED  BY <1>1, <3>1, <3>2 DEF Inst
  <2> QED  BY <1>1, <2>1, <2>2
<1>4. CASE c.op = "use"
  <2>1. Wanted(c) = << c.arg1 >>
    BY <1>4 DEF Wanted
  <2>2. ASSUME NEW ops \in Seq(Operand), Len(ops) = 1
        PROVE  Replaced(c, ops) \in Inst
    <3>1. ops[1] \in Operand
      BY <2>2
    <3>2. Replaced(c, ops) = [c EXCEPT !.arg1 = ops[1]]
      BY <1>4 DEF Replaced
    <3> QED  BY <1>1, <3>1, <3>2 DEF Inst
  <2> QED  BY <1>1, <2>1, <2>2
<1>5. CASE c.op \notin {"as", "expr", "set", "use"}
  <2>1. Wanted(c) = << >>
    BY <1>5 DEF Wanted
  <2>2. \A ops : Replaced(c, ops) = c
    BY <1>5 DEF Replaced
  <2>3. Wanted(c) \in Seq(Operand) /\ Len(Wanted(c)) \in 0 .. 2
    BY <2>1
  <2> QED  BY <2>2, <2>3
<1> QED
  BY <1>2, <1>3, <1>4, <1>5

\* The instruction that propagate is at.
LEMMA CurrentType ==
    ASSUME IInv, i \in prog.reach, j <= Len(Code(i))
    PROVE  /\ i \in Block /\ inst[i] \in Seq(Inst) /\ j \in 1 .. Len(inst[i])
           /\ inst[i][j] \in Inst /\ Len(inst[i]) = Len(Code(i))
<1>1. /\ prog \in Programs /\ j \in Nat /\ j >= 1
  BY DEF IInv, TypeOK, Control
<1>2. i \in Block /\ Len(Code(i)) \in Nat
  BY <1>1, ProgType
<1>3. inst[i] \in Seq(Inst) /\ Len(inst[i]) = Len(Code(i))
  BY <1>2 DEF IInv, TypeOK, Search
<1>4. j \in 1 .. Len(inst[i])
  BY <1>1, <1>2, <1>3
<1>5. inst[i][j] \in Inst
  <2> HIDE DEF Inst
  <2> QED  BY <1>3, <1>4
<1> QED
  BY <1>2, <1>3, <1>4, <1>5

\* Block by block.
LEMMA NextBlockInv == IInv /\ NextBlock => IInv'
<1> SUFFICES ASSUME IInv, NextBlock  PROVE IInv'
  OBVIOUS
<1> USE ConstAssumption
<1>1. /\ pc = "propagate" /\ i <= N /\ i \in Nat /\ i >= 1 /\ i' = i + 1 /\ j' = 1
      /\ UNCHANGED <<prog, inst, out, at, change, tmp, found, cur, eq, pc>>
  BY DEF NextBlock, analysis, search, IInv, TypeOK
<1>2. Pos' = Pos /\ Copies' = Copies /\ \A b : Code(b)' = Code(b)
  BY <1>1, LostSame
<1>3. TypeOK'
  <2>1. i' \in 1 .. N + 1 /\ j' \in Nat
    BY <1>1
  <2> QED  BY <1>1, <1>2, <2>1 DEF IInv, TypeOK
<1>4. Control' /\ Sound' /\ Solved'
  BY <1>1, KeptInv DEF Finished
<1>5. Search' /\ Walk'
  BY <1>1, <1>2 DEF IInv, Search, Walk
<1> QED
  BY <1>3, <1>4, <1>5 DEF IInv

\* find is called for the next operand.
LEMMA StartFindInv == IInv /\ StartFind => IInv'
<1> SUFFICES ASSUME IInv, StartFind  PROVE IInv'
  OBVIOUS
<1>1. /\ pc = "propagate" /\ pc' = "find" /\ i \in prog.reach /\ j <= Len(Code(i))
      /\ Len(found) < Len(Wanted(inst[i][j]))
      /\ cur' = Wanted(inst[i][j])[Len(found) + 1]
      /\ UNCHANGED <<prog, inst, out, at, change, tmp, i, j, found, eq>>
  BY DEF StartFind, analysis
<1>2. Pos' = Pos /\ Copies' = Copies /\ \A b : Code(b)' = Code(b)
  BY <1>1, LostSame
<1>3. TypeOK'
  <2>1. Wanted(inst[i][j]) \in Seq(Operand)
    BY <1>1, CurrentType, WantedType
  <2>2. Len(found) \in Nat
    BY DEF IInv, TypeOK
  <2>3. Len(found) + 1 \in 1 .. Len(Wanted(inst[i][j]))
    BY <1>1, <2>1, <2>2
  <2>4. cur' \in Operand
    BY <1>1, <2>1, <2>3
  <2> QED  BY <1>1, <1>2, <2>4 DEF IInv, TypeOK
<1>4. Control' /\ Sound' /\ Solved'
  BY <1>1, KeptInv DEF Finished, IInv, Control
<1>5. Search' /\ Walk'
  <2>1. Wanted(inst[i][j])' = Wanted(inst[i][j])
    BY <1>1 DEF Wanted
  <2> QED  BY <1>1, <1>2, <2>1 DEF IInv, Search, Walk
<1> QED
  BY <1>3, <1>4, <1>5 DEF IInv

\* The operands are replaced; the code keeps its length.
LEMMA ReplaceInv == IInv /\ Replace => IInv'
<1> SUFFICES ASSUME IInv, Replace  PROVE IInv'
  OBVIOUS
<1>1. /\ pc = "propagate" /\ i \in prog.reach /\ j <= Len(Code(i))
      /\ Len(found) = Len(Wanted(inst[i][j]))
      /\ inst' = [inst EXCEPT ![i][j] = Replaced(@, found)]
      /\ found' = << >> /\ j' = j + 1
      /\ UNCHANGED <<prog, out, at, change, tmp, i, cur, eq, pc>>
  BY DEF Replace, analysis
<1>2. Pos' = Pos /\ Copies' = Copies /\ \A b : Code(b)' = Code(b)
  BY <1>1, LostSame
<1>3. /\ i \in Block /\ inst[i] \in Seq(Inst) /\ j \in 1 .. Len(inst[i])
      /\ inst \in [Block -> Seq(Inst)]
  BY <1>1, CurrentType DEF IInv, TypeOK
<1> DEFINE new == Replaced(inst[i][j], found)
<1>4. new \in Inst
  BY <1>1, CurrentType, WantedType DEF IInv, TypeOK
<1>5. /\ inst'[i] = [inst[i] EXCEPT ![j] = new]
      /\ \A b \in Block \ {i} : inst'[b] = inst[b]
      /\ inst' = [inst EXCEPT ![i] = [inst[i] EXCEPT ![j] = new]]
  <2> HIDE DEF Inst
  <2> QED  BY <1>1, <1>3
<1>6. inst'[i] \in Seq(Inst) /\ Len(inst'[i]) = Len(inst[i])
  <2> HIDE DEF Inst, new
  <2> QED  BY <1>3, <1>4, <1>5
<1>7. TypeOK'
  <2>1. inst' \in [Block -> Seq(Inst)]
    <3> HIDE DEF Inst, new
    <3> QED  BY <1>3, <1>5, <1>6
  <2>2. found' \in Seq(Operand) /\ Len(found') <= 2 /\ j' \in Nat
    BY <1>1 DEF IInv, TypeOK
  <2>3. UNCHANGED <<prog, out, at, change, tmp, i, cur, eq, pc>>
    BY <1>1
  <2> QED  BY <1>2, <2>1, <2>2, <2>3 DEF IInv, TypeOK
<1>8. Control' /\ Sound' /\ Solved'
  <2>1. j' >= 1
    BY <1>1 DEF IInv, TypeOK
  <2> QED  BY <1>1, <2>1, KeptInv DEF Finished
<1>9. Search'
  <2>1. \A b \in Block : Len(inst'[b]) = Len(Code(b))
    BY <1>5, <1>6 DEF IInv, Search
  <2> QED  BY <1>1, <1>2, <2>1 DEF Search
<1>10. Walk'
  BY <1>1 DEF Walk
<1> QED
  BY <1>7, <1>8, <1>9, <1>10 DEF IInv

\* find returns an operand.
LEMMA FoundInv ==
    ASSUME IInv, pc = "find", NEW v \in Operand, Found(v)
    PROVE  IInv'
<1>1. /\ pc' = "propagate" /\ found' = Append(found, v)
      /\ UNCHANGED <<prog, inst, out, at, change, tmp, i, j, cur, eq>>
  BY DEF Found, analysis
<1>2. Pos' = Pos /\ Copies' = Copies /\ \A b : Code(b)' = Code(b)
  BY <1>1, LostSame
<1>3. TypeOK'
  <2>1. found \in Seq(Operand) /\ Len(found) < Len(Wanted(inst[i][j]))
    BY DEF IInv, TypeOK, Search
  <2>2. Len(Wanted(inst[i][j])) \in 0 .. 2
    BY CurrentType, WantedType DEF IInv, Search
  <2>3. found' \in Seq(Operand) /\ Len(found') <= 2
    <3> DEFINE n == Len(Wanted(inst[i][j]))
    <3>1. n \in 0 .. 2 /\ Len(found) < n
      BY <2>1, <2>2
    <3> HIDE DEF Operand, n
    <3>2. found' \in Seq(Operand) /\ Len(found') = Len(found) + 1 /\ Len(found) \in Nat
      BY <1>1, <2>1
    <3> QED  BY <3>1, <3>2
  <2> QED  BY <1>1, <1>2, <2>3 DEF IInv, TypeOK
<1>4. Control' /\ Sound' /\ Solved'
  BY <1>1, KeptInv DEF Finished, IInv, Control
<1>5. Search' /\ Walk'
  BY <1>1, <1>2 DEF IInv, Search, Walk
<1> QED
  BY <1>3, <1>4, <1>5 DEF IInv

\* find returns: nothing more gives the variable its value, or it has come
\* back to where it began.
LEMMA FindEndsInv == IInv /\ FindEnds => IInv'
BY FoundInv DEF FindEnds, IInv, TypeOK

LEMMA FindCircleInv == IInv /\ FindCircle => IInv'
<1> SUFFICES ASSUME IInv, FindCircle  PROVE IInv'
  OBVIOUS
<1>1. pc = "find" /\ Found(Src)
  BY DEF FindCircle
<1>2. Src \in Operand
  <2>1. i \in prog.reach /\ j <= Len(Code(i)) /\ Len(found) < Len(Wanted(inst[i][j]))
    BY <1>1 DEF IInv, Search
  <2>2. Wanted(inst[i][j]) \in Seq(Operand)
    BY <2>1, CurrentType, WantedType
  <2>3. Len(found) \in Nat
    BY DEF IInv, TypeOK
  <2>4. Len(found) + 1 \in 1 .. Len(Wanted(inst[i][j]))
    BY <2>1, <2>2, <2>3
  <2> QED  BY <2>2, <2>4 DEF Src
<1> QED
  BY <1>1, <1>2, FoundInv

\* find goes on to the source of a copy, which propagate may have replaced.
LEMMA FindOnInv == IInv /\ FindOn => IInv'
<1> SUFFICES ASSUME IInv, FindOn  PROVE IInv'
  OBVIOUS
<1>1. /\ pc = "find" /\ UNCHANGED <<prog, inst, out, at, change, tmp, i, j, found, eq, pc>>
      /\ prog \in Programs
  BY DEF FindOn, analysis, IInv, Control
<1>2. PICK c \in Givers(cur) : cur' = From(c)
  BY DEF FindOn
<1>3. Pos' = Pos /\ Copies' = Copies /\ \A b : Code(b)' = Code(b)
  BY <1>1, LostSame
<1>4. c \in Copies
  <2>1. i \in prog.reach /\ j <= Len(Code(i)) /\ j \in Nat /\ j >= 1
    BY <1>1 DEF IInv, Search, Control, TypeOK
  <2>2. i \in Block /\ Len(Code(i)) \in Nat
    BY <1>1, <2>1, ProgType
  <2>3. j \in 1 .. Len(Code(i)) + 1
    BY <2>1, <2>2
  <2>4. at[i][j] \in SUBSET Copies
    BY <2>2, <2>3 DEF IInv, TypeOK
  <2> QED  BY <1>2, <2>4 DEF Givers
<1>5. cur' \in Operand
  <2>1. c[1] \in Block /\ c[2] \in 1 .. Len(Code(c[1]))
    BY <1>1, <1>4, CopyType, PosType
  <2>2. inst[c[1]] \in Seq(Inst) /\ Len(inst[c[1]]) = Len(Code(c[1]))
    BY <2>1 DEF IInv, TypeOK, Search
  <2>3. inst[c[1]][c[2]] \in Inst
    <3> HIDE DEF Inst
    <3> QED  BY <2>1, <2>2
  <2> QED  BY <1>2, <2>3 DEF From, Inst
<1>6. TypeOK'
  BY <1>1, <1>3, <1>5 DEF IInv, TypeOK
<1>7. Control' /\ Sound' /\ Solved'
  BY <1>1, KeptInv DEF Finished, IInv, Control
<1>8. Search' /\ Walk'
  <2>1. Wanted(inst[i][j])' = Wanted(inst[i][j])
    BY <1>1 DEF Wanted
  <2> QED  BY <1>1, <1>3, <2>1 DEF IInv, Search, Walk
<1> QED
  BY <1>6, <1>7, <1>8 DEF IInv

\* Nothing is available where the walk begins.
LEMMA PropagatedInv == IInv /\ Propagated => IInv'
<1> SUFFICES ASSUME IInv, Propagated  PROVE IInv'
  OBVIOUS
<1> USE ConstAssumption
<1>1. /\ pc = "propagate" /\ i' = 1 /\ j' = 1 /\ pc' = "walk"
      /\ UNCHANGED <<prog, inst, out, at, change, tmp, found, cur, eq>>
      /\ prog \in Programs
  BY DEF Propagated, analysis, search, IInv, Control
<1>2. Pos' = Pos /\ Copies' = Copies /\ \A b : Code(b)' = Code(b) /\ \A p : At(p)' = At(p)
  BY <1>1, LostSame
<1>3. TypeOK'
  BY <1>1, <1>2 DEF IInv, TypeOK
<1>4. Control' /\ Sound' /\ Solved'
  BY <1>1, KeptInv DEF Finished
<1>5. Search'
  BY <1>1, <1>2 DEF IInv, Search
<1>6. Walk'
  <2>1. at'[1][1] = {}
    <3>1. at[1] = [k \in 1 .. 2 |-> {}]
      BY DEF IInv, Control
    <3> QED  BY <1>1, <3>1
  <2>2. (i \in prog.reach /\ j <= Len(Code(i)) + 1)'
    <3>1. 1 \in prog.reach /\ Len(Code(1)) = 1
      BY <1>1, ProgType
    <3>2. Code(i)' = Code(1)
      BY <1>1 DEF Code
    <3> QED  BY <1>1, <3>1, <3>2
  <2> QED  BY <1>1, <2>1, <2>2 DEF Walk, Holds
<1> QED
  BY <1>3, <1>4, <1>5, <1>6 DEF IInv

\* An instruction of the walk keeps what the set after it still claims.
LEMMA AfterHolds ==
    ASSUME IInv, pc = "walk", j <= Len(Code(i)),
           NEW d \in Flow(<< i, j >>, at[i][j])
    PROVE  \/ At(d).res = At(d).arg1
           \/ << At(d).res, At(d).arg1 >> \in After(Code(i)[j])
<1> DEFINE p == << i, j >>
           c == Code(i)[j]
<1>1. /\ prog \in Programs /\ i \in prog.reach /\ j \in Nat /\ j >= 1 /\ Holds(p)
  BY DEF IInv, TypeOK, Control, Walk
<1>2. i \in Block /\ Len(Code(i)) \in Nat
  BY <1>1, ProgType
<1>3. j \in 1 .. Len(Code(i)) /\ j \in 1 .. Len(Code(i)) + 1
  BY <1>1, <1>2
<1>4. c \in Inst /\ c = At(p)
  BY <1>1, <1>2, <1>3, InstType DEF At
<1>5. at[i][j] \in SUBSET Copies
  BY <1>2, <1>3 DEF IInv, TypeOK
<1>6. CASE d = p /\ p \in Copies
  <2>1. c.op = "as" /\ c = At(d) /\ c.arg1 \in Var
    BY <1>1, <1>4, <1>6, CopyType
  <2>2. CASE c.res # c.arg1
    BY <2>1, <2>2 DEF After
  <2> QED  BY <2>1, <2>2
<1>7. CASE d \in at[i][j] /\ d \notin Kill(p) /\ d # p
  <2>1. d \in Copies /\ (At(d).res = At(d).arg1 \/ << At(d).res, At(d).arg1 >> \in eq)
    BY <1>1, <1>5, <1>7 DEF Holds
  <2>2. c.op \notin {"set", "call"}
    BY <1>4, <1>7, <2>1 DEF Kill
  <2>3. c.op \in {"as", "expr", "lea"} => c.res \notin {At(d).res, At(d).arg1}
    BY <1>4, <1>7, <2>1 DEF Kill
  <2>4. CASE << At(d).res, At(d).arg1 >> \in eq
    <3> DEFINE e == << At(d).res, At(d).arg1 >>
               keep == {x \in eq : c.res \notin {x[1], x[2]}}
    <3>1. CASE c.op \in {"expr", "lea"}
      <4>1. e \in keep
        BY <2>3, <2>4, <3>1
      <4>2. After(c) = keep
        BY <3>1 DEF After
      <4> QED  BY <4>1, <4>2
    <3>2. CASE c.op = "as" /\ c.res # c.arg1
      <4>1. e \in keep
        BY <2>3, <2>4, <3>2
      <4>2. keep \subseteq After(c)
        BY <3>2 DEF After
      <4> QED  BY <4>1, <4>2
    <3>3. CASE c.op \notin {"expr", "lea"} /\ ~ (c.op = "as" /\ c.res # c.arg1)
      <4>1. After(c) = eq
        BY <2>2, <3>3 DEF After
      <4> QED  BY <2>4, <4>1
    <3> QED  BY <3>1, <3>2, <3>3
  <2> QED  BY <2>1, <2>4
<1>8. d \in Gen(p) \/ (d \in at[i][j] /\ d \notin Kill(p))
  BY DEF Flow
<1>9. CASE d \in Gen(p)
  BY <1>6, <1>9 DEF Gen
<1>10. CASE d \notin Gen(p)
  <2>1. d \in at[i][j] /\ d \notin Kill(p) /\ d # p
    BY <1>5, <1>8, <1>10 DEF Gen
  <2> QED  BY <1>7, <2>1
<1> QED
  BY <1>9, <1>10

\* The pairs are pairs of variables.
LEMMA AfterType ==
    ASSUME eq \subseteq Var \X Var, NEW c \in Inst,
           c.op = "as" => c.res \in Var /\ c.arg1 \in Var
    PROVE  After(c) \subseteq Var \X Var
<1>1. CASE c.op \in {"set", "call"}
  BY <1>1 DEF After
<1>2. CASE c.op \in {"expr", "lea"}
  BY <1>2 DEF After
<1>3. CASE c.op = "as" /\ c.res # c.arg1
  <2> DEFINE keep  == {e \in eq : c.res \notin {e[1], e[2]}}
             class == {c.arg1} \cup {v \in Var : << c.arg1, v >> \in keep}
  <2>1. After(c) = keep \cup {<< c.res, v >> : v \in class} \cup {<< v, c.res >> : v \in class}
    BY <1>3 DEF After
  <2>2. class \subseteq Var /\ c.res \in Var /\ keep \subseteq Var \X Var
    BY <1>3
  <2> HIDE DEF keep, class
  <2> QED  BY <2>1, <2>2
<1>4. CASE c.op \notin {"set", "call", "expr", "lea"} /\ ~ (c.op = "as" /\ c.res # c.arg1)
  BY <1>4 DEF After
<1> QED
  BY <1>1, <1>2, <1>3, <1>4

LEMMA WalkInstInv == IInv /\ WalkInst => IInv'
<1> SUFFICES ASSUME IInv, WalkInst  PROVE IInv'
  OBVIOUS
<1> DEFINE p == << i, j >>
           q == << i, j + 1 >>
<1>1. /\ pc = "walk" /\ j <= Len(Code(i)) /\ eq' = After(Code(i)[j]) /\ j' = j + 1
      /\ UNCHANGED <<prog, inst, out, at, change, tmp, i, found, cur, pc>>
      /\ prog \in Programs /\ j \in Nat /\ j >= 1 /\ i \in prog.reach
  BY DEF WalkInst, analysis, search, IInv, TypeOK, Control, Walk
<1>2. Pos' = Pos /\ Copies' = Copies /\ \A b : Code(b)' = Code(b) /\ \A r : At(r)' = At(r)
  BY <1>1, LostSame
<1>3. i \in Block /\ Len(Code(i)) \in Nat
  BY <1>1, ProgType
<1>4. j \in 1 .. Len(Code(i)) /\ j \in 1 .. Len(Code(i)) + 1 /\ j + 1 <= Len(Code(i)) + 1
  BY <1>1, <1>3
<1>5. p \in Points /\ q \in Following(p)
  <2>1. ~ (j > Len(Code(i)))
    BY <1>1, <1>3
  <2> QED  BY <1>1, <1>4, <2>1, PointIntro DEF Following
<1>6. TypeOK'
  <2>1. eq' \subseteq Var \X Var
    BY <1>1, <1>3, <1>4, InstType, AfterType DEF IInv, TypeOK
  <2>2. j' \in Nat
    BY <1>1
  <2> QED  BY <1>1, <1>2, <2>1, <2>2 DEF IInv, TypeOK
<1>7. Control' /\ Sound' /\ Solved'
  <2>1. j' >= 1
    BY <1>1
  <2> QED  BY <1>1, <2>1, KeptInv DEF Finished
<1>8. Search'
  BY <1>1, <1>2 DEF IInv, Search
<1>9. Walk'
  <2>1. at[i][j + 1] \subseteq Flow(p, at[i][j])
    BY <1>1, <1>5, AtFollow DEF Finished
  <2>2. ASSUME NEW d \in at[i][j + 1]
        PROVE  At(d).res = At(d).arg1 \/ << At(d).res, At(d).arg1 >> \in eq'
    BY <1>1, <2>1, <2>2, AfterHolds
  <2> QED  BY <1>1, <1>2, <1>4, <2>2 DEF Walk, Holds
<1> QED
  BY <1>6, <1>7, <1>8, <1>9 DEF IInv

\* Along an edge nothing becomes available.
LEMMA WalkEdgeInv == IInv /\ WalkEdge => IInv'
<1> SUFFICES ASSUME IInv, WalkEdge  PROVE IInv'
  OBVIOUS
<1> DEFINE p == << i, j >>
           q == << i', 1 >>
<1>1. /\ pc = "walk" /\ j > Len(Code(i)) /\ i' \in prog.succs[i] /\ j' = 1
      /\ UNCHANGED <<prog, inst, out, at, change, tmp, found, cur, eq, pc>>
      /\ prog \in Programs /\ j \in Nat /\ j >= 1 /\ i \in prog.reach
      /\ j <= Len(Code(i)) + 1 /\ Holds(p)
  BY DEF WalkEdge, analysis, search, IInv, TypeOK, Control, Walk
<1>2. Pos' = Pos /\ Copies' = Copies /\ \A b : Code(b)' = Code(b) /\ \A r : At(r)' = At(r)
  BY <1>1, LostSame
<1>3. i \in Block /\ Len(Code(i)) \in Nat
  BY <1>1, ProgType
<1>4. j \in 1 .. Len(Code(i)) + 1
  BY <1>1, <1>3
<1>5. p \in Points /\ q \in Following(p)
  BY <1>1, <1>4, PointIntro DEF Following
<1>6. i' \in prog.reach /\ i' \in Block /\ Len(Code(i')) \in Nat
  BY <1>1, <1>3, ProgType
<1>7. TypeOK'
  <2>1. i' \in 1 .. N + 1 /\ j' \in Nat
    BY <1>1, <1>6, ConstAssumption DEF Block
  <2> QED  BY <1>1, <1>2, <2>1 DEF IInv, TypeOK
<1>8. Control' /\ Sound' /\ Solved'
  <2>1. j' >= 1
    BY <1>1
  <2> QED  BY <1>1, <2>1, KeptInv DEF Finished
<1>9. Search'
  BY <1>1, <1>2 DEF IInv, Search
<1>10. Walk'
  <2>1. at[i'][1] \subseteq at[i][j]
    BY <1>1, <1>5, AtFollow DEF Finished
  <2>2. \A d \in at[i'][1] : At(d).res = At(d).arg1 \/ << At(d).res, At(d).arg1 >> \in eq
    BY <1>1, <2>1 DEF Holds
  <2>3. at'[i'][j'] = at[i'][1] /\ eq' = eq
    BY <1>1
  <2>4. Holds(<< i, j >>)'
    BY <1>2, <2>2, <2>3 DEF Holds
  <2>5. Code(i)' = prog.code[i'] /\ Code(i') = prog.code[i']
    BY <1>1 DEF Code
  <2>6. (i \in prog.reach /\ j <= Len(Code(i)) + 1)'
    BY <1>1, <1>6, <2>5
  <2> QED  BY <2>4, <2>6 DEF Walk
<1> QED
  BY <1>7, <1>8, <1>9, <1>10 DEF IInv

LEMMA StutterInv == IInv /\ UNCHANGED vars => IInv'
<1> SUFFICES ASSUME IInv, UNCHANGED vars  PROVE IInv'
  OBVIOUS
<1>1. UNCHANGED <<prog, inst, out, at, change, tmp, i, j, found, cur, eq, pc>>
  BY DEF vars, analysis, search
<1>2. /\ Pos' = Pos /\ Copies' = Copies /\ \A b : Code(b)' = Code(b)
      /\ \A p : At(p)' = At(p) /\ Points' = Points
  BY <1>1, LostSame
<1>3. TypeOK'
  BY <1>1, <1>2 DEF IInv, TypeOK
<1>4. Control'
  BY <1>1, <1>2 DEF IInv, Control, Sweeping, Finished
<1>5. Sound' /\ Solved'
  BY <1>1, SetsKept DEF Fresh, Sweeping, Finished
<1>6. Search' /\ Walk'
  <2>1. Wanted(inst[i][j])' = Wanted(inst[i][j])
    BY <1>1 DEF Wanted
  <2> QED  BY <1>1, <1>2, <2>1 DEF IInv, Search, Walk, Holds
<1> QED
  BY <1>3, <1>4, <1>5, <1>6 DEF IInv

LEMMA NextInv == IInv /\ [Next]_vars => IInv'
BY SkipInv, EnterInv, TranslateInv, LeaveInv, AgainInv, EndInv, NextBlockInv, StartFindInv,
   ReplaceInv, FindEndsInv, FindCircleInv, FindOnInv, PropagatedInv, WalkInstInv,
   WalkEdgeInv, StutterInv
   DEF Next

-----------------------------------------------------------------------------
(* Theorems *)

\* The inductive invariant holds of every function.
THEOREM Invariance == Spec => []IInv
<1>1. Init => IInv
  BY InitInv
<1>2. IInv /\ [Next]_vars => IInv'
  BY NextInv
<1> QED
  BY <1>1, <1>2, PTL DEF Spec

\* The passes stay inside the code: __find is asked for an operand, the index
\* of an instruction is one of the block, and no set names anything but copies.
THEOREM TypeCorrect == Spec => []TypeOK
<1>1. IInv => TypeOK
  BY DEF IInv
<1> QED
  BY <1>1, Invariance, PTL

\* When analyse returns, a copy is in the set of an instruction if and only if
\* every path from ENTRY passes it and changes neither variable after it.
THEOREM AnalysisExact == Spec => []AvailableExact
<1>1. IInv => AvailableExact
  BY ExactAtEnd DEF AvailableExact, Finished
<1> QED
  BY <1>1, Invariance, PTL

\* Whatever path execution takes through the function, both sides of every
\* available copy are equal: what __find is given to follow is true.
THEOREM CopiesHold == Spec => []AvailableCopiesHold
<1>1. IInv => AvailableCopiesHold
  BY DEF IInv, Walk, Holds, AvailableCopiesHold
<1> QED
  BY <1>1, Invariance, PTL
=============================================================================
