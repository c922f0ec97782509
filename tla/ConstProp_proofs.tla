-------------------------- MODULE ConstProp_proofs --------------------------
(***************************************************************************)
(* Proofs about ConstProp, for every function: when analyse returns, its   *)
(* vectors solve the equations of the analysis; in a regular function, one *)
(* that keeps clear of what the analysis does not see, what they call      *)
(* constant is constant, and an instruction that algebraSimplify makes     *)
(* without SymTab::zero does what the original one does.                   *)
(***************************************************************************)
EXTENDS ConstProp, FiniteSetTheorems, TLAPS

-----------------------------------------------------------------------------
(* Regular functions *)

Points == UNION {{<< b, k >> : k \in 1 .. Len(Code(b)) + 1} : b \in Block}

\* The sets of points that have ENTRY's and every point that follows one of
\* theirs without an assignment to v in between.
ClosedSets(v) ==
    {set \in SUBSET Points :
        /\ \A k \in 1 .. Len(Code(1)) + 1 : << 1, k >> \in set
        /\ \A b \in Block : \A q \in Prevs(b) :
              << q, Len(Code(q)) + 1 >> \in set => << b, 1 >> \in set
        /\ \A b \in Block : \A k \in 1 .. Len(Code(b)) :
              << b, k >> \in set /\ ~(Code(b)[k].op \in Expr /\ Code(b)[k].res = v)
                 => << b, k + 1 >> \in set}

\* A path from ENTRY reaches the point before any assignment to v.
Untouched(v) ==
    LET sets == ClosedSets(v) IN {p \in Points : \A set \in sets : p \in set}

Instructions == UNION {{Code(b)[k] : k \in 1 .. Len(Code(b))} : b \in Block}

\* The locals and parameters whose address the function takes.
Addressed ==
    {c.arg1 : c \in {d \in Instructions : d.op = "lea"}} \cap (Local \cup Param)

\* Pointers handed to calls, and pointers kept in globals.
PointerHanded == \E c \in Instructions : c.op = "arg" /\ c.arg1 \in Pointers
PointerKept   == \E c \in Instructions : Escapes(c) /\ c.op # "arg"

\* What the analysis relies on, and the compiler does not see to:
\*  - it takes the initial value of a global for its value at the entry, which
\*    is so in main, and no value for any value (constprop.cpp:25);
\*  - it passes over DEC, which gives a variable its initial value again
\*    (constprop.cpp:42); a declaration that can be reached before the
\*    variable is assigned finds that value or NAC;
\*  - a procedure may change a local or a parameter whose address a call
\*    before was given, or a global pointer keeps, and the analysis loses the
\*    globals only (constprop.cpp:239).
Regular ==
    /\ prog.main \/ Global \subseteq Pointers
    /\ \A v \in Global \ Pointers : prog.init[v] # Undef
    /\ \A b \in Block : \A k \in 1 .. Len(Code(b)) :
          Code(b)[k].op = "dec" /\ prog.init[Code(b)[k].arg1] # Undef
             => << b, k >> \in Untouched(Code(b)[k].arg1)
    /\ PointerHanded => \A c \in Instructions : c.op \in Pure => c.res \notin Addressed
    /\ PointerKept => Addressed = {}

-----------------------------------------------------------------------------
(* The inductive invariant *)

Sweeping == pc \in {"sweep", "translate"}
Finished == pc \in {"simplify", "walk"}

\* The vectors that the current sweep, or the last one, has computed.
Fresh(b, k) ==
    \/ Finished
    \/ Sweeping /\ b < i
    \/ pc = "translate" /\ b = i /\ k <= j

Control ==
    /\ prog \in Programs
    /\ j >= 1
    /\ out[1] = BoundVals
    /\ pc # "walk" => i >= 2 /\ taken = {} /\ handed = {}
    /\ pc = "translate" => /\ i \in Block /\ j \in 1 .. Len(Code(i)) + 1
                           /\ tmp = at[i][j]
    /\ pc = "walk" => i \in Block /\ j \in 1 .. Len(Code(i)) + 1
    /\ Finished => ~change

\* The equations of the analysis; those between blocks are good only as long
\* as the sweep has changed nothing.
Solved ==
    \A b \in Block \ {1} : \A k \in 1 .. Len(Code(b)) + 1 : Fresh(b, k) =>
        /\ k = 1 /\ ~change => at[b][1] = JoinAll(out, b)
        /\ k > 1 => at[b][k] = Transfer(Code(b)[k - 1], at[b][k - 1])
        /\ k = Len(Code(b)) + 1 /\ (Finished \/ b < i) => out[b] = at[b][k]

\* The instructions that the pass has been over.
Passed(b, k) ==
    \/ pc = "walk"
    \/ pc = "simplify" /\ (b < i \/ (b = i /\ k < j))

NewCode(b, k) == Decided(Simplified(Code(b)[k], at[b][k], at[b][k + 1]), at[b][k])

Replaced ==
    /\ inst[1] = Code(1)
    /\ \A b \in Block \ {1} : \A k \in 1 .. Len(Code(b)) :
          Passed(b, k) => inst[b][k] = NewCode(b, k)

IInv == TypeOK /\ Control /\ Solved /\ Replaced

\* A vector tells the truth about what the variables hold.
True(vec, values) ==
    \A v \in Var : /\ vec[v] = Undef => values[v] = Undef
                   /\ Const(vec[v]) => values[v] \in {vec[v], Undef}

\* ENTRY has no vectors of its own: it ends with BoundVals.
Vector(b, k) == IF b = 1 THEN BoundVals ELSE at[b][k]

Follows ==
    pc = "walk" =>
        /\ True(Vector(i, j), env)
        /\ taken \cup handed \subseteq Addressed
        /\ handed # {} => PointerHanded
        /\ \A v \in handed : Vector(i, j)[v] = NAC

\* SymTab::zero, whose value is not 0 (symtab.cpp:32), is put into the code by
\* these choices of Identity, for the constant operand n.
ByZero(c, n, left) ==
    \/ c.op = "div" /\ left /\ n = 0
    \/ c.op = "mod" /\ n = (IF left THEN 0 ELSE 1)
    \/ c.op = "and"
    \/ c.op = "or" /\ n = 0

UsesZero(c, in, after) ==
    LET l == Known(c.arg1, in)
        r == Known(c.arg2, in)
    IN  /\ c.op \in Binary /\ ~Const(after[c.res])
        /\ \/ Const(l) /\ ByZero(c, l, TRUE)
           \/ ~Const(l) /\ Const(r) /\ ByZero(c, r, FALSE)

-----------------------------------------------------------------------------
(* Lemmas about the values *)

\* The special values are different from each other and from numbers.
LEMMA Marks ==
    /\ Undef # NAC /\ Undef \notin Int /\ NAC \notin Int
    /\ Undef \notin Var /\ NAC \notin Var /\ None \notin Var
    /\ \A v \in Var \cup Pointers : v \notin Int
    /\ Values \subseteq Int /\ N \in Nat \ {0} /\ ValueBound \in Nat
    /\ Values \cap {Undef, NAC} = {}
<1>1. /\ N \in Nat \ {0} /\ ValueBound \in Nat
      /\ Values \subseteq -ValueBound .. ValueBound
      /\ {Undef, NAC, None} \cap (Var \cup Int) = {}
      /\ Undef # NAC
      /\ (Var \cup Pointers) \cap Int = {}
  BY ConstAssumption
<1>2. Values \subseteq Int
  BY <1>1
<1> QED
  BY <1>1, <1>2

\* A value that is neither of the special ones is a number.
LEMMA ConstIsInt ==
    ASSUME NEW v \in Lattice
    PROVE  Const(v) <=> v \in Int
BY Marks DEF Const, Lattice

\* Division of numbers is a number, but for division by 0.
LEMMA QuotType ==
    ASSUME NEW l \in Int, NEW r \in Int, r # 0
    PROVE  Quot(l, r) \in Int
<1>1. Abs(l) \in Int /\ Sign(l) \in Int /\ Sign(r) \in Int
  BY DEF Abs, Sign
<1>2. Abs(r) \in Int /\ Abs(r) > 0
  BY DEF Abs, Sign
<1>3. \A m \in Int, n \in Int : n > 0 => m \div n \in Int
  OBVIOUS
<1>4. Abs(l) \div Abs(r) \in Int
  BY <1>1, <1>2, <1>3
<1>5. \A m, n, o \in Int : m * n * o \in Int
  OBVIOUS
<1> QED
  BY <1>1, <1>4, <1>5 DEF Quot

\* A calculation with numbers gives a number.
LEMMA FoldType ==
    ASSUME NEW op \in Pure, NEW l \in Int, NEW r \in Int,
           op \in {"div", "mod"} => r # 0
    PROVE  Fold(op, l, r) \in Int
<1>1. \A bool : Bit(bool) \in Int
  BY DEF Bit
<1>2. CASE op \in {"div", "mod"}
  <2>1. Quot(l, r) \in Int
    BY <1>2, QuotType
  <2>2. r * Quot(l, r) \in Int
    BY <2>1
  <2> DEFINE m == r * Quot(l, r)
  <2>3. l - m \in Int
    BY <2>2
  <2>4. CASE op = "div"
    BY <2>4, <2>1 DEF Fold
  <2>5. CASE op = "mod"
    BY <2>5, <2>3 DEF Fold
  <2> QED  BY <1>2, <2>4, <2>5
<1>3. CASE op \in {"add", "sub", "mul"}
  BY <1>3 DEF Fold
<1>4. CASE op \in {"neg", "as"}
  BY <1>4 DEF Fold
<1>5. CASE op \in Compares
  BY <1>5 DEF Fold, Compares, Bit
<1>6. CASE op \in {"and", "or", "not"}
  BY <1>6 DEF Fold, Bit
<1> QED
  BY <1>2, <1>3, <1>4, <1>5, <1>6 DEF Pure, Binary, Arith

\* What is known of an operand is a value of the lattice.
LEMMA KnownType ==
    ASSUME NEW a \in Operand, NEW vec \in [Var -> Lattice]
    PROVE  Known(a, vec) \in Lattice
BY DEF Known, Operand, Lattice

\* The three outcomes of an expression.
LEMMA ValueCases ==
    ASSUME NEW c, c.op \in Pure, NEW vec
    PROVE  LET l == Known(c.arg1, vec)
               r == IF c.op \in Binary THEN Known(c.arg2, vec) ELSE l
           IN  /\ NAC \in {l, r} => Value(c, vec) = NAC
               /\ NAC \notin {l, r} /\ Undef \in {l, r} => Value(c, vec) = Undef
               /\ NAC \notin {l, r} /\ Undef \notin {l, r} =>
                     Value(c, vec) = IF c.op \in {"div", "mod"} /\ r = 0 THEN NAC
                                     ELSE Fold(c.op, l, r)
<1> DEFINE l == Known(c.arg1, vec)
           r == IF c.op \in Binary THEN Known(c.arg2, vec) ELSE l
<1>1. c.op # "get"
  BY DEF Pure, Binary, Arith, Compares
<1>2. Value(c, vec) =
        CASE NAC \in {l, r} -> NAC
          [] NAC \notin {l, r} /\ Undef \in {l, r} -> Undef
          [] {Undef, NAC} \cap {l, r} = {} ->
                IF c.op \in {"div", "mod"} /\ r = 0 THEN NAC ELSE Fold(c.op, l, r)
  BY <1>1 DEF Value
<1> HIDE DEF l, r
<1>3. NAC \in {l, r} => Value(c, vec) = NAC
  BY <1>2
<1>4. NAC \notin {l, r} /\ Undef \in {l, r} => Value(c, vec) = Undef
  BY <1>2
<1>5. NAC \notin {l, r} /\ Undef \notin {l, r} =>
        Value(c, vec) = IF c.op \in {"div", "mod"} /\ r = 0 THEN NAC
                        ELSE Fold(c.op, l, r)
  BY <1>2
<1> QED
  BY <1>3, <1>4, <1>5 DEF l, r

\* The value of an expression is one of the lattice.
LEMMA ValueType ==
    ASSUME NEW c \in Inst, c.op \in Expr, NEW vec \in [Var -> Lattice],
           c.op \in Pure => c.arg1 \in Operand, c.op \in Binary => c.arg2 \in Operand
    PROVE  Value(c, vec) \in Lattice
<1>1. CASE c.op = "get"
  BY <1>1 DEF Value, Lattice
<1>2. CASE c.op \in Pure
  <2> DEFINE l == Known(c.arg1, vec)
             r == IF c.op \in Binary THEN Known(c.arg2, vec) ELSE l
  <2>1. l \in Lattice /\ r \in Lattice
    BY <1>2, KnownType
  <2>2. /\ NAC \in {l, r} => Value(c, vec) = NAC
        /\ NAC \notin {l, r} /\ Undef \in {l, r} => Value(c, vec) = Undef
        /\ NAC \notin {l, r} /\ Undef \notin {l, r} =>
              Value(c, vec) = IF c.op \in {"div", "mod"} /\ r = 0 THEN NAC
                              ELSE Fold(c.op, l, r)
    BY <1>2, ValueCases
  <2> HIDE DEF l, r
  <2>3. NAC \in Lattice /\ Undef \in Lattice /\ Int \subseteq Lattice
    BY DEF Lattice
  <2>4. ASSUME NAC \notin {l, r}, Undef \notin {l, r}, ~(c.op \in {"div", "mod"} /\ r = 0)
        PROVE  Fold(c.op, l, r) \in Int
    <3>1. l \in Int /\ r \in Int
      BY <2>1, <2>4 DEF Lattice
    <3> QED  BY <3>1, <2>4, <1>2, FoldType
  <2> QED  BY <2>2, <2>3, <2>4
<1> QED
  BY <1>1, <1>2 DEF Expr

\* The vector after an expression, after one that loses variables, and after
\* any other.
LEMMA TransferCases ==
    ASSUME NEW c, NEW vec
    PROVE  /\ c.op \in Expr => Transfer(c, vec) = [vec EXCEPT ![c.res] = Value(c, vec)]
           /\ c.op = "set" \/ (c.op = "arg" /\ c.arg1 \in Pointers) =>
                 Transfer(c, vec) = Lose(vec, Var)
           /\ c.op = "proc" => Transfer(c, vec) = Lose(vec, Global)
           /\ c.op = "call" => Transfer(c, vec) = Lose(vec, Global \cup {c.res})
           /\ /\ c.op \notin Expr \cup {"set", "proc", "call"}
              /\ ~(c.op = "arg" /\ c.arg1 \in Pointers)
              => Transfer(c, vec) = vec
<1>1. \A op \in {"set", "arg", "proc", "call"} : op \notin Expr
  BY DEF Expr, Pure, Binary, Arith, Compares
<1> DEFINE ptr == c.op = "arg" /\ c.arg1 \in Pointers
<1>2. Transfer(c, vec) =
         CASE c.op \in Expr -> [vec EXCEPT ![c.res] = Value(c, vec)]
           [] c.op = "set" \/ ptr -> Lose(vec, Var)
           [] c.op = "proc" -> Lose(vec, Global)
           [] c.op = "call" -> Lose(vec, Global \cup {c.res})
           [] OTHER         -> vec
  BY DEF Transfer
<1>3. ptr => c.op = "arg"
  OBVIOUS
<1> DEFINE x == [vec EXCEPT ![c.res] = Value(c, vec)]
           y == Lose(vec, Global \cup {c.res})
           expr == c.op \in Expr
<1> HIDE DEF ptr, x, y, expr
<1>4. c.op \in {"set", "arg", "proc", "call"} => ~expr
  BY <1>1 DEF expr
<1>5. Transfer(c, vec) =
         CASE expr -> x
           [] c.op = "set" \/ ptr -> Lose(vec, Var)
           [] c.op = "proc" -> Lose(vec, Global)
           [] c.op = "call" -> y
           [] OTHER         -> vec
  BY <1>2 DEF x, y, expr
<1>6. /\ expr => Transfer(c, vec) = x
      /\ c.op = "set" \/ ptr => Transfer(c, vec) = Lose(vec, Var)
      /\ c.op = "proc" => Transfer(c, vec) = Lose(vec, Global)
      /\ c.op = "call" => Transfer(c, vec) = y
      /\ ~expr /\ c.op \notin {"set", "proc", "call"} /\ ~ptr => Transfer(c, vec) = vec
  BY <1>3, <1>4, <1>5
<1> QED
  BY <1>6 DEF x, y, expr, ptr

\* A set that loses variables keeps the others.
LEMMA LoseType ==
    ASSUME NEW vec \in [Var -> Lattice], NEW set
    PROVE  /\ Lose(vec, set) \in [Var -> Lattice]
           /\ \A v \in Var : Lose(vec, set)[v] = IF v \in set THEN NAC ELSE vec[v]
BY DEF Lose, Lattice

\* What the assumption says of the function at hand.
LEMMA ProgType ==
    ASSUME prog \in Programs
    PROVE  /\ prog.init \in [Var -> Values \cup {Undef}]
           /\ prog.target \in [Block -> (0 .. N) \ {1}]
           /\ prog.fall \in [Block -> (0 .. N) \ {1}]
           /\ 1 \in Block /\ Len(Code(1)) = 1 /\ Code(1)[1].op = "other"
           /\ DOMAIN prog.code = Block
           /\ \A b \in Block : /\ Code(b) \in Seq(Inst) /\ Len(Code(b)) \in Nat \ {0}
                               /\ DOMAIN Code(b) = 1 .. Len(Code(b))
<1>1. /\ prog.init \in [Var -> Values \cup {Undef}]
      /\ {prog.target, prog.fall} \subseteq [Block -> (0 .. N) \ {1}]
      /\ prog.code \in [Block -> Seq(Inst)]
      /\ Len(prog.code[1]) = 1 /\ prog.code[1][1].op = "other"
      /\ \A b \in Block : prog.code[b] # << >>
  BY ProgramsAssumption
<1>2. 1 \in Block
  BY Marks DEF Block
<1>3. ASSUME NEW b \in Block
      PROVE  /\ Code(b) \in Seq(Inst) /\ Len(Code(b)) \in Nat \ {0}
             /\ DOMAIN Code(b) = 1 .. Len(Code(b))
  <2>1. Code(b) \in Seq(Inst) /\ Code(b) # << >>
    BY <1>1 DEF Code
  <2> HIDE DEF Inst
  <2> QED  BY <2>1
<1>4. Len(Code(1)) = 1 /\ Code(1)[1].op = "other"
  BY <1>1 DEF Code
<1>5. DOMAIN prog.code = Block
  <2> HIDE DEF Inst, Block
  <2> QED  BY <1>1
<1> QED
  BY <1>1, <1>2, <1>3, <1>4, <1>5

\* An instruction of a block, with what the constructor's assumption adds.
LEMMA InstType ==
    ASSUME prog \in Programs, NEW b \in Block, NEW k \in 1 .. Len(Code(b))
    PROVE  /\ Code(b)[k] \in Inst
           /\ Code(b)[k].op \in Expr \cup {"lea", "call"} => Code(b)[k].res \in Var
           /\ Code(b)[k].op \in Pure => Code(b)[k].arg1 \in Operand
           /\ Code(b)[k].op \in Binary => Code(b)[k].arg2 \in Operand
           /\ Code(b)[k].op = "dec" => Code(b)[k].arg1 \in Var
           /\ Code(b)[k].op \in Jump => k = Len(Code(b))
<1>1. Code(b) \in Seq(Inst) /\ k \in DOMAIN Code(b)
  BY ProgType
<1>2. Code(b)[k] \in Inst
  <2> HIDE DEF Inst
  <2> QED  BY <1>1
<1>3. prog.code[b] = Code(b)
  BY DEF Code
<1> QED
  BY <1>1, <1>2, <1>3, ProgramsAssumption

\* A transfer makes a vector of a vector.
LEMMA TransferType ==
    ASSUME prog \in Programs, NEW b \in Block, NEW k \in 1 .. Len(Code(b)),
           NEW vec \in [Var -> Lattice]
    PROVE  Transfer(Code(b)[k], vec) \in [Var -> Lattice]
<1> DEFINE c == Code(b)[k]
<1>1. c \in Inst /\ (c.op \in Expr => c.res \in Var)
      /\ (c.op \in Pure => c.arg1 \in Operand) /\ (c.op \in Binary => c.arg2 \in Operand)
  BY InstType
<1> SUFFICES Transfer(c, vec) \in [Var -> Lattice]
  OBVIOUS
<1> HIDE DEF c
<1>2. CASE c.op \in Expr
  <2>1. Value(c, vec) \in Lattice
    BY <1>1, <1>2, ValueType
  <2>2. Transfer(c, vec) = [vec EXCEPT ![c.res] = Value(c, vec)]
    BY <1>2, TransferCases
  <2> QED  BY <2>1, <2>2
<1>3. CASE c.op \notin Expr
  <2>1. Transfer(c, vec) \in {vec, Lose(vec, Var), Lose(vec, Global), Lose(vec, Global \cup {c.res})}
    BY <1>3, TransferCases
  <2> QED  BY <2>1, LoseType
<1> QED
  BY <1>2, <1>3

\* The outcomes of a join.
LEMMA JoinCases ==
    ASSUME NEW set, IsFiniteSet(set)
    PROVE  \/ set \subseteq {Undef} /\ Join(set) = Undef
           \/ \E v \in set : v # Undef /\ set \subseteq {v, Undef} /\ Join(set) = v
           \/ Join(set) = NAC /\ \E v, w \in set : v # w /\ v # Undef /\ w # Undef
<1> DEFINE known == set \ {Undef}
<1>1. IsFiniteSet(known)
  BY FS_Difference
<1>2. Cardinality(known) \in Nat /\ (Cardinality(known) = 0 <=> known = {})
  BY <1>1, FS_CardinalityType, FS_EmptySet
<1>3. Join(set) = CASE known = {} -> Undef
                    [] Cardinality(known) = 1 -> CHOOSE v \in known : TRUE
                    [] Cardinality(known) > 1 -> NAC
  BY DEF Join
<1>4. CASE known = {}
  <2>1. Join(set) = Undef
    BY <1>2, <1>3, <1>4
  <2> QED  BY <2>1, <1>4
<1>5. CASE Cardinality(known) = 1
  <2>1. PICK v : known = {v}
    BY <1>1, <1>5, FS_Singleton
  <2>2. known # {}
    BY <2>1
  <2>3. Join(set) = CHOOSE w \in known : TRUE
    <3> HIDE DEF known
    <3> QED  BY <1>3, <1>5, <2>2
  <2>4. Join(set) = v
    BY <2>1, <2>3
  <2> QED  BY <2>1, <2>4
<1>6. CASE Cardinality(known) > 1
  <2>1. known # {} /\ \A v : known # {v}
    <3>1. \A v : Cardinality({v}) = 1
      BY FS_Singleton
    <3>2. Cardinality(known) # 0 /\ Cardinality(known) # 1
      BY <1>2, <1>6
    <3> HIDE DEF known
    <3> QED  BY <1>2, <3>1, <3>2
  <2>2. Join(set) = NAC
    <3>1. Cardinality(known) # 1
      BY <1>2, <1>6
    <3> HIDE DEF known
    <3> QED  BY <1>3, <1>6, <2>1, <3>1
  <2>3. PICK v \in known : TRUE
    BY <2>1
  <2>4. PICK w \in known : w # v
    BY <2>1, <2>3
  <2> QED  BY <2>2, <2>3, <2>4
<1>7. known = {} \/ Cardinality(known) = 1 \/ Cardinality(known) > 1
  <2> HIDE DEF known
  <2> QED  BY <1>2
<1> QED
  BY <1>4, <1>5, <1>6, <1>7

\* The values that a block's predecessors end with.
Ends(vecs, b, v) == {vecs[q][v] : q \in Prevs(b)}

LEMMA EndsFinite ==
    ASSUME NEW vecs, NEW b, NEW v
    PROVE  IsFiniteSet(Ends(vecs, b, v))
<1>1. IsFiniteSet(Block)
  BY Marks, FS_Interval DEF Block
<1>2. IsFiniteSet(Prevs(b))
  <2>1. Prevs(b) \subseteq Block
    BY DEF Prevs
  <2> QED  BY <1>1, <2>1, FS_Subset
<1> DEFINE f == [q \in Prevs(b) |-> vecs[q][v]]
<1>3. f \in Surjection(Prevs(b), Ends(vecs, b, v))
  BY DEF Surjection, Ends
<1> QED
  BY <1>2, <1>3, FS_Surjection

\* A join makes a vector of vectors.
LEMMA JoinAllType ==
    ASSUME NEW vecs \in [Block -> [Var -> Lattice]], NEW b
    PROVE  /\ JoinAll(vecs, b) \in [Var -> Lattice]
           /\ \A v \in Var : JoinAll(vecs, b)[v] = Join(Ends(vecs, b, v))
<1>1. JoinAll(vecs, b) = [v \in Var |-> Join(Ends(vecs, b, v))]
  BY DEF JoinAll, Ends
<1>2. ASSUME NEW v \in Var
      PROVE  Join(Ends(vecs, b, v)) \in Lattice
  <2>1. Ends(vecs, b, v) \subseteq Lattice
    BY DEF Ends, Prevs
  <2>2. \/ Join(Ends(vecs, b, v)) \in {Undef, NAC}
        \/ Join(Ends(vecs, b, v)) \in Ends(vecs, b, v)
    BY EndsFinite, JoinCases
  <2> QED  BY <2>1, <2>2 DEF Lattice
<1> QED
  BY <1>1, <1>2

-----------------------------------------------------------------------------
(* Lemmas about the new instructions *)

\* An instruction whose operator and operands are replaced.
LEMMA NewType ==
    ASSUME NEW c \in Inst, NEW op \in Op, NEW a \in Operand \cup {None},
           NEW b \in Operand \cup {None}
    PROVE  /\ New(c, op, a, b) \in Inst
           /\ New(c, op, a, b).op = op /\ New(c, op, a, b).res = c.res
           /\ New(c, op, a, b).arg1 = a /\ New(c, op, a, b).arg2 = b
<1> DEFINE ops == Op
           results == Var \cup {None}
           operands == Operand \cup {None}
<1> HIDE DEF ops, results, operands
<1>1. c \in [op : ops, res : results, arg1 : operands, arg2 : operands]
  BY DEF Inst, ops, results, operands
<1>2. op \in ops /\ a \in operands /\ b \in operands
  BY DEF ops, operands
<1>3. New(c, op, a, b) \in [op : ops, res : results, arg1 : operands, arg2 : operands]
  BY <1>1, <1>2 DEF New
<1>4. /\ New(c, op, a, b).op = op /\ New(c, op, a, b).res = c.res
      /\ New(c, op, a, b).arg1 = a /\ New(c, op, a, b).arg2 = b
  BY <1>1, <1>2 DEF New
<1> QED
  BY <1>3, <1>4 DEF Inst, ops, results, operands

\* The choices of Identity: a copy of one of its operands or of a number, the
\* negation of the other operand or its comparison with SymTab::zero, or the
\* instruction with the number in place of a variable.
LEMMA IdentityType ==
    ASSUME NEW c \in Inst, NEW n \in Int, NEW o \in Operand, NEW left \in BOOLEAN
    PROVE  Identity(c, n, o, left) \in Inst
<1> DEFINE set == {New(c, "as", a, None) : a \in {o, 0, Zero, One}}
                    \cup {New(c, "neg", o, None), New(c, "ne", o, Zero)}
                    \cup {[c EXCEPT !.arg1 = n], [c EXCEPT !.arg2 = n]}
<1>1. set \subseteq Inst
  <2>1. {"as", "neg", "ne"} \subseteq Op /\ 0 \in Operand /\ Zero \in Operand /\ One \in Operand
    BY DEF Op, Expr, Pure, Binary, Compares, Operand, Zero, One
  <2>2. \A a \in Operand : New(c, "as", a, None) \in Inst
    BY <2>1, NewType
  <2>3. New(c, "neg", o, None) \in Inst /\ New(c, "ne", o, Zero) \in Inst
    BY <2>1, NewType
  <2>4. [c EXCEPT !.arg1 = n] \in Inst /\ [c EXCEPT !.arg2 = n] \in Inst
    BY DEF Inst, Operand
  <2> QED  BY <2>1, <2>2, <2>3, <2>4
<1>2. Identity(c, n, o, left) \in set
  BY DEF Identity
<1> QED
  BY <1>1, <1>2

\* algebraSimplify makes an instruction of an instruction.
LEMMA SimplifiedType ==
    ASSUME prog \in Programs, NEW b \in Block, NEW k \in 1 .. Len(Code(b)),
           NEW in \in [Var -> Lattice], NEW after \in [Var -> Lattice]
    PROVE  Simplified(Code(b)[k], in, after) \in Inst
<1> DEFINE c == Code(b)[k]
<1>1. c \in Inst /\ (c.op \in Expr => c.res \in Var)
      /\ (c.op \in Pure => c.arg1 \in Operand) /\ (c.op \in Binary => c.arg2 \in Operand)
  BY InstType
<1> SUFFICES Simplified(c, in, after) \in Inst
  OBVIOUS
<1> HIDE DEF c
<1>2. "as" \in Op /\ Binary \subseteq Pure
  BY DEF Op, Expr, Pure
<1> DEFINE l == Known(c.arg1, in)
           r == Known(c.arg2, in)
           results == {c, New(c, "as", after[c.res], None),
                       Identity(c, l, c.arg2, TRUE), Identity(c, r, c.arg1, FALSE),
                       [c EXCEPT !.arg1 = after[c.arg1]]}
<1>3. CASE c.op \in Expr /\ Const(after[c.res])
  <2>1. Simplified(c, in, after) = New(c, "as", after[c.res], None)
    <3>1. c.op \notin {"arg", "retv"}
      BY <1>3 DEF Expr, Pure, Binary, Arith, Compares
    <3> QED  BY <1>3, <3>1 DEF Simplified
  <2>2. after[c.res] \in Operand
    BY <1>1, <1>3, ConstIsInt DEF Operand
  <2> QED  BY <1>1, <1>2, <2>1, <2>2, NewType
<1>4. CASE c.op \in Binary /\ ~Const(after[c.res])
  <2>1. l \in Lattice /\ r \in Lattice /\ c.arg1 \in Operand /\ c.arg2 \in Operand
    BY <1>1, <1>2, <1>4, KnownType
  <2>2. Simplified(c, in, after) =
          CASE Const(l) -> Identity(c, l, c.arg2, TRUE)
            [] ~Const(l) /\ Const(r) -> Identity(c, r, c.arg1, FALSE)
            [] OTHER -> c
    <3>1. ~(c.op \in Expr /\ Const(after[c.res])) /\ c.op \notin {"arg", "retv"}
      BY <1>4 DEF Binary, Arith, Compares
    <3> QED  BY <1>4, <3>1 DEF Simplified
  <2>3. Const(l) => Identity(c, l, c.arg2, TRUE) \in Inst
    BY <1>1, <2>1, ConstIsInt, IdentityType
  <2>4. Const(r) => Identity(c, r, c.arg1, FALSE) \in Inst
    BY <1>1, <2>1, ConstIsInt, IdentityType
  <2> HIDE DEF l, r
  <2> QED  BY <1>1, <2>2, <2>3, <2>4
<1>5. CASE c.op \in {"arg", "retv"} /\ c.arg1 \in Var
  <2>1. Simplified(c, in, after) =
          IF Const(after[c.arg1]) THEN [c EXCEPT !.arg1 = after[c.arg1]] ELSE c
    <3>1. c.op \notin Expr /\ c.op \notin Binary
      BY <1>5 DEF Expr, Pure, Binary, Arith, Compares
    <3> QED  BY <1>5, <3>1 DEF Simplified
  <2>2. Const(after[c.arg1]) => after[c.arg1] \in Operand
    BY <1>5, ConstIsInt DEF Operand
  <2>3. \A a \in Operand : [c EXCEPT !.arg1 = a] \in Inst
    BY <1>1 DEF Inst
  <2> QED  BY <1>1, <2>1, <2>2, <2>3
<1>6. CASE /\ ~(c.op \in Expr /\ Const(after[c.res]))
           /\ ~(c.op \in Binary /\ ~Const(after[c.res]))
           /\ ~(c.op \in {"arg", "retv"} /\ c.arg1 \in Var)
  <2>1. Simplified(c, in, after) = c
    BY <1>6 DEF Simplified
  <2> QED  BY <1>1, <2>1
<1> QED
  BY <1>3, <1>4, <1>5, <1>6

\* So does condJmpOpt.
LEMMA DecidedType ==
    ASSUME NEW c \in Inst, NEW in
    PROVE  Decided(c, in) \in Inst
<1>1. {"jmp", "other"} \subseteq Op
  BY DEF Op, Jump
<1>2. New(c, "jmp", None, None) \in Inst /\ New(c, "other", None, None) \in Inst
  BY <1>1, NewType
<1> QED
  BY <1>2 DEF Decided

-----------------------------------------------------------------------------
(* The types and the control variables *)

TInv == TypeOK /\ Control

LEMMA InitVectors ==
    ASSUME prog \in Programs
    PROVE  InitVals \in [Var -> Lattice] /\ BoundVals \in [Var -> Lattice]
<1>1. prog.init \in [Var -> Values \cup {Undef}]
  BY ProgType
<1> QED
  BY <1>1, Marks DEF InitVals, BoundVals, Lattice

LEMMA TypeInit == Init => TInv
<1> SUFFICES ASSUME Init PROVE TInv
  OBVIOUS
<1> USE DEF Init
<1>1. /\ prog \in Programs /\ 1 \in Block /\ DOMAIN prog.code = Block
      /\ prog.code \in [Block -> Seq(Inst)]
      /\ \A b \in Block : Len(Code(b)) \in Nat
  BY ProgType, ProgramsAssumption
<1>2. inst \in [Block -> Seq(Inst)] /\ \A b \in Block : Len(inst[b]) = Len(Code(b))
  <2> HIDE DEF Inst
  <2> QED  BY <1>1 DEF Code
<1>3. out \in [Block -> [Var -> Lattice]] /\ out[1] = BoundVals
  BY <1>1, InitVectors
<1>4. /\ DOMAIN at = Block
      /\ \A b \in Block : at[b] \in [1 .. Len(Code(b)) + 1 -> [Var -> Lattice]]
  BY <1>1, InitVectors
<1>5. tmp \in [Var -> Lattice] /\ env \in [Var -> Int \cup {Undef}]
  BY <1>1, InitVectors DEF InitVals
<1>6. i \in 1 .. N + 1 /\ j \in Nat /\ i >= 2 /\ j >= 1
  BY Marks
<1> HIDE DEF Init
<1>7. change \in BOOLEAN /\ ~change /\ pc = "sweep" /\ taken = {} /\ handed = {}
  BY DEF Init
<1>8. TypeOK
  BY <1>1, <1>2, <1>3, <1>4, <1>5, <1>6, <1>7 DEF TypeOK
<1>9. Control
  BY <1>1, <1>3, <1>6, <1>7 DEF Control, Finished
<1> QED
  BY <1>8, <1>9 DEF TInv

\* A call starts with numbers or nothing in the variables.
LEMMA StartType ==
    ASSUME NEW args \in [Param \ Pointers -> Values], NEW glb \in [Global \ Pointers -> Values]
    PROVE  [v \in Var |-> CASE v \in DOMAIN args -> args[v]
                            [] v \in DOMAIN glb  -> glb[v]
                            [] OTHER             -> Undef]
              \in [Var -> Int \cup {Undef}]
<1>1. ASSUME NEW v \in Var
      PROVE  (CASE v \in DOMAIN args -> args[v]
                [] v \in DOMAIN glb  -> glb[v]
                [] OTHER             -> Undef) \in Int \cup {Undef}
  <2>1. v \in DOMAIN args => args[v] \in Int
    BY Marks
  <2>2. v \in DOMAIN glb => glb[v] \in Int
    BY Marks
  <2> QED  BY <2>1, <2>2
<1> QED
  BY <1>1

\* An operand holds a number or nothing.
LEMMA HoldsType ==
    ASSUME env \in [Var -> Int \cup {Undef}], NEW a \in Operand
    PROVE  Holds(a) \in Int \cup {Undef}
BY DEF Holds, Operand

LEMMA ResultType ==
    ASSUME env \in [Var -> Int \cup {Undef}], NEW c, c.op \in Pure,
           c.arg1 \in Operand, c.op \in Binary => c.arg2 \in Operand
    PROVE  Result(c) \in Int \cup {Undef}
<1> DEFINE l == Holds(c.arg1)
           r == IF c.op \in Binary THEN Holds(c.arg2) ELSE l
<1>1. l \in Int \cup {Undef} /\ r \in Int \cup {Undef}
  BY HoldsType
<1>2. Result(c) = IF Undef \in {l, r} \/ (c.op \in {"div", "mod"} /\ r = 0)
                  THEN Undef ELSE Fold(c.op, l, r)
  BY DEF Result
<1> HIDE DEF l, r
<1>3. ASSUME Undef \notin {l, r}, ~(c.op \in {"div", "mod"} /\ r = 0)
      PROVE  Fold(c.op, l, r) \in Int
  BY <1>1, <1>3, FoldType
<1> QED
  BY <1>2, <1>3

\* The environments after an instruction, by its operator.
LEMMA AfterCases ==
    ASSUME NEW c, NEW e \in After(c)
    PROVE  /\ c.op \in Pure => e = [env EXCEPT ![c.res] = Result(c)]
           /\ c.op = "get" => \E v \in Values : e = [env EXCEPT ![c.res] = v]
           /\ c.op = "dec" => e = [env EXCEPT ![c.arg1] = prog.init[c.arg1]]
           /\ c.op = "set" => \E x \in Exposed, v \in Values : e = [env EXCEPT ![x] = v]
           /\ c.op = "proc" => \E new \in [Foreign -> Values] :
                 e = [v \in Var |-> IF v \in Foreign THEN new[v] ELSE env[v]]
           /\ c.op = "call" => \E new \in [Foreign -> Values], w \in Values :
                 e = [[v \in Var |-> IF v \in Foreign THEN new[v] ELSE env[v]]
                         EXCEPT ![c.res] = w]
           /\ c.op \notin Pure \cup {"get", "dec", "set", "proc", "call"} => e = env
<1> DEFINE pure == c.op \in Pure
           called == {[v \in Var |-> IF v \in Foreign THEN new[v] ELSE env[v]] :
                         new \in [Foreign -> Values]}
           pures  == {[env EXCEPT ![c.res] = Result(c)]}
           gets   == {[env EXCEPT ![c.res] = v] : v \in Values}
           decs   == {[env EXCEPT ![c.arg1] = prog.init[c.arg1]]}
           sets   == {[env EXCEPT ![x] = v] : x \in Exposed, v \in Values}
           calls  == {[f EXCEPT ![c.res] = v] : f \in called, v \in Values}
<1>1. After(c) = CASE pure -> pures
                   [] c.op = "get"  -> gets
                   [] c.op = "dec"  -> decs
                   [] c.op = "set"  -> sets
                   [] c.op = "proc" -> called
                   [] c.op = "call" -> calls
                   [] OTHER         -> {env}
  BY DEF After
<1>2. c.op \in {"get", "dec", "set", "proc", "call"} => ~pure
  BY DEF Pure, Binary, Arith, Compares
<1> HIDE DEF pure, called, pures, gets, decs, sets, calls
<1>3. /\ pure => After(c) = pures
      /\ c.op = "get" => After(c) = gets
      /\ c.op = "dec" => After(c) = decs
      /\ c.op = "set" => After(c) = sets
      /\ c.op = "proc" => After(c) = called
      /\ c.op = "call" => After(c) = calls
      /\ ~pure /\ c.op \notin {"get", "dec", "set", "proc", "call"} => After(c) = {env}
  BY <1>1, <1>2
<1>4. pure => e = [env EXCEPT ![c.res] = Result(c)]
  BY <1>3 DEF pures
<1>5. c.op = "get" => \E v \in Values : e = [env EXCEPT ![c.res] = v]
  BY <1>3 DEF gets
<1>6. c.op = "dec" => e = [env EXCEPT ![c.arg1] = prog.init[c.arg1]]
  BY <1>3 DEF decs
<1>7. c.op = "set" => \E x \in Exposed, v \in Values : e = [env EXCEPT ![x] = v]
  BY <1>3 DEF sets
<1>8. c.op = "proc" => \E new \in [Foreign -> Values] :
         e = [v \in Var |-> IF v \in Foreign THEN new[v] ELSE env[v]]
  BY <1>3 DEF called
<1>9. ASSUME c.op = "call"
      PROVE  \E new \in [Foreign -> Values], w \in Values :
                e = [[v \in Var |-> IF v \in Foreign THEN new[v] ELSE env[v]]
                        EXCEPT ![c.res] = w]
  <2>1. PICK f \in called, w \in Values : e = [f EXCEPT ![c.res] = w]
    BY <1>3, <1>9 DEF calls
  <2>2. PICK new \in [Foreign -> Values] :
           f = [v \in Var |-> IF v \in Foreign THEN new[v] ELSE env[v]]
    BY DEF called
  <2> QED  BY <2>1, <2>2
<1>10. c.op \notin Pure \cup {"get", "dec", "set", "proc", "call"} => e = env
  BY <1>3 DEF pure
<1> QED
  BY <1>4, <1>5, <1>6, <1>7, <1>8, <1>9, <1>10 DEF pure

LEMMA AfterType ==
    ASSUME env \in [Var -> Int \cup {Undef}], prog \in Programs,
           NEW b \in Block, NEW k \in 1 .. Len(Code(b)), NEW e \in After(Code(b)[k])
    PROVE  e \in [Var -> Int \cup {Undef}]
<1> DEFINE c == Code(b)[k]
<1>1. /\ c.op \in Pure => c.arg1 \in Operand
      /\ c.op \in Binary => c.arg2 \in Operand
      /\ c.op = "dec" => c.arg1 \in Var
  BY InstType
<1>2. Values \subseteq Int /\ prog.init \in [Var -> Values \cup {Undef}]
  BY Marks, ProgType
<1>3. e \in After(c)
  OBVIOUS
<1> SUFFICES e \in [Var -> Int \cup {Undef}]
  OBVIOUS
<1> HIDE DEF c
<1> DEFINE called(new) == [v \in Var |-> IF v \in Foreign THEN new[v] ELSE env[v]]
<1>4. \A new \in [Foreign -> Values] : called(new) \in [Var -> Int \cup {Undef}]
  BY <1>2
<1>5. CASE c.op \in Pure
  BY <1>1, <1>3, <1>5, AfterCases, ResultType
<1>6. CASE c.op = "get"
  BY <1>2, <1>3, <1>6, AfterCases
<1>7. CASE c.op = "dec"
  <2>1. prog.init[c.arg1] \in Int \cup {Undef}
    BY <1>1, <1>2, <1>7
  <2> QED  BY <2>1, <1>3, <1>7, AfterCases
<1>8. CASE c.op = "set"
  <2>1. PICK x \in Exposed, v \in Values : e = [env EXCEPT ![x] = v]
    BY <1>3, <1>8, AfterCases
  <2> QED  BY <2>1, <1>2
<1>9. CASE c.op = "proc"
  <2>1. PICK new \in [Foreign -> Values] : e = called(new)
    BY <1>3, <1>9, AfterCases
  <2> QED  BY <2>1, <1>4
<1>10. CASE c.op = "call"
  <2>1. PICK new \in [Foreign -> Values], w \in Values : e = [called(new) EXCEPT ![c.res] = w]
    BY <1>3, <1>10, AfterCases
  <2>2. called(new) \in [Var -> Int \cup {Undef}] /\ w \in Int
    BY <1>2, <1>4
  <2> HIDE DEF called
  <2> QED  BY <2>1, <2>2
<1>11. CASE c.op \notin Pure \cup {"get", "dec", "set", "proc", "call"}
  BY <1>3, <1>11, AfterCases
<1> QED
  BY <1>5, <1>6, <1>7, <1>8, <1>9, <1>10, <1>11

\* A step of analyse.
LEMMA TypeAnalyse ==
    ASSUME TInv, EnterBlock \/ Translate \/ LeaveBlock \/ SweepAgain \/ SweepEnd
    PROVE  TInv'
<1> USE DEF TInv, walk
<1>1. /\ prog \in Programs /\ TypeOK /\ N \in Nat \ {0} /\ 1 \in Block
      /\ out[1] = BoundVals /\ j \in Nat /\ j >= 1 /\ i \in 1 .. N + 1
      /\ \A b \in Block : Len(Code(b)) \in Nat \ {0}
  BY Marks, ProgType DEF Control, TypeOK
<1>2. CASE EnterBlock
  <2> USE <1>2 DEF EnterBlock
  <2>1. /\ i \in Block /\ i # 1 /\ i >= 2 /\ taken = {} /\ handed = {}
    BY <1>1 DEF Control, Block
  <2>2. tmp' \in [Var -> Lattice]
    BY JoinAllType DEF TypeOK
  <2>3. /\ DOMAIN at' = Block /\ at'[i][1] = tmp'
        /\ \A b \in Block : at'[b] \in [1 .. Len(Code(b)) + 1 -> [Var -> Lattice]]
    <3>1. 1 \in 1 .. Len(Code(i)) + 1
      BY <1>1, <2>1
    <3> HIDE DEF Lattice
    <3> QED  BY <2>1, <2>2, <3>1 DEF TypeOK
  <2>4. TypeOK'
    <3>1. \A b \in Block : Code(b)' = Code(b)
      BY DEF Code
    <3> QED  BY <2>2, <2>3, <3>1 DEF TypeOK
  <2>5. Control'
    <3>1. BoundVals' = BoundVals /\ Code(i)' = Code(i)
      BY DEF BoundVals, Code
    <3>2. 1 \in 1 .. Len(Code(i)) + 1
      BY <1>1, <2>1
    <3> QED  BY <1>1, <2>1, <2>3, <3>1, <3>2 DEF Control, Finished
  <2> QED  BY <2>4, <2>5
<1>3. CASE Translate
  <2> USE <1>3 DEF Translate
  <2>1. /\ i \in Block /\ i >= 2 /\ taken = {} /\ handed = {} /\ j \in 1 .. Len(Code(i))
        /\ tmp \in [Var -> Lattice]
    BY <1>1 DEF Control, TypeOK
  <2>2. tmp' \in [Var -> Lattice]
    BY <1>1, <2>1, TransferType
  <2>3. j + 1 \in 1 .. Len(Code(i)) + 1 /\ j + 1 \in Nat /\ j + 1 >= 1
    BY <1>1, <2>1
  <2>4. /\ DOMAIN at' = Block /\ at'[i][j + 1] = tmp'
        /\ \A b \in Block : at'[b] \in [1 .. Len(Code(b)) + 1 -> [Var -> Lattice]]
    <3> HIDE DEF Lattice
    <3> QED  BY <2>1, <2>2, <2>3 DEF TypeOK
  <2>5. TypeOK'
    <3>1. \A b \in Block : Code(b)' = Code(b)
      BY DEF Code
    <3> QED  BY <2>2, <2>3, <2>4, <3>1 DEF TypeOK
  <2>6. Control'
    <3>1. BoundVals' = BoundVals /\ Code(i)' = Code(i)
      BY DEF BoundVals, Code
    <3> QED  BY <1>1, <2>1, <2>3, <2>4, <3>1 DEF Control, Finished
  <2> QED  BY <2>5, <2>6
<1>4. CASE LeaveBlock
  <2> USE <1>4 DEF LeaveBlock
  <2>1. i \in Block /\ i >= 2 /\ taken = {} /\ handed = {}
    BY DEF Control
  <2>2. i' \in 1 .. N + 1 /\ i' >= 2
    BY <1>1, <2>1 DEF Block
  <2>3. out' \in [Block -> [Var -> Lattice]] /\ out'[1] = BoundVals
    BY <1>1, <2>1 DEF TypeOK
  <2>4. TypeOK'
    <3>1. \A b \in Block : Code(b)' = Code(b)
      BY DEF Code
    <3>2. change' \in BOOLEAN
      BY DEF TypeOK
    <3> QED  BY <2>2, <2>3, <3>1, <3>2 DEF TypeOK
  <2>5. Control'
    <3>1. BoundVals' = BoundVals
      BY DEF BoundVals
    <3> QED  BY <1>1, <2>1, <2>2, <2>3, <3>1 DEF Control, Finished
  <2> QED  BY <2>4, <2>5
<1>5. CASE SweepAgain \/ SweepEnd
  <2> USE <1>5 DEF SweepAgain, SweepEnd, analysis
  <2>1. i' \in 1 .. N + 1 /\ i' >= 2 /\ taken = {} /\ handed = {} /\ j' \in Nat /\ j' >= 1
    BY <1>1 DEF Control
  <2>2. TypeOK'
    <3>1. \A b \in Block : Code(b)' = Code(b)
      BY DEF Code
    <3> QED  BY <1>1, <2>1, <3>1 DEF TypeOK
  <2>3. Control'
    <3>1. BoundVals' = BoundVals
      BY DEF BoundVals
    <3>2. pc' # "walk" /\ pc' # "translate" /\ (Finished' => ~change')
      BY DEF Finished
    <3> QED  BY <1>1, <2>1, <3>1, <3>2 DEF Control
  <2> QED  BY <2>2, <2>3
<1> QED
  BY <1>2, <1>3, <1>4, <1>5

\* A step of algebraSimplify and condJmpOpt.
LEMMA TypeSimplify ==
    ASSUME TInv, Simplify \/ SimplifyNext
    PROVE  TInv'
<1> USE DEF TInv, analysis, walk
<1>1. /\ prog \in Programs /\ TypeOK /\ N \in Nat \ {0} /\ 1 \in Block
      /\ out[1] = BoundVals /\ j \in Nat /\ j >= 1 /\ i \in 1 .. N + 1 /\ i >= 2
      /\ taken = {} /\ handed = {} /\ ~change
      /\ \A b \in Block : Len(Code(b)) \in Nat \ {0}
  BY Marks, ProgType DEF Control, TypeOK, Finished, Simplify, SimplifyNext
<1>2. CASE Simplify
  <2> USE <1>2 DEF Simplify
  <2>1. i \in Block /\ j \in 1 .. Len(Code(i)) /\ j + 1 \in 1 .. Len(Code(i)) + 1
    BY <1>1 DEF Block
  <2>2. at[i][j] \in [Var -> Lattice] /\ at[i][j + 1] \in [Var -> Lattice]
    <3> HIDE DEF Lattice
    <3>1. j \in 1 .. Len(Code(i)) + 1
      BY <1>1, <2>1
    <3> QED  BY <1>1, <2>1, <3>1 DEF TypeOK
  <2>3. NewCode(i, j) \in Inst
    BY <1>1, <2>1, <2>2, SimplifiedType, DecidedType DEF NewCode
  <2>4. inst' = [inst EXCEPT ![i][j] = NewCode(i, j)]
    BY DEF NewCode
  <2>5. inst' \in [Block -> Seq(Inst)] /\ \A b \in Block : Len(inst'[b]) = Len(Code(b))
    <3>1. inst[i] \in Seq(Inst) /\ j \in 1 .. Len(inst[i])
      BY <1>1, <2>1 DEF TypeOK
    <3>2. /\ [inst[i] EXCEPT ![j] = NewCode(i, j)] \in Seq(Inst)
          /\ Len([inst[i] EXCEPT ![j] = NewCode(i, j)]) = Len(inst[i])
      <4> HIDE DEF Inst, NewCode
      <4> QED  BY <2>3, <3>1
    <3>3. inst \in [Block -> Seq(Inst)] /\ \A b \in Block : Len(inst[b]) = Len(Code(b))
      BY <1>1 DEF TypeOK
    <3> DEFINE new == [inst[i] EXCEPT ![j] = NewCode(i, j)]
    <3>4. inst' = [inst EXCEPT ![i] = new]
      BY <2>4
    <3> HIDE DEF Inst, NewCode, new, Simplify
    <3>5. new \in Seq(Inst) /\ Len(new) = Len(inst[i])
      BY <3>2 DEF new
    <3> QED  BY <2>1, <3>3, <3>4, <3>5
  <2>6. TypeOK'
    <3>1. \A b \in Block : Code(b)' = Code(b)
      BY DEF Code
    <3> HIDE DEF Inst, Lattice
    <3> QED  BY <1>1, <2>5, <3>1 DEF TypeOK
  <2>7. Control'
    <3>1. BoundVals' = BoundVals
      BY DEF BoundVals
    <3>2. pc' = "simplify"
      OBVIOUS
    <3> QED  BY <1>1, <3>1, <3>2 DEF Control
  <2> QED  BY <2>6, <2>7
<1>3. CASE SimplifyNext
  <2> USE <1>3 DEF SimplifyNext
  <2>1. i' \in 1 .. N + 1 /\ i' >= 2
    BY <1>1
  <2>2. TypeOK'
    <3>1. \A b \in Block : Code(b)' = Code(b)
      BY DEF Code
    <3> HIDE DEF Inst, Lattice
    <3> QED  BY <1>1, <2>1, <3>1 DEF TypeOK
  <2>3. Control'
    <3>1. BoundVals' = BoundVals
      BY DEF BoundVals
    <3>2. pc' = "simplify"
      OBVIOUS
    <3> QED  BY <1>1, <2>1, <3>1, <3>2 DEF Control
  <2> QED  BY <2>2, <2>3
<1> QED
  BY <1>2, <1>3

\* A step of the walk.
LEMMA TypeWalk ==
    ASSUME TInv, Start \/ WalkInst \/ WalkEdge
    PROVE  TInv'
<1> USE DEF TInv, analysis, walk
<1>1. /\ prog \in Programs /\ TypeOK /\ N \in Nat \ {0} /\ 1 \in Block
      /\ out[1] = BoundVals /\ j \in Nat /\ j >= 1 /\ i \in 1 .. N + 1 /\ ~change
      /\ \A b \in Block : Len(Code(b)) \in Nat \ {0}
  BY Marks, ProgType DEF Control, TypeOK, Finished, Start, WalkInst, WalkEdge
<1>2. ASSUME \A b \in Block : Code(b)' = Code(b),
             UNCHANGED <<prog, inst, out, at, change, tmp>>, pc' = "walk",
             i' \in Block, j' \in 1 .. Len(Code(i')) + 1,
             env' \in [Var -> Int \cup {Undef}], taken' \cup handed' \subseteq Local \cup Param
      PROVE  TInv'
  <2>1. BoundVals' = BoundVals
    BY <1>2 DEF BoundVals
  <2>2. i' \in 1 .. N + 1 /\ j' \in Nat /\ j' >= 1
    <3>1. i' \in 1 .. N /\ Len(Code(i')) \in Nat
      BY <1>1, <1>2 DEF Block
    <3>2. j' \in 1 .. Len(Code(i')) + 1
      BY <1>2
    <3>3. i' \in 1 .. N + 1 /\ j' \in Nat /\ j' >= 1
      BY <1>1, <3>1, <3>2
    <3> QED  BY <3>3
  <2>3. TypeOK'
    <3> HIDE DEF Inst, Lattice
    <3> QED  BY <1>1, <1>2, <2>2 DEF TypeOK
  <2>4. Control'
    <3>1. Code(i)' = Code(i')
      BY <1>2 DEF Code
    <3>2. pc' = "walk" /\ ~change' /\ prog' \in Programs /\ out'[1] = BoundVals'
      BY <1>1, <1>2, <2>1
    <3> QED  BY <1>2, <2>2, <3>1, <3>2 DEF Control
  <2> QED  BY <2>3, <2>4
<1>3. CASE Start
  <2> USE <1>3 DEF Start
  <2>1. env' \in [Var -> Int \cup {Undef}]
    <3>1. PICK args \in [Param \ Pointers -> Values], glb \in [Global \ Pointers -> Values] :
             env' = [v \in Var |-> CASE v \in DOMAIN args -> args[v]
                                     [] v \in DOMAIN glb  -> glb[v]
                                     [] OTHER             -> Undef]
      OBVIOUS
    <3> QED  BY SMTT(30), <3>1, StartType
  <2>2. 1 \in Block /\ 1 \in 1 .. Len(Code(1)) + 1
    BY <1>1
  <2>3. \A b \in Block : Code(b)' = Code(b)
    BY DEF Code
  <2>4. taken' \cup handed' \subseteq Local \cup Param
    BY <1>1 DEF TypeOK
  <2>5. i' = 1 /\ j' = 1 /\ pc' = "walk"
    OBVIOUS
  <2> HIDE DEF Start
  <2>6. j' \in 1 .. Len(Code(i')) + 1
    BY <2>2, <2>5
  <2>7. UNCHANGED <<prog, inst, out, at, change, tmp>>
    BY DEF Start
  <2> QED  BY <1>2, <2>1, <2>2, <2>3, <2>4, <2>5, <2>6, <2>7
<1>4. CASE WalkInst
  <2> USE <1>4 DEF WalkInst
  <2>1. i \in Block /\ j \in 1 .. Len(Code(i)) /\ env \in [Var -> Int \cup {Undef}]
    BY <1>1 DEF Control, TypeOK
  <2>2. env' \in [Var -> Int \cup {Undef}]
    BY <1>1, <2>1, AfterType
  <2>3. taken' \cup handed' \subseteq Local \cup Param
    BY <1>1 DEF TypeOK
  <2>4. \A b \in Block : Code(b)' = Code(b)
    BY DEF Code
  <2>5. j' \in 1 .. Len(Code(i')) + 1 /\ i' = i /\ pc' = "walk"
    BY <1>1, <2>1
  <2>6. UNCHANGED <<prog, inst, out, at, change, tmp>>
    OBVIOUS
  <2> HIDE DEF WalkInst
  <2> QED  BY <1>2, <2>1, <2>2, <2>3, <2>4, <2>5, <2>6
<1>5. CASE WalkEdge
  <2> USE <1>5 DEF WalkEdge
  <2>1. i \in Block
    BY DEF Control
  <2>2. prog.target[i] \in 0 .. N /\ prog.fall[i] \in 0 .. N
    BY <1>1, <2>1, ProgType
  <2>3. i' \in Block /\ pc' = "walk" /\ j' = 1
    BY <1>1, <2>2 DEF Block
  <2>4. j' \in 1 .. Len(Code(i')) + 1
    BY <1>1, <2>3
  <2>5. \A b \in Block : Code(b)' = Code(b)
    BY DEF Code
  <2>6. env' \in [Var -> Int \cup {Undef}] /\ taken' \cup handed' \subseteq Local \cup Param
    BY <1>1 DEF TypeOK
  <2>7. UNCHANGED <<prog, inst, out, at, change, tmp>>
    OBVIOUS
  <2> HIDE DEF WalkEdge
  <2> QED  BY <1>2, <2>3, <2>4, <2>5, <2>6, <2>7
<1> QED
  BY <1>3, <1>4, <1>5

LEMMA TypeNext == TInv /\ [Next]_vars => TInv'
<1> SUFFICES ASSUME TInv, [Next]_vars PROVE TInv'
  OBVIOUS
<1>1. CASE UNCHANGED vars
  <2>1. UNCHANGED <<prog, inst, out, at, change, tmp, i, j, env, taken, handed, pc>>
    BY <1>1 DEF vars, analysis, walk
  <2>2. /\ \A b \in Block : Code(b)' = Code(b)
        /\ Code(i)' = Code(i) /\ BoundVals' = BoundVals
    BY <2>1 DEF Code, BoundVals
  <2>3. TypeOK'
    <3> HIDE DEF Inst, Lattice
    <3> QED  BY <2>1, <2>2 DEF TInv, TypeOK
  <2>4. Control'
    BY <2>1, <2>2 DEF TInv, Control, Finished
  <2> QED  BY <2>3, <2>4 DEF TInv
<1> QED
  BY <1>1, TypeAnalyse, TypeSimplify, TypeWalk DEF Next

-----------------------------------------------------------------------------
(* The equations of the analysis *)

LEMMA SolvedInit == Init => Solved
<1> SUFFICES ASSUME Init, NEW b \in Block \ {1}, NEW k \in 1 .. Len(Code(b)) + 1
             PROVE  ~Fresh(b, k)
  BY DEF Solved
<1>1. pc = "sweep" /\ i = 2
  BY DEF Init
<1>2. ~(b < 2)
  BY Marks DEF Block
<1> QED
  BY <1>1, <1>2 DEF Fresh, Finished, Sweeping

\* The equations of one vector.
Equations(b, k) ==
    /\ k = 1 /\ ~change => at[b][1] = JoinAll(out, b)
    /\ k > 1 => at[b][k] = Transfer(Code(b)[k - 1], at[b][k - 1])
    /\ k = Len(Code(b)) + 1 /\ (Finished \/ b < i) => out[b] = at[b][k]

\* They stand as long as the vectors they relate do.
LEMMA EquationsStand ==
    ASSUME NEW b \in Block, NEW k, Equations(b, k),
           UNCHANGED <<prog, out>>, UNCHANGED at[b], change' = change,
           k = Len(Code(b)) + 1 /\ (Finished' \/ b < i') => Finished \/ b < i
    PROVE  Equations(b, k)'
<1>1. JoinAll(out, b)' = JoinAll(out, b) /\ Code(b)' = Code(b)
  BY DEF JoinAll, Prevs, Code
<1>2. \A c, vec : Transfer(c, vec)' = Transfer(c, vec)
  BY DEF Transfer, Value, Known, Lose
<1> QED
  BY <1>1, <1>2 DEF Equations

LEMMA SolvedAnalyse ==
    ASSUME TInv, Solved, EnterBlock \/ Translate \/ LeaveBlock \/ SweepAgain \/ SweepEnd
    PROVE  Solved'
<1>1. /\ prog \in Programs /\ N \in Nat \ {0} /\ i \in 1 .. N + 1 /\ j \in Nat
      /\ out \in [Block -> [Var -> Lattice]] /\ DOMAIN at = Block
      /\ \A b \in Block : at[b] \in [1 .. Len(Code(b)) + 1 -> [Var -> Lattice]]
      /\ \A b \in Block : Len(Code(b)) \in Nat \ {0}
  BY Marks, ProgType DEF TInv, Control, TypeOK
<1>2. \A b \in Block : Code(b)' = Code(b)
  BY DEF Code, EnterBlock, Translate, LeaveBlock, SweepAgain, SweepEnd
<1>3. SUFFICES ASSUME NEW b \in Block \ {1}, NEW k \in 1 .. Len(Code(b)) + 1, Fresh(b, k)'
               PROVE  Equations(b, k)'
  BY <1>2 DEF Solved, Equations
<1>4. ASSUME Fresh(b, k) PROVE Equations(b, k)
  BY <1>4 DEF Solved, Equations
<1>5. b \in Block /\ b \in Int /\ b >= 2 /\ k \in Int /\ k >= 1
  BY <1>1 DEF Block
<1>6. CASE EnterBlock
  <2> USE <1>6 DEF EnterBlock
  <2>1. b < i \/ (b = i /\ k = 1)
    BY <1>1, <1>3, <1>5 DEF Fresh, Finished, Sweeping
  <2>2. CASE b < i
    <3>1. Equations(b, k)
      BY <1>4, <2>2 DEF Fresh, Sweeping
    <3>2. at'[b] = at[b] /\ b # i
      BY <1>1, <1>5, <2>2
    <3>3. Finished \/ b < i
      BY <2>2
    <3> HIDE DEF EnterBlock
    <3>4. UNCHANGED <<prog, out>> /\ change' = change
      BY DEF EnterBlock
    <3> QED  BY <1>5, <3>1, <3>2, <3>3, <3>4, EquationsStand
  <2>3. CASE b = i /\ k = 1
    <3>1. at'[b][1] = JoinAll(out, b)
      <4>1. i \in Block /\ 1 \in DOMAIN at[i]
        BY <1>1, <1>5, <2>3
      <4> QED  BY <1>1, <2>3, <4>1
    <3>2. JoinAll(out, b)' = JoinAll(out, b)
      BY DEF JoinAll, Prevs
    <3>3. ~(b < i') /\ ~Finished' /\ k = 1
      BY <1>5, <2>3 DEF Finished
    <3> QED  BY <3>1, <3>2, <3>3 DEF Equations
  <2> QED  BY <2>1, <2>2, <2>3
<1>7. CASE Translate
  <2> USE <1>7 DEF Translate
  <2>1. i \in Block /\ j \in 1 .. Len(Code(i)) /\ tmp = at[i][j]
    BY <1>1 DEF TInv, Control
  <2>2. j \in 1 .. Len(Code(i)) + 1 /\ j + 1 \in 1 .. Len(Code(i)) + 1 /\ j + 1 # j
    BY SMTT(30), <1>1, <2>1
  <2>3. /\ at'[i][j + 1] = Transfer(Code(i)[j], at[i][j]) /\ at'[i][j] = at[i][j]
        /\ \A q \in Block : q # i => at'[q] = at[q]
        /\ \A m \in 1 .. Len(Code(i)) + 1 : m # j + 1 => at'[i][m] = at[i][m]
    BY <1>1, <2>1, <2>2
  <2>4. b < i \/ (b = i /\ k <= j) \/ (b = i /\ k = j + 1)
    BY <1>1, <1>3, <1>5 DEF Fresh, Finished, Sweeping
  <2>5. i' = i /\ change' = change /\ UNCHANGED <<prog, out>> /\ ~Finished'
    BY DEF Finished
  <2>6. CASE b < i
    <3>1. Equations(b, k)
      BY <1>4, <2>6 DEF Fresh, Sweeping
    <3>2. at'[b] = at[b]
      BY <1>1, <1>5, <2>3, <2>6
    <3> HIDE DEF Translate
    <3> QED  BY <1>5, <2>5, <2>6, <3>1, <3>2, EquationsStand
  <2>7. CASE b = i /\ k <= j
    <3>1. Equations(b, k)
      BY <1>4, <2>7 DEF Fresh
    <3>2. at'[b][k] = at[b][k] /\ (k > 1 => at'[b][k - 1] = at[b][k - 1])
      <4>1. k # j + 1 /\ k - 1 # j + 1 /\ (k > 1 => k - 1 \in 1 .. Len(Code(b)) + 1)
        BY <1>1, <1>5, <2>7
      <4> QED  BY <2>3, <2>7, <4>1
    <3>3. JoinAll(out, b)' = JoinAll(out, b) /\ Code(b)' = Code(b)
      BY DEF JoinAll, Prevs, Code
    <3>4. \A c, vec : Transfer(c, vec)' = Transfer(c, vec)
      BY ZenonT(60) DEF Transfer, Value, Known, Lose
    <3>5. ~(b < i')
      BY <1>5, <2>7
    <3> HIDE DEF Translate
    <3> QED  BY <2>5, <3>1, <3>2, <3>3, <3>4, <3>5 DEF Equations
  <2>8. CASE b = i /\ k = j + 1
    <3>1. k > 1 /\ k - 1 = j /\ k # 1
      BY <1>1, <2>1, <2>8
    <3>2. \A c, vec : Transfer(c, vec)' = Transfer(c, vec)
      BY ZenonT(60) DEF Transfer, Value, Known, Lose
    <3>3. ~(b < i')
      BY <1>5, <2>8
    <3>4. Code(b)' = Code(b)
      BY <1>2, <1>5
    <3> HIDE DEF Translate
    <3> QED  BY <2>3, <2>5, <2>8, <3>1, <3>2, <3>3, <3>4 DEF Equations
  <2> QED  BY <2>4, <2>6, <2>7, <2>8
<1>8. CASE LeaveBlock
  <2> USE <1>8 DEF LeaveBlock
  <2>1. /\ i \in Block /\ j \in 1 .. Len(Code(i)) + 1 /\ tmp = at[i][j]
        /\ j = Len(Code(i)) + 1
    <3>1. i \in Block /\ j \in 1 .. Len(Code(i)) + 1 /\ tmp = at[i][j]
      BY DEF TInv, Control
    <3>2. Len(Code(i)) \in Nat
      BY <1>1, <3>1
    <3> QED  BY <3>1, <3>2
  <2>2. b < i \/ b = i
    BY <1>1, <1>3, <1>5 DEF Fresh, Finished, Sweeping
  <2>3. Equations(b, k)
    <3>1. Fresh(b, k)
      BY <1>1, <1>5, <2>1, <2>2 DEF Fresh, Sweeping
    <3> QED  BY <1>4, <3>1
  <2>4. /\ out'[i] = tmp /\ \A q \in Block : q # i => out'[q] = out[q]
        /\ ~change' => ~change /\ out' = out
    BY <1>1, <2>1
  <2>5. ASSUME ~change' PROVE JoinAll(out, b)' = JoinAll(out, b) /\ ~change
    <3>1. out' = out /\ prog' = prog /\ ~change
      BY <2>4, <2>5
    <3> HIDE DEF LeaveBlock
    <3> QED  BY <3>1 DEF JoinAll, Prevs
  <2>6. \A c, vec : Transfer(c, vec)' = Transfer(c, vec)
    BY DEF Transfer, Value, Known, Lose
  <2>7. Code(b)' = Code(b) /\ at' = at
    BY <1>2, <1>5
  <2>8. k = Len(Code(b)) + 1 => out'[b] = at[b][k]
    <3>1. CASE b < i
      <4>1. b # i
        BY <1>5, <3>1
      <4> QED  BY <1>5, <2>3, <2>4, <3>1, <4>1 DEF Equations
    <3>2. CASE b = i
      BY <2>1, <2>4, <3>2
    <3> QED  BY <2>2, <3>1, <3>2
  <2> HIDE DEF LeaveBlock
  <2> QED  BY <2>3, <2>5, <2>6, <2>7, <2>8 DEF Equations
<1>9. CASE SweepAgain
  <2>1. ~Fresh(b, k)'
    BY <1>1, <1>5, <1>9 DEF SweepAgain, Fresh, Finished, Sweeping
  <2> QED  BY <1>3, <2>1
<1>10. CASE SweepEnd
  <2> USE <1>10 DEF SweepEnd, analysis
  <2>1. b < i
    BY <1>1, <1>5 DEF Block
  <2>2. Equations(b, k)
    BY <1>4, <2>1 DEF Fresh, Sweeping
  <2>3. UNCHANGED <<prog, out, at>> /\ change' = change
    OBVIOUS
  <2> HIDE DEF SweepEnd
  <2> QED  BY <1>5, <2>1, <2>2, <2>3, EquationsStand
<1> QED
  BY <1>6, <1>7, <1>8, <1>9, <1>10

LEMMA SolvedLater ==
    ASSUME TInv, Solved,
           Simplify \/ SimplifyNext \/ Start \/ WalkInst \/ WalkEdge \/ UNCHANGED vars
    PROVE  Solved'
<1>1. /\ UNCHANGED <<prog, out, at, change>>
      /\ \A b \in Block : Code(b)' = Code(b)
  BY DEF Simplify, SimplifyNext, Start, WalkInst, WalkEdge, vars, analysis, Code
<1>2. SUFFICES ASSUME NEW b \in Block \ {1}, NEW k \in 1 .. Len(Code(b)) + 1, Fresh(b, k)'
               PROVE  Equations(b, k)'
  BY <1>1 DEF Solved, Equations
<1>3. Finished \/ UNCHANGED <<pc, i, j>>
  BY DEF Simplify, SimplifyNext, Start, WalkInst, WalkEdge, vars, Finished
<1>4. Fresh(b, k)
  BY <1>2, <1>3 DEF Fresh, Sweeping, Finished
<1>5. Equations(b, k)
  BY <1>4 DEF Solved, Equations
<1>6. k = Len(Code(b)) + 1 /\ (Finished' \/ b < i') => Finished \/ b < i
  BY <1>3 DEF Finished
<1> QED
  BY <1>1, <1>5, <1>6, EquationsStand

LEMMA SolvedNext == TInv /\ Solved /\ [Next]_vars => Solved'
BY SolvedAnalyse, SolvedLater DEF Next

-----------------------------------------------------------------------------
(* The new instructions, and the invariant *)

LEMMA ReplacedInit == Init => Replaced
<1>1. Init => inst[1] = Code(1)
  BY DEF Init, Code
<1>2. Init => \A b, k : ~Passed(b, k)
  BY DEF Init, Passed
<1> QED
  BY <1>1, <1>2 DEF Replaced

LEMMA NewCodeStands ==
    ASSUME UNCHANGED <<prog, at>>
    PROVE  \A b, k : NewCode(b, k)' = NewCode(b, k)
BY DEF NewCode, Code

LEMMA ReplacedNext == TInv /\ Replaced /\ [Next]_vars => Replaced'
<1> SUFFICES ASSUME TInv, Replaced, [Next]_vars PROVE Replaced'
  OBVIOUS
<1>1. /\ prog \in Programs /\ N \in Nat \ {0} /\ i \in 1 .. N + 1 /\ j \in Nat
      /\ pc # "walk" => i >= 2
      /\ \A b \in Block : Len(Code(b)) \in Nat \ {0}
  BY Marks, ProgType DEF TInv, Control, TypeOK
<1>2. \A b \in Block : Code(b)' = Code(b)
  BY DEF Next, vars, analysis, walk, Code, EnterBlock, Translate, LeaveBlock, SweepAgain,
         SweepEnd, Simplify, SimplifyNext, Start, WalkInst, WalkEdge
<1>3. CASE EnterBlock \/ Translate \/ LeaveBlock \/ SweepAgain \/ SweepEnd
  <2>1. /\ inst' = inst /\ pc' \in {"sweep", "translate", "simplify"}
        /\ pc' = "simplify" => i' = 2 /\ j' = 1
    BY <1>3 DEF EnterBlock, Translate, LeaveBlock, SweepAgain, SweepEnd
  <2>2. ASSUME NEW b \in Block \ {1}, NEW k \in 1 .. Len(Code(b)), Passed(b, k)'
        PROVE  FALSE
    <3>1. b \in Int /\ b >= 2 /\ k \in Int /\ k >= 1
      BY <1>1 DEF Block
    <3> QED  BY <2>1, <2>2, <3>1 DEF Passed
  <2>3. inst'[1] = Code(1)'
    BY <1>1, <1>2, <2>1, ProgType DEF Replaced
  <2> QED  BY <1>2, <2>2, <2>3 DEF Replaced
<1>4. CASE Simplify
  <2> USE <1>4 DEF Simplify, analysis
  <2> HIDE <1>4
  <2>1. i \in Block \ {1} /\ j \in 1 .. Len(Code(i)) /\ UNCHANGED <<prog, at>>
    <3>1. pc = "simplify" /\ i <= N /\ j <= Len(Code(i)) /\ UNCHANGED <<prog, at>>
      BY <1>4
    <3>2. i >= 2 /\ i \in Block
      BY <1>1, <3>1 DEF Block
    <3>3. j >= 1 /\ Len(Code(i)) \in Nat
      BY <1>1, <3>2 DEF TInv, Control
    <3> QED  BY <1>1, <3>1, <3>2, <3>3
  <2>2. inst' = [inst EXCEPT ![i][j] = NewCode(i, j)]
    BY <1>4 DEF NewCode
  <2>3. /\ inst'[i][j] = NewCode(i, j) /\ inst'[1] = inst[1]
        /\ \A b \in Block : \A k \in 1 .. Len(Code(b)) :
              << b, k >> # << i, j >> => inst'[b][k] = inst[b][k]
    <3>1. inst \in [Block -> Seq(Inst)] /\ Len(inst[i]) = Len(Code(i)) /\ 1 \in Block
      BY <1>1, <2>1, ProgType DEF TInv, TypeOK
    <3> DEFINE insts == Inst
               x == NewCode(i, j)
    <3>2. inst[i] \in Seq(insts)
      <4> HIDE DEF insts
      <4>1. inst \in [Block -> Seq(insts)]
        BY <3>1 DEF insts
      <4> QED  BY <2>1, <4>1
    <3> HIDE DEF insts, x, Simplify
    <3>3. j \in DOMAIN inst[i]
      BY <2>1, <3>1, <3>2
    <3>4. DOMAIN inst = Block
      BY <3>1
    <3>5. inst' = [inst EXCEPT ![i] = [inst[i] EXCEPT ![j] = x]]
      BY <2>2 DEF x
    <3>6. inst'[i] = [inst[i] EXCEPT ![j] = x] /\ \A b \in Block : b # i => inst'[b] = inst[b]
      BY <2>1, <3>4, <3>5
    <3>7. inst'[i][j] = x
      BY <3>3, <3>6
    <3>8. \A k : k # j => [inst[i] EXCEPT ![j] = x][k] = inst[i][k] \/ k \notin DOMAIN inst[i]
      OBVIOUS
    <3>9. DOMAIN inst[i] = 1 .. Len(Code(i))
      BY <3>1, <3>2
    <3> QED  BY <2>1, <3>1, <3>6, <3>7, <3>8, <3>9 DEF x
  <2>4. \A b, k : NewCode(b, k)' = NewCode(b, k)
    BY <2>1, NewCodeStands
  <2>5. ASSUME NEW b \in Block \ {1}, NEW k \in 1 .. Len(Code(b)), Passed(b, k)'
        PROVE  inst'[b][k] = NewCode(b, k)'
    <3>1. CASE << b, k >> = << i, j >>
      BY <2>3, <2>4, <3>1
    <3>2. CASE << b, k >> # << i, j >>
      <4>1. Passed(b, k)
        <5>1. b \in Int /\ k \in Int
          BY <1>1 DEF Block
        <5>2. pc = "simplify" /\ (b < i \/ (b = i /\ k < j + 1))
          BY <1>4, <2>5 DEF Passed
        <5> QED  BY <1>1, <3>2, <5>1, <5>2 DEF Passed
      <4>2. inst[b][k] = NewCode(b, k)
        BY <4>1 DEF Replaced
      <4> QED  BY <2>3, <2>4, <3>2, <4>2
    <3> QED  BY <3>1, <3>2
  <2>6. inst'[1] = Code(1)'
    BY <1>1, <1>2, <2>3, ProgType DEF Replaced
  <2> HIDE DEF Simplify
  <2> QED  BY <1>2, <2>5, <2>6 DEF Replaced
<1>5. CASE SimplifyNext \/ Start \/ WalkInst \/ WalkEdge \/ UNCHANGED vars
  <2>1. UNCHANGED <<prog, inst, at>>
    BY <1>5 DEF SimplifyNext, Start, WalkInst, WalkEdge, vars, analysis
  <2>2. \A b, k : NewCode(b, k)' = NewCode(b, k)
    BY <2>1, NewCodeStands
  <2>3. ASSUME NEW b \in Block \ {1}, NEW k \in 1 .. Len(Code(b)), Passed(b, k)'
        PROVE  Passed(b, k)
    <3>1. b \in Int /\ b <= N /\ k \in Int /\ k <= Len(Code(b)) /\ Len(Code(b)) \in Nat
      BY <1>1 DEF Block
    <3>2. CASE SimplifyNext
      <4>1. pc = "simplify" /\ i <= N /\ j > Len(Code(i)) /\ (b < i + 1 \/ (b = i + 1 /\ k < 1))
        BY <2>3, <3>2 DEF SimplifyNext, Passed
      <4>2. k >= 1
        OBVIOUS
      <4>3. b <= i
        BY <1>1, <3>1, <4>1, <4>2
      <4>4. b = i => k < j
        BY <1>1, <3>1, <4>1
      <4> QED  BY <1>1, <3>1, <4>1, <4>3, <4>4 DEF Passed
    <3>3. CASE Start
      BY <1>1, <3>1, <3>3 DEF Start, Passed
    <3>4. CASE WalkInst \/ WalkEdge
      BY <3>4 DEF WalkInst, WalkEdge, Passed
    <3>5. CASE UNCHANGED vars
      BY <2>3, <3>5 DEF vars, Passed
    <3> QED  BY <1>5, <3>2, <3>3, <3>4, <3>5
  <2>4. inst'[1] = Code(1)'
    BY <1>1, <1>2, <2>1, ProgType DEF Replaced
  <2> QED  BY <1>2, <2>1, <2>2, <2>3, <2>4 DEF Replaced
<1> QED
  BY <1>3, <1>4, <1>5 DEF Next

\* The inductive invariant holds in every reachable state.
THEOREM Invariance == Spec => []IInv
<1>1. Init => IInv
  BY TypeInit, SolvedInit, ReplacedInit DEF IInv, TInv
<1>2. IInv /\ [Next]_vars => IInv'
  BY TypeNext, SolvedNext, ReplacedNext DEF IInv, TInv
<1> QED
  BY <1>1, <1>2, PTL DEF Spec

\* TypeOK: ConstProp's variables keep their types.
THEOREM TypeCorrect == Spec => []TypeOK
<1>1. IInv => TypeOK
  BY DEF IInv
<1> QED
  BY <1>1, Invariance, PTL

-----------------------------------------------------------------------------
(* What holds when analyse has returned *)

\* The equations of the analysis, without conditions.
LEMMA AllSolved ==
    ASSUME IInv, Finished
    PROVE  /\ out[1] = BoundVals
           /\ \A b \in Block \ {1} :
                 /\ at[b][1] = JoinAll(out, b)
                 /\ \A k \in 1 .. Len(Code(b)) : at[b][k + 1] = Transfer(Code(b)[k], at[b][k])
                 /\ out[b] = at[b][Len(Code(b)) + 1]
<1>1. prog \in Programs /\ ~change /\ out[1] = BoundVals
  BY DEF IInv, Control
<1>2. ASSUME NEW b \in Block \ {1}
      PROVE  /\ at[b][1] = JoinAll(out, b)
             /\ \A k \in 1 .. Len(Code(b)) : at[b][k + 1] = Transfer(Code(b)[k], at[b][k])
             /\ out[b] = at[b][Len(Code(b)) + 1]
  <2>1. Len(Code(b)) \in Nat \ {0}
    BY <1>1, ProgType
  <2>2. \A k \in 1 .. Len(Code(b)) + 1 :
           /\ k = 1 => at[b][1] = JoinAll(out, b)
           /\ k > 1 => at[b][k] = Transfer(Code(b)[k - 1], at[b][k - 1])
           /\ k = Len(Code(b)) + 1 => out[b] = at[b][k]
    BY <1>1 DEF IInv, Solved, Fresh
  <2>3. 1 \in 1 .. Len(Code(b)) + 1 /\ Len(Code(b)) + 1 \in 1 .. Len(Code(b)) + 1
    BY <2>1
  <2>4. ASSUME NEW k \in 1 .. Len(Code(b))
        PROVE  at[b][k + 1] = Transfer(Code(b)[k], at[b][k])
    <3>1. k + 1 \in 1 .. Len(Code(b)) + 1 /\ k + 1 > 1 /\ (k + 1) - 1 = k
      BY <2>1
    <3> QED  BY <2>2, <3>1
  <2> QED  BY <2>2, <2>3, <2>4
<1> QED
  BY <1>1, <1>2

\* Only an expression makes something known of a variable.
LEMMA TransferAt ==
    ASSUME NEW c, NEW vec \in [Var -> Lattice], NEW v \in Var,
           ~(c.op \in Expr /\ c.res = v)
    PROVE  Transfer(c, vec)[v] \in {vec[v], NAC}
<1>1. CASE c.op \in Expr
  <2>1. Transfer(c, vec) = [vec EXCEPT ![c.res] = Value(c, vec)] /\ c.res # v
    BY <1>1, TransferCases
  <2> QED  BY <2>1
<1>2. CASE c.op \notin Expr
  <2>1. Transfer(c, vec) \in {vec, Lose(vec, Var), Lose(vec, Global), Lose(vec, Global \cup {c.res})}
    BY <1>2, TransferCases
  <2> QED  BY <2>1, LoseType
<1> QED
  BY <1>1, <1>2

\* A declaration that a path reaches before any assignment finds the initial
\* value or NAC.
LEMMA DeclaredKnown ==
    ASSUME IInv, Finished, NEW v \in Var, prog.init[v] # Undef,
           NEW b \in Block \ {1}, NEW k \in 1 .. Len(Code(b)), << b, k >> \in Untouched(v)
    PROVE  at[b][k][v] \in {NAC, prog.init[v]}
<1> DEFINE good == {NAC, prog.init[v]}
           set == {p \in Points : p[1] = 1 \/ at[p[1]][p[2]][v] \in good}
<1>1. /\ prog \in Programs /\ 1 \in Block
      /\ out \in [Block -> [Var -> Lattice]] /\ DOMAIN at = Block
      /\ \A q \in Block : Len(Code(q)) \in Nat \ {0}
      /\ \A q \in Block : at[q] \in [1 .. Len(Code(q)) + 1 -> [Var -> Lattice]]
  BY ProgType DEF IInv, Control, TypeOK
<1>2. Undef \notin good
  BY Marks
<1>3. \A q \in Block : \A m \in 1 .. Len(Code(q)) + 1 :
         << q, m >> \in Points /\ (<< q, m >> \in set <=> q = 1 \/ at[q][m][v] \in good)
  BY DEF Points
<1> HIDE DEF set, good
<1>4. \A m \in 1 .. Len(Code(1)) + 1 : << 1, m >> \in set
  BY <1>1, <1>3
<1>5. ASSUME NEW q \in Block, << q, Len(Code(q)) + 1 >> \in set
      PROVE  out[q][v] \in good
  <2>1. CASE q = 1
    <3>1. out[1] = BoundVals
      BY AllSolved
    <3> QED  BY <2>1, <3>1 DEF BoundVals, good
  <2>2. CASE q # 1
    <3>1. Len(Code(q)) + 1 \in 1 .. Len(Code(q)) + 1
      BY <1>1
    <3>2. out[q] = at[q][Len(Code(q)) + 1]
      BY <2>2, AllSolved
    <3> QED  BY <1>3, <1>5, <2>2, <3>1, <3>2
  <2> QED  BY <2>1, <2>2
<1>6. ASSUME NEW d \in Block, NEW q \in Prevs(d), << q, Len(Code(q)) + 1 >> \in set
      PROVE  << d, 1 >> \in set
  <2>1. 1 \in 1 .. Len(Code(d)) + 1 /\ q \in Block
    BY <1>1 DEF Prevs
  <2>2. CASE d = 1
    BY <1>3, <2>1, <2>2
  <2>3. CASE d # 1
    <3>1. out[q][v] \in good /\ out[q][v] \in Ends(out, d, v)
      BY <1>5, <1>6, <2>1 DEF Ends
    <3>2. at[d][1][v] = Join(Ends(out, d, v))
      <4>1. at[d][1] = JoinAll(out, d)
        BY <2>3, AllSolved
      <4> QED  BY <1>1, <4>1, JoinAllType
    <3>3. Join(Ends(out, d, v)) \in {out[q][v], NAC}
      <4>1. out[q][v] # Undef
        BY <1>2, <3>1
      <4> QED  BY <3>1, <4>1, EndsFinite, JoinCases
    <3>4. at[d][1][v] \in good
      BY <3>1, <3>2, <3>3 DEF good
    <3> QED  BY <1>3, <2>1, <3>4
  <2> QED  BY <2>2, <2>3
<1>7. ASSUME NEW d \in Block, NEW m \in 1 .. Len(Code(d)), << d, m >> \in set,
             ~(Code(d)[m].op \in Expr /\ Code(d)[m].res = v)
      PROVE  << d, m + 1 >> \in set
  <2>1. m \in 1 .. Len(Code(d)) + 1 /\ m + 1 \in 1 .. Len(Code(d)) + 1
    BY <1>1
  <2>2. CASE d = 1
    BY <1>3, <2>1, <2>2
  <2>3. CASE d # 1
    <3>1. at[d][m][v] \in good
      BY <1>3, <1>7, <2>1, <2>3
    <3>2. at[d][m + 1] = Transfer(Code(d)[m], at[d][m])
      BY <2>3, AllSolved
    <3>3. at[d][m] \in [Var -> Lattice]
      BY <1>1, <2>1
    <3>4. at[d][m + 1][v] \in {at[d][m][v], NAC}
      BY <1>7, <3>2, <3>3, TransferAt
    <3>5. at[d][m + 1][v] \in good
      BY <3>1, <3>4 DEF good
    <3> QED  BY <1>3, <2>1, <3>5
  <2> QED  BY <2>2, <2>3
<1>8. set \in ClosedSets(v)
  <2>1. set \in SUBSET Points
    BY DEF set
  <2> QED  BY <1>4, <1>6, <1>7, <2>1 DEF ClosedSets
<1>9. << b, k >> \in set
  BY <1>8 DEF Untouched
<1>10. k \in 1 .. Len(Code(b)) + 1
  BY <1>1
<1> QED
  BY <1>3, <1>9, <1>10 DEF good

-----------------------------------------------------------------------------
(* The walk *)

\* What a true vector says of an operand is true.
LEMMA HoldsTrue ==
    ASSUME NEW vec \in [Var -> Lattice], True(vec, env), NEW a \in Operand
    PROVE  /\ Known(a, vec) = Undef => Holds(a) = Undef
           /\ Const(Known(a, vec)) => Holds(a) \in {Known(a, vec), Undef}
<1>1. CASE a \in Var
  BY <1>1 DEF Known, Holds, True
<1>2. CASE a \notin Var /\ a \in Pointers
  BY <1>2, Marks DEF Known, Holds, Const
<1>3. CASE a \notin Var /\ a \notin Pointers
  <2>1. a \in Int
    BY <1>3 DEF Operand
  <2> QED  BY <1>3, <2>1, Marks DEF Known, Holds
<1> QED
  BY <1>1, <1>2, <1>3

\* What it says of the value of an expression is true.
LEMMA ResultTrue ==
    ASSUME NEW vec \in [Var -> Lattice], True(vec, env), NEW c, c.op \in Pure,
           c.arg1 \in Operand, c.op \in Binary => c.arg2 \in Operand
    PROVE  /\ Value(c, vec) = Undef => Result(c) = Undef
           /\ Const(Value(c, vec)) => Result(c) \in {Value(c, vec), Undef}
<1> DEFINE l == Known(c.arg1, vec)
           r == IF c.op \in Binary THEN Known(c.arg2, vec) ELSE l
           x == Holds(c.arg1)
           y == IF c.op \in Binary THEN Holds(c.arg2) ELSE x
           byZero(n) == c.op \in {"div", "mod"} /\ n = 0
<1>1. /\ l = Undef => x = Undef
      /\ Const(l) => x \in {l, Undef}
      /\ r = Undef => y = Undef
      /\ Const(r) => y \in {r, Undef}
  BY HoldsTrue
<1>2. /\ NAC \in {l, r} => Value(c, vec) = NAC
      /\ NAC \notin {l, r} /\ Undef \in {l, r} => Value(c, vec) = Undef
      /\ NAC \notin {l, r} /\ Undef \notin {l, r} =>
            Value(c, vec) = IF byZero(r) THEN NAC ELSE Fold(c.op, l, r)
  BY ValueCases
<1>3. Result(c) = IF Undef \in {x, y} \/ byZero(y) THEN Undef ELSE Fold(c.op, x, y)
  BY DEF Result
<1>4. l \in Lattice /\ r \in Lattice
  BY KnownType
<1>5. ASSUME NAC \notin {l, r}, Undef \notin {l, r}, ~byZero(r)
      PROVE  Fold(c.op, l, r) \in Int
  <2>1. l \in Int /\ r \in Int
    BY <1>4, <1>5 DEF Lattice
  <2> QED  BY <1>5, <2>1, FoldType
<1> HIDE DEF l, r, x, y
<1>6. CASE NAC \in {l, r}
  BY <1>2, <1>6, Marks DEF Const
<1>7. CASE NAC \notin {l, r} /\ Undef \in {l, r}
  BY <1>1, <1>2, <1>3, <1>7 DEF Const
<1>8. CASE NAC \notin {l, r} /\ Undef \notin {l, r}
  <2>1. x \in {l, Undef} /\ y \in {r, Undef}
    BY <1>1, <1>8 DEF Const
  <2>2. CASE byZero(r)
    BY <1>2, <1>8, <2>2, Marks DEF Const
  <2>3. CASE ~byZero(r)
    <3>1. Value(c, vec) = Fold(c.op, l, r) /\ Value(c, vec) # Undef
      BY <1>2, <1>5, <1>8, <2>3, Marks
    <3>2. Result(c) \in {Fold(c.op, l, r), Undef}
      BY <1>3, <2>1
    <3> QED  BY <3>1, <3>2
  <2> QED  BY <2>2, <2>3
<1> QED
  BY <1>6, <1>7, <1>8

\* The vector after an instruction tells the truth after it.
LEMMA AfterTrue ==
    ASSUME prog \in Programs, env \in [Var -> Int \cup {Undef}],
           NEW b \in Block, NEW k \in 1 .. Len(Code(b)), NEW e \in After(Code(b)[k]),
           NEW vec \in [Var -> Lattice], True(vec, env),
           \A v \in handed : vec[v] = NAC, handed \subseteq Var,
           Code(b)[k].op = "dec" /\ prog.init[Code(b)[k].arg1] # Undef =>
              vec[Code(b)[k].arg1] \in {NAC, prog.init[Code(b)[k].arg1]}
    PROVE  True(Transfer(Code(b)[k], vec), e)
<1> DEFINE c == Code(b)[k]
<1>1. /\ c.op \in Expr \cup {"call"} => c.res \in Var
      /\ c.op \in Pure => c.arg1 \in Operand
      /\ c.op \in Binary => c.arg2 \in Operand
      /\ c.op = "dec" => c.arg1 \in Var
  BY InstType
<1>2. /\ e \in After(c)
      /\ c.op = "dec" /\ prog.init[c.arg1] # Undef => vec[c.arg1] \in {NAC, prog.init[c.arg1]}
  OBVIOUS
<1> SUFFICES True(Transfer(c, vec), e)
  OBVIOUS
<1> HIDE DEF c
<1>3. NAC # Undef /\ ~Const(NAC) /\ ~Const(Undef)
  BY Marks DEF Const
<1>4. \A v \in Var : /\ vec[v] = Undef => env[v] = Undef
                     /\ Const(vec[v]) => env[v] \in {vec[v], Undef}
  BY DEF True
<1>5. CASE c.op \in Pure
  <2>1. Transfer(c, vec) = [vec EXCEPT ![c.res] = Value(c, vec)]
    BY <1>5, TransferCases DEF Expr
  <2>2. e = [env EXCEPT ![c.res] = Result(c)]
    BY <1>2, <1>5, AfterCases
  <2>3. /\ Value(c, vec) = Undef => Result(c) = Undef
        /\ Const(Value(c, vec)) => Result(c) \in {Value(c, vec), Undef}
    BY <1>1, <1>5, ResultTrue
  <2> QED  BY <1>4, <2>1, <2>2, <2>3 DEF True
<1>6. CASE c.op = "get"
  <2>1. Transfer(c, vec) = [vec EXCEPT ![c.res] = Value(c, vec)]
    BY <1>6, TransferCases DEF Expr
  <2>2. Value(c, vec) = NAC
    BY <1>6 DEF Value
  <2>3. PICK w \in Values : e = [env EXCEPT ![c.res] = w]
    BY <1>2, <1>6, AfterCases
  <2> QED  BY <1>3, <1>4, <2>1, <2>2, <2>3 DEF True
<1>7. CASE c.op = "dec"
  <2>1. Transfer(c, vec) = vec
    BY <1>7, TransferCases DEF Expr, Pure, Binary, Arith, Compares
  <2>2. e = [env EXCEPT ![c.arg1] = prog.init[c.arg1]]
    BY <1>2, <1>7, AfterCases
  <2>3. /\ vec[c.arg1] = Undef => prog.init[c.arg1] = Undef
        /\ Const(vec[c.arg1]) => prog.init[c.arg1] \in {vec[c.arg1], Undef}
    BY <1>2, <1>3, <1>7
  <2> QED  BY <1>4, <2>1, <2>2, <2>3 DEF True
<1>8. CASE c.op = "set" \/ (c.op = "arg" /\ c.arg1 \in Pointers)
  <2>1. Transfer(c, vec) = Lose(vec, Var)
    BY <1>8, TransferCases
  <2>2. \A v \in Var : Transfer(c, vec)[v] = NAC
    BY <2>1, LoseType
  <2> QED  BY <1>3, <2>2 DEF True
<1>9. CASE c.op = "proc"
  <2>1. Transfer(c, vec) = Lose(vec, Global)
    BY <1>9, TransferCases
  <2>2. \A v \in Var : v \in Foreign => Transfer(c, vec)[v] = NAC
    BY <2>1, LoseType DEF Foreign
  <2>3. \A v \in Var : Transfer(c, vec)[v] \in {vec[v], NAC}
    BY <2>1, LoseType
  <2>4. PICK new \in [Foreign -> Values] :
           e = [v \in Var |-> IF v \in Foreign THEN new[v] ELSE env[v]]
    BY <1>2, <1>9, AfterCases
  <2>5. \A v \in Var : v \notin Foreign => e[v] = env[v]
    BY <2>4
  <2> QED  BY <1>3, <1>4, <2>2, <2>3, <2>5 DEF True
<1>10. CASE c.op = "call"
  <2>1. Transfer(c, vec) = Lose(vec, Global \cup {c.res})
    BY <1>10, TransferCases
  <2>2. \A v \in Var : v \in Foreign \cup {c.res} => Transfer(c, vec)[v] = NAC
    BY <2>1, LoseType DEF Foreign
  <2>3. \A v \in Var : Transfer(c, vec)[v] \in {vec[v], NAC}
    BY <2>1, LoseType
  <2>4. PICK new \in [Foreign -> Values], w \in Values :
           e = [[v \in Var |-> IF v \in Foreign THEN new[v] ELSE env[v]]
                   EXCEPT ![c.res] = w]
    BY <1>2, <1>10, AfterCases
  <2>5. \A v \in Var : v \notin Foreign \cup {c.res} => e[v] = env[v]
    BY <2>4
  <2> QED  BY <1>3, <1>4, <2>2, <2>3, <2>5 DEF True
<1>11. CASE /\ c.op \notin Expr \cup {"dec", "set", "proc", "call"}
            /\ ~(c.op = "arg" /\ c.arg1 \in Pointers)
  <2>1. Transfer(c, vec) = vec
    BY <1>11, TransferCases
  <2>2. e = env
    BY <1>2, <1>11, AfterCases DEF Expr
  <2> QED  BY <2>1, <2>2
<1> QED
  BY <1>5, <1>6, <1>7, <1>8, <1>9, <1>10, <1>11 DEF Expr

\* What is lost of the variables that were handed to a call stays lost.
LEMMA HandedLost ==
    ASSUME Regular, PointerHanded, NEW b \in Block, NEW k \in 1 .. Len(Code(b)),
           NEW vec \in [Var -> Lattice], NEW v \in Var, v \in Addressed, vec[v] = NAC
    PROVE  Transfer(Code(b)[k], vec)[v] = NAC
<1> DEFINE c == Code(b)[k]
<1>1. c \in Instructions
  BY DEF Instructions
<1>2. c.op \in Pure => c.res # v
  BY <1>1 DEF Regular, PointerHanded
<1> SUFFICES Transfer(c, vec)[v] = NAC
  OBVIOUS
<1> HIDE DEF c
<1>3. CASE c.op = "get" /\ c.res = v
  <2>1. Transfer(c, vec) = [vec EXCEPT ![c.res] = Value(c, vec)] /\ Value(c, vec) = NAC
    BY <1>3, TransferCases DEF Expr, Value
  <2> QED  BY <1>3, <2>1
<1>4. CASE ~(c.op \in Expr /\ c.res = v)
  BY <1>4, TransferAt
<1> QED
  BY <1>2, <1>3, <1>4 DEF Expr

\* The walk begins with what the vector of ENTRY says.
LEMMA StartTrue ==
    ASSUME IInv, Regular, Start
    PROVE  True(BoundVals, env')
<1>1. prog \in Programs
  BY DEF IInv, Control
<1>2. PICK args \in [Param \ Pointers -> Values], glb \in [Global \ Pointers -> Values] :
         /\ prog.main => \A g \in Global \ Pointers :
               glb[g] = IF prog.init[g] = Undef THEN 0 ELSE prog.init[g]
         /\ env' = [v \in Var |-> CASE v \in DOMAIN args -> args[v]
                                    [] v \in DOMAIN glb  -> glb[v]
                                    [] OTHER             -> Undef]
  BY DEF Start
<1>3. \A g \in Global \ Pointers : glb[g] = prog.init[g] /\ prog.init[g] # Undef
  BY <1>2 DEF Regular
<1>4. \A v \in Var : BoundVals[v] = IF v \in Param \cup Pointers THEN NAC ELSE prog.init[v]
  BY DEF BoundVals
<1>5. ASSUME NEW v \in Var
      PROVE  /\ BoundVals[v] = Undef => env'[v] = Undef
             /\ Const(BoundVals[v]) => env'[v] \in {BoundVals[v], Undef}
  <2>1. CASE v \in Param \cup Pointers
    BY <1>4, <2>1, Marks DEF Const
  <2>2. CASE v \notin Param \cup Pointers /\ v \in Global
    <3>1. env'[v] = glb[v]
      <4>1. v \in DOMAIN glb /\ v \notin DOMAIN args
        BY <2>2
      <4> QED  BY <1>2, <4>1
    <3> QED  BY <1>3, <1>4, <2>2, <3>1
  <2>3. CASE v \notin Param \cup Pointers /\ v \notin Global
    <3>1. env'[v] = Undef
      <4>1. v \notin DOMAIN glb /\ v \notin DOMAIN args
        BY <2>3
      <4> QED  BY <1>2, <4>1
    <3> QED  BY <3>1
  <2> QED  BY <2>1, <2>2, <2>3
<1> QED
  BY <1>5 DEF True

LEMMA VectorType ==
    ASSUME IInv, NEW b \in Block, NEW k \in 1 .. Len(Code(b)) + 1
    PROVE  Vector(b, k) \in [Var -> Lattice]
BY InitVectors DEF IInv, TypeOK, Control, Vector

\* What a function is and where its code is do not change.
LEMMA ProgramStands ==
    ASSUME UNCHANGED prog
    PROVE  /\ Regular' = Regular /\ PointerHanded' = PointerHanded
           /\ Addressed' = Addressed /\ BoundVals' = BoundVals
<1>1. UNCHANGED <<Points, Instructions>> /\ \A b : Code(b)' = Code(b)
  BY DEF Points, Instructions, Code
<1>2. \A v : Untouched(v)' = Untouched(v)
  BY <1>1 DEF Untouched, ClosedSets, Prevs
<1>3. Addressed' = Addressed /\ PointerHanded' = PointerHanded
  BY <1>1 DEF Addressed, PointerHanded
<1>4. Regular' = Regular
  <2>1. PointerKept' = PointerKept
    BY <1>1 DEF PointerKept
  <2> QED  BY <1>1, <1>2, <1>3, <2>1 DEF Regular
<1> QED
  BY <1>3, <1>4 DEF BoundVals

LEMMA FollowsInst ==
    ASSUME IInv, Regular, Follows, WalkInst
    PROVE  Follows'
<1> DEFINE c == Code(i)[j]
           vec == Vector(i, j)
           next == Vector(i, j + 1)
<1>1. /\ pc = "walk" /\ prog \in Programs /\ i \in Block /\ j \in 1 .. Len(Code(i))
      /\ j + 1 \in 1 .. Len(Code(i)) + 1 /\ j \in 1 .. Len(Code(i)) + 1
      /\ env \in [Var -> Int \cup {Undef}] /\ taken \cup handed \subseteq Local \cup Param
  <2>1. /\ pc = "walk" /\ prog \in Programs /\ i \in Block /\ j <= Len(Code(i))
        /\ j \in 1 .. Len(Code(i)) + 1
        /\ env \in [Var -> Int \cup {Undef}] /\ taken \cup handed \subseteq Local \cup Param
    BY DEF WalkInst, IInv, Control, TypeOK
  <2>2. Len(Code(i)) \in Nat
    BY <2>1, ProgType
  <2> QED  BY <2>1, <2>2
<1>2. /\ env' \in After(c) /\ i' = i /\ j' = j + 1 /\ pc' = "walk" /\ UNCHANGED <<prog, at>>
      /\ taken' = IF c.op = "lea" THEN taken \cup ({c.arg1} \cap (Local \cup Param)) ELSE taken
      /\ handed' = IF Escapes(c) THEN taken' ELSE handed
  BY DEF WalkInst, analysis
<1>3. /\ True(vec, env) /\ taken \cup handed \subseteq Addressed
      /\ handed # {} => PointerHanded
      /\ \A v \in handed : vec[v] = NAC
  BY <1>1 DEF Follows
<1>4. vec \in [Var -> Lattice]
  BY <1>1, VectorType
<1>5. c \in Instructions
  BY <1>1 DEF Instructions
<1>6. next = IF i = 1 THEN vec ELSE Transfer(c, vec)
  <2>1. Finished
    BY <1>1 DEF Finished
  <2> QED  BY <1>1, <2>1, AllSolved DEF Vector
<1>7. i = 1 => c.op = "other"
  <2>1. ASSUME i = 1 PROVE j = 1
    <3>1. Len(Code(1)) = 1
      BY <1>1, ProgType
    <3>2. j \in 1 .. 1
      BY <1>1, <2>1, <3>1
    <3> QED  BY <3>2
  <2>2. Code(1)[1].op = "other"
    BY <1>1, ProgType
  <2> QED  BY <2>1, <2>2
<1>8. True(next, env')
  <2>1. CASE i = 1
    <3>1. env' = env
      <4>1. "other" \notin Pure \cup {"get", "dec", "set", "proc", "call"}
        BY DEF Pure, Binary, Arith, Compares
      <4>2. c.op = "other"
        BY <1>7, <2>1
      <4> QED  BY <1>2, <4>1, <4>2, AfterCases
    <3> QED  BY <1>3, <1>6, <2>1, <3>1
  <2>2. CASE i # 1
    <3>1. ASSUME c.op = "dec", prog.init[c.arg1] # Undef
          PROVE  vec[c.arg1] \in {NAC, prog.init[c.arg1]}
      <4>1. c.arg1 \in Var
        BY <1>1, <3>1, InstType
      <4>2. << i, j >> \in Untouched(c.arg1)
        BY <1>1, <3>1 DEF Regular
      <4>3. Finished
        BY <1>1 DEF Finished
      <4>4. at[i][j][c.arg1] \in {NAC, prog.init[c.arg1]}
        BY <1>1, <2>2, <3>1, <4>1, <4>2, <4>3, DeclaredKnown
      <4> QED  BY <2>2, <4>4 DEF Vector
    <3>2. handed \subseteq Var
      BY <1>1 DEF Var
    <3>3. True(Transfer(c, vec), env')
      <4> HIDE DEF vec
      <4> QED  BY <1>1, <1>2, <1>3, <1>4, <3>1, <3>2, AfterTrue
    <3> QED  BY <1>6, <2>2, <3>3
  <2> QED  BY <2>1, <2>2
<1>9. taken' \cup handed' \subseteq Addressed
  BY <1>2, <1>3, <1>5 DEF Addressed
<1>10. handed' # {} => PointerHanded
  <2>1. CASE c.op = "arg" /\ c.arg1 \in Pointers
    BY <1>5, <2>1 DEF PointerHanded
  <2>2. CASE Escapes(c) /\ c.op # "arg"
    <3>1. Addressed = {}
      BY <1>5, <2>2 DEF PointerKept, Regular
    <3> QED  BY <1>9, <3>1
  <2>3. CASE ~Escapes(c)
    BY <1>2, <1>3, <2>3
  <2>4. Escapes(c) /\ c.op = "arg" => c.arg1 \in Pointers
    <3>1. "arg" \notin Expr \cup {"lea"}
      BY DEF Expr, Pure, Binary, Arith, Compares
    <3> HIDE DEF c
    <3> QED  BY <3>1 DEF Escapes
  <2> HIDE DEF c
  <2> QED  BY <2>1, <2>2, <2>3, <2>4
<1>11. ASSUME NEW v \in handed'
       PROVE  next[v] = NAC
  <2>1. v \in Var /\ v \in Addressed /\ PointerHanded
    BY <1>1, <1>2, <1>3, <1>9, <1>10 DEF Var
  <2>2. CASE c.op = "arg" /\ c.arg1 \in Pointers
    <3>1. i # 1 /\ Transfer(c, vec) = Lose(vec, Var)
      BY <1>7, <2>2, TransferCases
    <3> HIDE DEF vec, next
    <3> QED  BY <1>4, <1>6, <2>1, <3>1, LoseType
  <2>3. CASE ~(c.op = "arg" /\ c.arg1 \in Pointers)
    <3>1. ~Escapes(c)
      BY <1>5, <2>1, <2>3 DEF Escapes, Expr, Pure, Binary, Arith, Compares, PointerKept, Regular
    <3>2. vec[v] = NAC
      BY <1>2, <1>3, <3>1
    <3>3. Transfer(c, vec)[v] = NAC
      <4> HIDE DEF vec
      <4> QED  BY <1>1, <1>4, <2>1, <3>2, HandedLost
    <3> QED  BY <1>6, <3>2, <3>3
  <2> QED  BY <2>2, <2>3
<1>12. Vector(i, j)' = next
  <2>1. BoundVals' = BoundVals
    BY <1>2, ProgramStands
  <2> QED  BY <1>2, <2>1 DEF Vector
<1>13. Addressed' = Addressed /\ PointerHanded' = PointerHanded
  BY <1>2, ProgramStands
<1>14. True(Vector(i, j), env)' = True(next, env')
  BY <1>12 DEF True, Const
<1> HIDE DEF next, vec, c
<1> QED
  BY <1>8, <1>9, <1>10, <1>11, <1>12, <1>13, <1>14 DEF Follows

LEMMA FollowsEdge ==
    ASSUME IInv, Regular, Follows, WalkEdge
    PROVE  Follows'
<1>1. /\ pc = "walk" /\ prog \in Programs /\ i \in Block /\ j > Len(Code(i))
      /\ j \in 1 .. Len(Code(i)) + 1
      /\ out \in [Block -> [Var -> Lattice]] /\ taken \cup handed \subseteq Local \cup Param
  BY DEF WalkEdge, IInv, Control, TypeOK
<1>2. /\ i' \in {prog.target[i], prog.fall[i]} /\ i' # 0 /\ j' = 1 /\ pc' = "walk"
      /\ UNCHANGED <<prog, out, at, env, taken, handed>>
  BY DEF WalkEdge, analysis, walk
<1>3. i' \in Block \ {1} /\ i \in Prevs(i')
  <2>1. prog.target[i] \in (0 .. N) \ {1} /\ prog.fall[i] \in (0 .. N) \ {1}
    BY <1>1, ProgType
  <2> QED  BY <1>1, <1>2, <2>1, Marks DEF Block, Prevs
<1>4. Finished
  BY <1>1 DEF Finished
<1>5. j = Len(Code(i)) + 1
  <2>1. Len(Code(i)) \in Nat
    BY <1>1, ProgType
  <2> QED  BY <1>1, <2>1
<1>6. out[i] = Vector(i, j)
  BY <1>1, <1>4, <1>5, AllSolved DEF Vector
<1>7. /\ True(out[i], env) /\ taken \cup handed \subseteq Addressed
      /\ handed # {} => PointerHanded
      /\ \A v \in handed : out[i][v] = NAC
  BY <1>1, <1>6 DEF Follows
<1>8. at[i'][1] = JoinAll(out, i')
  BY <1>3, <1>4, AllSolved
<1>9. ASSUME NEW v \in Var
      PROVE  /\ at[i'][1][v] = Undef => out[i][v] = Undef
             /\ Const(at[i'][1][v]) => out[i][v] \in {at[i'][1][v], Undef}
             /\ out[i][v] = NAC => at[i'][1][v] = NAC
  <2>1. at[i'][1][v] = Join(Ends(out, i', v))
    BY <1>1, <1>8, JoinAllType
  <2>2. out[i][v] \in Ends(out, i', v)
    BY <1>3 DEF Ends
  <2> DEFINE set == Ends(out, i', v)
             join == at[i'][1][v]
  <2>3. \/ set \subseteq {Undef} /\ join = Undef
        \/ \E w \in set : w # Undef /\ set \subseteq {w, Undef} /\ join = w
        \/ join = NAC
    BY <2>1, EndsFinite, JoinCases
  <2> HIDE DEF set, join
  <2>4. out[i][v] \in set /\ NAC # Undef
    BY <2>2, Marks DEF set
  <2>5. /\ join = Undef => out[i][v] = Undef
        /\ Const(join) => out[i][v] \in {join, Undef}
        /\ out[i][v] = NAC => join = NAC
    BY <2>3, <2>4 DEF Const
  <2> QED  BY <2>5 DEF join
<1>10. True(at[i'][1], env)
  BY <1>7, <1>9 DEF True, Const
<1>11. \A v \in handed : at[i'][1][v] = NAC
  BY <1>1, <1>7, <1>9 DEF Var
<1>12. Vector(i, j)' = at[i'][1]
  BY <1>2, <1>3 DEF Vector
<1>13. Addressed' = Addressed /\ PointerHanded' = PointerHanded
  BY <1>2, ProgramStands
<1>14. True(Vector(i, j), env)' = True(at[i'][1], env)
  BY <1>2, <1>12 DEF True, Const
<1> QED
  BY <1>2, <1>7, <1>10, <1>11, <1>12, <1>13, <1>14 DEF Follows

LEMMA FollowsNext == IInv /\ (Regular => Follows) /\ [Next]_vars => (Regular => Follows)'
<1> SUFFICES ASSUME IInv, Regular => Follows, [Next]_vars, Regular'
             PROVE  Follows'
  OBVIOUS
<1>1. prog' = prog
  BY DEF Next, vars, EnterBlock, Translate, LeaveBlock, SweepAgain,
         SweepEnd, Simplify, SimplifyNext, Start, WalkInst, WalkEdge
<1>2. Regular /\ Follows
  BY <1>1, ProgramStands
<1>3. CASE EnterBlock \/ Translate \/ LeaveBlock \/ SweepAgain \/ SweepEnd
             \/ Simplify \/ SimplifyNext
  <2>1. pc' # "walk"
    BY <1>3 DEF EnterBlock, Translate, LeaveBlock, SweepAgain, SweepEnd, Simplify, SimplifyNext
  <2> QED  BY <2>1 DEF Follows
<1>4. CASE Start
  <2>1. True(BoundVals, env')
    BY <1>2, <1>4, StartTrue
  <2>2. /\ i' = 1 /\ taken' = {} /\ handed' = {}
    BY <1>4 DEF Start, IInv, Control
  <2>3. BoundVals' = BoundVals
    BY <1>1, ProgramStands
  <2>4. Vector(i, j)' = BoundVals
    BY <2>2, <2>3 DEF Vector
  <2>5. True(Vector(i, j), env)' = True(BoundVals, env')
    BY <2>4 DEF True, Const
  <2> QED  BY <2>1, <2>2, <2>5 DEF Follows
<1>5. CASE WalkInst
  BY <1>2, <1>5, FollowsInst
<1>6. CASE WalkEdge
  BY <1>2, <1>6, FollowsEdge
<1>7. CASE UNCHANGED vars
  <2>1. UNCHANGED <<prog, at, i, j, env, taken, handed, pc>>
    BY <1>7 DEF vars, analysis, walk
  <2>2. Addressed' = Addressed /\ PointerHanded' = PointerHanded /\ BoundVals' = BoundVals
    BY <1>1, ProgramStands
  <2>3. Vector(i, j)' = Vector(i, j)
    BY <2>1, <2>2 DEF Vector
  <2>4. True(Vector(i, j), env)' = True(Vector(i, j), env)
    BY <2>1, <2>3 DEF True, Const
  <2> QED  BY <1>2, <2>1, <2>2, <2>3, <2>4 DEF Follows
<1> QED
  BY <1>3, <1>4, <1>5, <1>6, <1>7 DEF Next

\* ClaimsHold, in a regular function: what analyse says is constant has that
\* value on every execution.
THEOREM ClaimsRight == Spec => [](Regular => ClaimsHold)
<1>1. Init => (Regular => Follows)
  BY DEF Init, Follows
<1>2. (Regular => Follows) => (Regular => ClaimsHold)
  BY DEF Follows, ClaimsHold, True, Vector
<1> QED
  BY <1>1, <1>2, FollowsNext, Invariance, PTL DEF Spec

-----------------------------------------------------------------------------
(* The new instructions do what the original ones do *)

\* What a copy, a negation and a number hold.
LEMMA ResultOfCopy ==
    ASSUME NEW c \in Inst, NEW a \in Operand, env \in [Var -> Int \cup {Undef}]
    PROVE  Result(New(c, "as", a, None)) = Holds(a)
<1> DEFINE d == New(c, "as", a, None)
<1>1. "as" \in Op /\ "as" \notin Binary
  BY DEF Op, Expr, Pure, Binary, Arith, Compares
<1>2. d.op = "as" /\ d.arg1 = a
  BY <1>1, NewType
<1> HIDE DEF d
<1>3. Result(d) = IF Holds(a) = Undef THEN Undef ELSE Fold("as", Holds(a), Holds(a))
  BY <1>1, <1>2 DEF Result
<1>4. \A n : Fold("as", n, n) = n
  BY DEF Fold
<1> QED
  BY <1>3, <1>4 DEF d

LEMMA ResultOfNegation ==
    ASSUME NEW c \in Inst, NEW a \in Operand, env \in [Var -> Int \cup {Undef}]
    PROVE  Result(New(c, "neg", a, None)) = IF Holds(a) = Undef THEN Undef ELSE -Holds(a)
<1> DEFINE d == New(c, "neg", a, None)
<1>1. "neg" \in Op /\ "neg" \notin Binary
  BY DEF Op, Expr, Pure, Binary, Arith, Compares
<1>2. d.op = "neg" /\ d.arg1 = a
  BY <1>1, NewType
<1> HIDE DEF d
<1>3. Result(d) = IF Holds(a) = Undef THEN Undef ELSE Fold("neg", Holds(a), Holds(a))
  BY <1>1, <1>2 DEF Result
<1>4. \A n : Fold("neg", n, n) = -n
  BY DEF Fold
<1> QED
  BY <1>3, <1>4 DEF d

LEMMA HoldsNumber ==
    ASSUME NEW n \in Int
    PROVE  Holds(n) = n /\ n \in Operand
BY Marks DEF Holds, Operand

\* A number divided by 1.
LEMMA QuotOne ==
    ASSUME NEW l \in Int
    PROVE  Quot(l, 1) = l
<1>1. Sign(1) = 1 /\ Abs(1) = 1
  BY DEF Sign, Abs
<1>2. \A m \in Int : m \div 1 = m
  OBVIOUS
<1>3. Quot(l, 1) = Sign(l) * Abs(l)
  <2>1. Abs(l) \in Int /\ Sign(l) \in Int
    BY DEF Sign, Abs
  <2>2. Abs(l) \div 1 = Abs(l)
    BY <1>2, <2>1
  <2>3. Sign(l) * 1 = Sign(l)
    BY <2>1
  <2> QED  BY <1>1, <2>2, <2>3 DEF Quot
<1>4. Sign(l) * Abs(l) = l
  BY DEF Sign, Abs
<1> QED
  BY <1>3, <1>4

\* What Identity makes, but for SymTab::zero, computes the same.
LEMMA IdentityAgrees ==
    ASSUME env \in [Var -> Int \cup {Undef}], NEW c \in Inst, c.op \in Binary,
           c.arg1 \in Operand, c.arg2 \in Operand,
           NEW n \in Int, NEW o, NEW left \in BOOLEAN, ~ByZero(c, n, left),
           left  => o = c.arg2 /\ Holds(c.arg1) \in {n, Undef},
           ~left => o = c.arg1 /\ Holds(c.arg2) \in {n, Undef}
    PROVE  /\ Identity(c, n, o, left).op \in Pure
           /\ Identity(c, n, o, left).res = c.res
           /\ Result(c) \in {Result(Identity(c, n, o, left)), Undef}
<1> DEFINE d == Identity(c, n, o, left)
           x == Holds(c.arg1)
           y == Holds(c.arg2)
           h == Holds(o)
           same == IF left THEN [c EXCEPT !.arg1 = n] ELSE [c EXCEPT !.arg2 = n]
<1>1. /\ x \in Int \cup {Undef} /\ y \in Int \cup {Undef} /\ o \in Operand
      /\ left  => h = y /\ x \in {n, Undef}
      /\ ~left => h = x /\ y \in {n, Undef}
  BY HoldsType
<1>2. Result(c) = IF Undef \in {x, y} \/ (c.op \in {"div", "mod"} /\ y = 0)
                  THEN Undef ELSE Fold(c.op, x, y)
  BY DEF Result
<1>3. /\ \A a \in Operand : LET e == New(c, "as", a, None) IN
            e.op \in Pure /\ e.res = c.res /\ Result(e) = Holds(a)
      /\ LET e == New(c, "neg", o, None) IN
            /\ e.op \in Pure /\ e.res = c.res
            /\ Result(e) = IF h = Undef THEN Undef ELSE -h
  <2>1. {"as", "neg"} \subseteq Pure /\ {"as", "neg"} \subseteq Op
    BY DEF Pure, Op, Expr
  <2>2. ASSUME NEW a \in Operand
        PROVE  LET e == New(c, "as", a, None) IN
                  e.op \in Pure /\ e.res = c.res /\ Result(e) = Holds(a)
    <3>1. New(c, "as", a, None).op = "as" /\ New(c, "as", a, None).res = c.res
      BY SMTT(30), <2>1, NewType
    <3>2. Result(New(c, "as", a, None)) = Holds(a)
      BY ResultOfCopy
    <3> QED  BY <2>1, <3>1, <3>2
  <2>3. New(c, "neg", o, None).op = "neg" /\ New(c, "neg", o, None).res = c.res
    BY <1>1, <2>1, NewType
  <2>4. Result(New(c, "neg", o, None)) = IF h = Undef THEN Undef ELSE -h
    BY <1>1, ResultOfNegation
  <2> QED  BY <2>1, <2>2, <2>3, <2>4
<1>4. 0 \in Operand /\ Holds(0) = 0 /\ One \in Operand /\ Holds(One) = 1 /\ Holds(n) = n
  BY HoldsNumber DEF One
<1>5. /\ same.op = c.op /\ same.res = c.res /\ c.op \in Pure
      /\ left  => same.arg1 = n /\ same.arg2 = c.arg2
      /\ ~left => same.arg1 = c.arg1 /\ same.arg2 = n
  <2>1. left => same = [c EXCEPT !.arg1 = n]
    OBVIOUS
  <2>2. ~left => same = [c EXCEPT !.arg2 = n]
    OBVIOUS
  <2>3. LET e == [c EXCEPT !.arg1 = n] IN
           e.op = c.op /\ e.res = c.res /\ e.arg1 = n /\ e.arg2 = c.arg2
    BY DEF Inst
  <2>4. LET e == [c EXCEPT !.arg2 = n] IN
           e.op = c.op /\ e.res = c.res /\ e.arg1 = c.arg1 /\ e.arg2 = n
    BY DEF Inst
  <2>5. c.op \in Pure
    BY DEF Pure
  <2> HIDE DEF same
  <2> QED  BY <2>1, <2>2, <2>3, <2>4, <2>5
<1>6. d \in {New(c, "as", a, None) : a \in {o, 0, One}} \cup {New(c, "neg", o, None), same}
         => d.op \in Pure /\ d.res = c.res
  <2> HIDE DEF d, same
  <2> QED  BY <1>1, <1>3, <1>4, <1>5
<1>7. d = same => Result(c) \in {Result(d), Undef}
  <2>1. ASSUME x # Undef, y # Undef PROVE Result(same) = Result(c)
    <3>1. /\ left => x = n
          /\ ~left => y = n
      BY <1>1, <2>1
    <3>2. Holds(same.arg1) = x /\ Holds(same.arg2) = y
      BY <1>4, <1>5, <3>1
    <3> HIDE DEF same
    <3> QED  BY <1>5, <3>2 DEF Result
  <2>2. ASSUME x = Undef \/ y = Undef PROVE Result(c) = Undef
    BY <1>2, <2>2
  <2> QED  BY <2>1, <2>2
<1> DEFINE copy == New(c, "as", o, None)
           nought == New(c, "as", 0, None)
           unit == New(c, "as", One, None)
           minus == New(c, "neg", o, None)
<1>8. /\ copy.op \in Pure /\ copy.res = c.res /\ Result(copy) = h
      /\ nought.op \in Pure /\ nought.res = c.res /\ Result(nought) = 0
      /\ unit.op \in Pure /\ unit.res = c.res /\ Result(unit) = 1
      /\ minus.op \in Pure /\ minus.res = c.res
      /\ Result(minus) = IF h = Undef THEN Undef ELSE -h
  BY <1>1, <1>3, <1>4
<1>9. /\ c.op = "add" /\ n = 0 => d = copy
      /\ c.op = "sub" /\ n = 0 => d = IF left THEN minus ELSE copy
      /\ c.op = "mul" /\ n = 0 => d = nought
      /\ c.op = "mul" /\ n = 1 => d = copy
      /\ c.op = "div" /\ ~left /\ n = 1 => d = copy
      /\ c.op = "or" /\ n # 0 => d = unit
      /\ /\ ~(c.op \in {"add", "sub", "mul"} /\ n = 0)
         /\ ~(c.op = "mul" /\ n = 1) /\ ~(c.op = "div" /\ ~left /\ n = 1)
         /\ c.op # "or"
         => d = same
  BY DEF Identity, ByZero
<1>10. ASSUME x # Undef, y # Undef
       PROVE  /\ c.op = "add" => Result(c) = x + y
              /\ c.op = "sub" => Result(c) = x - y
              /\ c.op = "mul" => Result(c) = x * y
              /\ c.op = "div" /\ y = 1 => Result(c) = x
              /\ c.op = "or" /\ (x # 0 \/ y # 0) => Result(c) = 1
  <2>1. x \in Int /\ y \in Int
    BY <1>1, <1>10
  <2>2. CASE c.op \in {"add", "sub", "mul"}
    BY <1>2, <1>10, <2>2 DEF Fold
  <2>3. CASE c.op = "div"
    <3>1. y = 1 => Result(c) = Quot(x, 1)
      BY <1>2, <1>10, <2>3 DEF Fold
    <3> QED  BY <2>1, <2>3, <3>1, QuotOne
  <2>4. CASE c.op = "or"
    <3>1. Result(c) = Bit(x # 0 \/ y # 0)
      BY <1>2, <1>10, <2>4 DEF Fold
    <3> QED  BY <2>4, <3>1 DEF Bit
  <2> QED  BY <2>2, <2>3, <2>4
<1>11. x = Undef \/ y = Undef => Result(c) = Undef
  BY <1>2
<1>12. ~(c.op = "or" /\ n = 0)
  BY DEF ByZero
<1> HIDE DEF d, x, y, h, same, copy, nought, unit, minus
<1> SUFFICES d.op \in Pure /\ d.res = c.res /\ Result(c) \in {Result(d), Undef}
  BY DEF d
<1>13. CASE d = same
  BY <1>5, <1>7, <1>13
<1>14. CASE c.op = "add" /\ n = 0
  <2>1. ASSUME x # Undef, y # Undef PROVE Result(c) = h
    BY <1>1, <1>10, <1>14, <2>1
  <2> QED  BY <1>8, <1>9, <1>11, <1>14, <2>1
<1>15. CASE c.op = "sub" /\ n = 0
  <2>1. ASSUME x # Undef, y # Undef PROVE Result(c) = IF left THEN -h ELSE h
    BY <1>1, <1>10, <1>15, <2>1
  <2>2. x # Undef /\ y # Undef => h # Undef
    BY <1>1
  <2> QED  BY <1>8, <1>9, <1>11, <1>15, <2>1, <2>2
<1>16. CASE c.op = "mul" /\ n = 0
  <2>1. ASSUME x # Undef, y # Undef PROVE Result(c) = 0
    BY <1>1, <1>10, <1>16, <2>1
  <2> QED  BY <1>8, <1>9, <1>11, <1>16, <2>1
<1>17. CASE c.op = "mul" /\ n = 1
  <2>1. ASSUME x # Undef, y # Undef PROVE Result(c) = h
    BY <1>1, <1>10, <1>17, <2>1
  <2> QED  BY <1>8, <1>9, <1>11, <1>17, <2>1
<1>18. CASE c.op = "div" /\ ~left /\ n = 1
  <2>1. ASSUME x # Undef, y # Undef PROVE Result(c) = h
    BY <1>1, <1>10, <1>18, <2>1
  <2> QED  BY <1>8, <1>9, <1>11, <1>18, <2>1
<1>19. CASE c.op = "or" /\ n # 0
  <2>1. ASSUME x # Undef, y # Undef PROVE Result(c) = 1
    BY <1>1, <1>10, <1>19, <2>1
  <2> QED  BY <1>8, <1>9, <1>11, <1>19, <2>1
<1> QED
  BY <1>9, <1>12, <1>13, <1>14, <1>15, <1>16, <1>17, <1>18, <1>19

\* Only a jump chooses where to go.
LEMMA WaysOn ==
    ASSUME NEW c, c.op \notin Jump
    PROVE  Ways(c) = {"on"}
BY DEF Ways, Jump

WithArg1(c, a) == [c EXCEPT !.arg1 = a]
OfLeft(c, n) == Identity(c, n, c.arg2, TRUE)
OfRight(c, n) == Identity(c, n, c.arg1, FALSE)

\* What simplification and condJmpOpt make of the operators.
LEMMA NewCodeCases ==
    ASSUME NEW c \in Inst, NEW in, NEW after,
           NEW d, d = Decided(Simplified(c, in, after), in),
           NEW l, l = Known(c.arg1, in), NEW r, r = Known(c.arg2, in)
    PROVE  /\ c.op \in Expr /\ Const(after[c.res]) => d = New(c, "as", after[c.res], None)
           /\ c.op \in Binary /\ ~Const(after[c.res]) =>
                 /\ Const(l) => d = Decided(OfLeft(c, l), in)
                 /\ ~Const(l) /\ Const(r) => d = Decided(OfRight(c, r), in)
                 /\ ~Const(l) /\ ~Const(r) => d = c
           /\ c.op \in Expr \ Binary /\ ~Const(after[c.res]) => d = c
           /\ c.op \in {"arg", "retv"} =>
                 d = IF c.arg1 \in Var /\ Const(after[c.arg1])
                     THEN WithArg1(c, after[c.arg1]) ELSE c
           /\ c.op \notin Expr \cup {"arg", "retv"} => d = Decided(c, in)
<1> DEFINE s == Simplified(c, in, after)
<1>1. {"arg", "retv", "jt", "jf"} \cap Expr = {} /\ Binary \subseteq Expr
  BY DEF Expr, Pure, Binary, Arith, Compares
<1>2. \A e : e.op \notin {"jt", "jf"} => Decided(e, in) = e
  BY DEF Decided
<1>3. ASSUME c.op \in Expr, Const(after[c.res])
      PROVE  Decided(s, in) = New(c, "as", after[c.res], None)
  <2>1. c.op \notin {"arg", "retv"}
    BY <1>1, <1>3
  <2>2. s = New(c, "as", after[c.res], None)
    BY <1>3, <2>1 DEF Simplified
  <2>3. New(c, "as", after[c.res], None).op = "as"
    BY DEF New, Inst
  <2> QED  BY <1>2, <2>2, <2>3
<1>4. ASSUME c.op \in Binary, ~Const(after[c.res])
      PROVE  s = CASE Const(l) -> OfLeft(c, l)
                   [] ~Const(l) /\ Const(r) -> OfRight(c, r)
                   [] OTHER -> c
  <2>1. c.op \notin {"arg", "retv"}
    BY <1>1, <1>4
  <2> QED  BY <1>4, <2>1 DEF Simplified, OfLeft, OfRight
<1>5. c.op \in Expr => c.op \notin {"jt", "jf"} /\ c.op \notin {"arg", "retv"}
  BY <1>1
<1>6. ASSUME c.op \in Expr \ Binary, ~Const(after[c.res])
      PROVE  s = c
  BY <1>5, <1>6 DEF Simplified
<1>7. ASSUME c.op \in {"arg", "retv"}
      PROVE  s = IF c.arg1 \in Var /\ Const(after[c.arg1])
                 THEN WithArg1(c, after[c.arg1]) ELSE c
  <2>1. c.op \notin Expr /\ c.op \notin Binary
    BY <1>1, <1>7
  <2> QED  BY <1>7, <2>1 DEF Simplified, WithArg1
<1>8. WithArg1(c, after[c.arg1]).op = c.op
  BY DEF Inst, WithArg1
<1>9. ASSUME c.op \notin Expr \cup {"arg", "retv"}
      PROVE  s = c
  BY <1>1, <1>9 DEF Simplified
<1> HIDE DEF s
<1>10. /\ Const(l) /\ c.op \in Binary /\ ~Const(after[c.res]) => s = OfLeft(c, l)
       /\ ~Const(l) /\ Const(r) /\ c.op \in Binary /\ ~Const(after[c.res]) =>
             s = OfRight(c, r)
       /\ ~Const(l) /\ ~Const(r) /\ c.op \in Binary /\ ~Const(after[c.res]) => s = c
  BY <1>4
<1>11. c.op \in Binary => Decided(c, in) = c
  BY <1>1, <1>2, <1>5
<1>12. c.op \in Expr \ Binary /\ ~Const(after[c.res]) => Decided(s, in) = c
  BY <1>2, <1>5, <1>6
<1>13. c.op \in {"arg", "retv"} =>
          Decided(s, in) = IF c.arg1 \in Var /\ Const(after[c.arg1])
                           THEN WithArg1(c, after[c.arg1]) ELSE c
  BY <1>2, <1>7, <1>8
<1>14. c.op \notin Expr \cup {"arg", "retv"} => Decided(s, in) = Decided(c, in)
  BY <1>9
<1> QED
  BY <1>3, <1>10, <1>11, <1>12, <1>13, <1>14 DEF s

\* At the instruction the walk is at, SymTab::zero is put into the code.
AtZero ==
    pc = "walk" /\ j <= Len(Code(i)) /\ UsesZero(Code(i)[j], at[i][j], at[i][j + 1])

\* A new instruction agrees with the old one if it does so as an expression,
\* as an operand that is passed on, and as a jump.
LEMMA NewCodeAgrees ==
    ASSUME env \in [Var -> Int \cup {Undef}], NEW c, c \in Inst,
           c.op \in Expr => c.res \in Var,
           c.op \in Pure => c.arg1 \in Operand, c.op \in Binary => c.arg2 \in Operand,
           NEW in, in \in [Var -> Lattice], True(in, env),
           ~UsesZero(c, in, Transfer(c, in)), Transfer(c, in) \in [Var -> Lattice]
    PROVE  LET d == Decided(Simplified(c, in, Transfer(c, in)), in) IN
           /\ c.op \in Pure => d.res = c.res /\ Result(c) \in {Result(d), Undef}
           /\ c.op \in {"arg", "retv"} => Holds(c.arg1) \in {Holds(d.arg1), Undef}
           /\ Ways(d) \subseteq Ways(c)
<1> DEFINE after == Transfer(c, in)
           d == Decided(Simplified(c, in, after), in)
           l == Known(c.arg1, in)
           r == Known(c.arg2, in)
<1>1. /\ Expr \cap Jump = {} /\ {"arg", "retv"} \cap (Expr \cup Jump) = {} /\ Binary \subseteq Pure
      /\ Pure \subseteq Expr
  BY DEF Expr, Pure, Binary, Arith, Compares, Jump
<1>2. /\ c.op \in Expr /\ Const(after[c.res]) => d = New(c, "as", after[c.res], None)
      /\ c.op \in Binary /\ ~Const(after[c.res]) =>
            /\ Const(l) => d = Decided(OfLeft(c, l), in)
            /\ ~Const(l) /\ Const(r) => d = Decided(OfRight(c, r), in)
            /\ ~Const(l) /\ ~Const(r) => d = c
      /\ c.op \in Expr \ Binary /\ ~Const(after[c.res]) => d = c
      /\ c.op \in {"arg", "retv"} =>
            d = IF c.arg1 \in Var /\ Const(after[c.arg1])
                THEN WithArg1(c, after[c.arg1]) ELSE c
      /\ c.op \notin Expr \cup {"arg", "retv"} => d = Decided(c, in)
  <2> HIDE DEF after
  <2>1. d = Decided(Simplified(c, in, after), in) /\ l = Known(c.arg1, in)
        /\ r = Known(c.arg2, in)
    OBVIOUS
  <2> HIDE DEF d, l, r
  <2> QED  BY <2>1, NewCodeCases
<1> DEFINE goal == /\ c.op \in Pure => d.res = c.res /\ Result(c) \in {Result(d), Undef}
                   /\ c.op \in {"arg", "retv"} => Holds(c.arg1) \in {Holds(d.arg1), Undef}
                   /\ Ways(d) \subseteq Ways(c)
<1>3. c.op \in Expr => c.op \notin {"arg", "retv"} /\ Ways(c) = {"on"}
  BY <1>1, WaysOn
<1>4. \A e : e.op \notin {"jt", "jf"} => Decided(e, in) = e
  BY DEF Decided
<1>5. \A e : e.op \in Pure => Decided(e, in) = e /\ Ways(e) = {"on"}
  <2>1. ASSUME NEW e, e.op \in Pure PROVE e.op \notin Jump /\ e.op \notin {"jt", "jf"}
    BY <1>1, <2>1 DEF Jump
  <2> QED  BY <1>4, <2>1, WaysOn
<1> SUFFICES goal
  OBVIOUS
<1>6. CASE d = c
  BY <1>6
<1> HIDE DEF d, goal
<1>7. CASE c.op \in Expr /\ Const(after[c.res])
  <2> DEFINE value == after[c.res]
  <2>1. d = New(c, "as", value, None)
    BY <1>2, <1>7
  <2>2. value \in Int /\ value \in Operand /\ Holds(value) = value
    <3>1. value \in Lattice
      BY <1>7
    <3> QED  BY <1>7, <3>1, ConstIsInt, HoldsNumber
  <2>3. d.op = "as" /\ d.res = c.res /\ Result(d) = value
    <3>1. "as" \in Op /\ None \in Operand \cup {None}
      BY DEF Op, Expr, Pure
    <3> HIDE DEF value
    <3>2. New(c, "as", value, None).op = "as" /\ New(c, "as", value, None).res = c.res
      <4>1. value \in Operand
        BY <2>2
      <4> QED  BY <3>1, <4>1, NewType
    <3>3. Result(New(c, "as", value, None)) = Holds(value)
      BY <2>2, ResultOfCopy
    <3> QED  BY <2>1, <2>2, <3>2, <3>3
  <2>4. ASSUME c.op \in Pure
        PROVE  Result(c) \in {value, Undef}
    <3>1. after = [in EXCEPT ![c.res] = Value(c, in)]
      BY <1>7, TransferCases
    <3>2. value = Value(c, in)
      BY <1>7, <3>1
    <3> QED  BY <1>7, <2>4, <3>2, ResultTrue
  <2>5. Ways(d) = {"on"}
    BY <1>5, <2>3 DEF Pure
  <2> HIDE DEF value
  <2> QED  BY <1>3, <1>7, <2>3, <2>4, <2>5 DEF goal
<1>8. CASE c.op \in Binary /\ ~Const(after[c.res])
  <2>1. /\ c.arg1 \in Operand /\ c.arg2 \in Operand
        /\ l \in Lattice /\ r \in Lattice
        /\ Const(l) => Holds(c.arg1) \in {l, Undef}
        /\ Const(r) => Holds(c.arg2) \in {r, Undef}
    BY <1>1, <1>8, KnownType, HoldsTrue
  <2>2. /\ Const(l) => ~ByZero(c, l, TRUE)
        /\ ~Const(l) /\ Const(r) => ~ByZero(c, r, FALSE)
    BY <1>8 DEF UsesZero
  <2> HIDE DEF l, r, after
  <2>3. ASSUME NEW e, d = Decided(e, in), e.op \in Pure, e.res = c.res,
               Result(c) \in {Result(e), Undef}
        PROVE  goal
    <3>1. d = e /\ Ways(d) = {"on"}
      BY <1>5, <2>3
    <3> QED  BY <1>1, <1>3, <1>8, <2>3, <3>1 DEF goal
  <2>4. CASE Const(l)
    <3>1. l \in Int
      BY <2>1, <2>4, ConstIsInt
    <3> DEFINE e == OfLeft(c, l)
    <3>2. e.op \in Pure /\ e.res = c.res /\ Result(c) \in {Result(e), Undef}
      BY <1>8, <2>1, <2>2, <2>4, <3>1, IdentityAgrees DEF OfLeft
    <3>3. d = Decided(e, in)
      BY <1>2, <1>8, <2>4
    <3> HIDE DEF e
    <3> QED  BY <2>3, <3>2, <3>3
  <2>5. CASE ~Const(l) /\ Const(r)
    <3>1. r \in Int
      BY <2>1, <2>5, ConstIsInt
    <3> DEFINE e == OfRight(c, r)
    <3>2. e.op \in Pure /\ e.res = c.res /\ Result(c) \in {Result(e), Undef}
      BY <1>8, <2>1, <2>2, <2>5, <3>1, IdentityAgrees DEF OfRight
    <3>3. d = Decided(e, in)
      BY <1>2, <1>8, <2>5
    <3> HIDE DEF e
    <3> QED  BY <2>3, <3>2, <3>3
  <2>6. CASE ~Const(l) /\ ~Const(r)
    BY <1>2, <1>6, <1>8, <2>6
  <2> QED  BY <2>4, <2>5, <2>6
<1>9. CASE c.op \in {"arg", "retv"}
  <2>1. c.op \notin Expr /\ c.op \notin Jump /\ c.op \notin Pure
    BY <1>1, <1>9
  <2>2. CASE c.arg1 \in Var /\ Const(after[c.arg1])
    <3> DEFINE value == after[c.arg1]
    <3>1. d = WithArg1(c, value)
      BY <1>2, <1>9, <2>2
    <3>2. d.op = c.op /\ d.arg1 = value
      BY <3>1 DEF Inst, WithArg1
    <3>3. value \in Int
      <4>1. value \in Lattice
        BY <2>2
      <4> QED  BY <2>2, <4>1, ConstIsInt
    <3>4. value \in {in[c.arg1], NAC}
      BY <2>1, <2>2, TransferAt
    <3>5. value = in[c.arg1]
      BY <3>3, <3>4, Marks
    <3>6. Holds(c.arg1) \in {value, Undef}
      BY <2>2, <3>5 DEF Holds, True
    <3>7. Holds(d.arg1) = value
      BY <3>2, <3>3, HoldsNumber
    <3>8. Ways(d) = {"on"} /\ Ways(c) = {"on"}
      BY <2>1, <3>2, WaysOn
    <3> HIDE DEF value
    <3> QED  BY <2>1, <3>6, <3>7, <3>8 DEF goal
  <2>3. CASE ~(c.arg1 \in Var /\ Const(after[c.arg1]))
    BY <1>2, <1>6, <1>9, <2>3
  <2> QED  BY <2>2, <2>3
<1>10. CASE c.op \notin Expr \cup {"arg", "retv"}
  <2>1. d = Decided(c, in) /\ c.op \notin Pure
    BY <1>1, <1>2, <1>10
  <2>2. CASE c.op \in {"jt", "jf"} /\ Const(l)
    <3>1. Holds(c.arg1) \in {l, Undef}
      <4>1. CASE c.arg1 \in Operand
        BY <2>2, <4>1, HoldsTrue
      <4>2. CASE c.arg1 \notin Operand
        BY <4>2 DEF Holds, Known, Operand
      <4> QED  BY <4>1, <4>2
    <3>2. l # Undef
      BY <2>2 DEF Const
    <3>3. /\ {"jmp", "other"} \subseteq Op /\ None \in Operand \cup {None}
      BY DEF Op, Jump
    <3>4. CASE (c.op = "jt") = (l # 0)
      <4>1. d = New(c, "jmp", None, None)
        BY <2>1, <2>2, <3>4 DEF Decided
      <4>2. d.op = "jmp"
        BY <3>3, <4>1, NewType
      <4>3. Ways(d) = {"target"}
        BY <4>2 DEF Ways
      <4>4. "target" \in Ways(c)
        <5>1. CASE Holds(c.arg1) = Undef
          BY <2>2, <5>1 DEF Ways
        <5>2. CASE Holds(c.arg1) = l /\ Undef # 0
          BY <2>2, <3>2, <3>4, <5>2 DEF Ways
        <5> QED  BY <3>1, <5>1, <5>2, Marks
      <4> QED  BY <1>10, <2>1, <4>3, <4>4 DEF goal
    <3>5. CASE (c.op = "jt") # (l # 0)
      <4>1. d = New(c, "other", None, None)
        BY <2>1, <2>2, <3>5 DEF Decided
      <4>2. d.op = "other"
        BY <3>3, <4>1, NewType
      <4>3. Ways(d) = {"on"}
        BY <4>2 DEF Ways
      <4>4. "on" \in Ways(c)
        <5>1. CASE Holds(c.arg1) = Undef
          BY <2>2, <5>1 DEF Ways
        <5>2. CASE Holds(c.arg1) = l /\ Undef # 0
          BY <2>2, <3>2, <3>5, <5>2 DEF Ways
        <5> QED  BY <3>1, <5>1, <5>2, Marks
      <4> QED  BY <1>10, <2>1, <4>3, <4>4 DEF goal
    <3> QED  BY <3>4, <3>5
  <2>3. CASE ~(c.op \in {"jt", "jf"} /\ Const(l))
    <3>1. d = c
      BY <2>1, <2>3 DEF Decided
    <3> QED  BY <1>6, <3>1
  <2> QED  BY <2>2, <2>3
<1>11. CASE c.op \in Expr \ Binary /\ ~Const(after[c.res])
  BY <1>2, <1>6, <1>11
<1> QED
  BY <1>1, <1>7, <1>8, <1>9, <1>10, <1>11

LEMMA WalkAgrees == IInv /\ Follows /\ ~AtZero => SimplifiedAgrees
<1> SUFFICES ASSUME IInv, Follows, ~AtZero, pc = "walk", j <= Len(Code(i))
             PROVE  LET c == Code(i)[j]
                        d == inst[i][j]
                    IN  /\ c.op \in Pure => d.res = c.res /\ Result(c) \in {Result(d), Undef}
                        /\ c.op \in {"arg", "retv"} => Holds(c.arg1) \in {Holds(d.arg1), Undef}
                        /\ Ways(d) \subseteq Ways(c)
  BY DEF SimplifiedAgrees
<1>1. /\ prog \in Programs /\ i \in Block /\ j \in 1 .. Len(Code(i))
      /\ env \in [Var -> Int \cup {Undef}] /\ Finished
      /\ j \in 1 .. Len(Code(i)) + 1 /\ j + 1 \in 1 .. Len(Code(i)) + 1
  <2>1. /\ prog \in Programs /\ i \in Block /\ j \in 1 .. Len(Code(i)) + 1
        /\ env \in [Var -> Int \cup {Undef}] /\ Finished
    BY DEF IInv, Control, TypeOK, Finished
  <2>2. Len(Code(i)) \in Nat
    BY <2>1, ProgType
  <2> QED  BY <2>1, <2>2
<1>2. CASE i = 1
  <2>1. inst[i][j] = Code(i)[j]
    BY <1>2 DEF IInv, Replaced
  <2> QED  BY <2>1
<1>3. CASE i # 1
  <2>1. inst[i][j] = NewCode(i, j)
    BY <1>1, <1>3 DEF IInv, Replaced, Passed
  <2>2. at[i][j + 1] = Transfer(Code(i)[j], at[i][j])
    BY <1>1, <1>3, AllSolved
  <2> DEFINE c == Code(i)[j]
             in == at[i][j]
  <2>3. True(in, env)
    BY <1>3 DEF Follows, Vector
  <2>4. in \in [Var -> Lattice] /\ Transfer(c, in) \in [Var -> Lattice]
    <3>1. in \in [Var -> Lattice]
      BY <1>1 DEF IInv, TypeOK
    <3> QED  BY <1>1, <3>1, TransferType
  <2>5. ~UsesZero(c, in, Transfer(c, in))
    BY <2>2 DEF AtZero
  <2>6. /\ c \in Inst /\ (c.op \in Expr => c.res \in Var)
        /\ (c.op \in Pure => c.arg1 \in Operand) /\ (c.op \in Binary => c.arg2 \in Operand)
    BY <1>1, InstType
  <2>7. inst[i][j] = Decided(Simplified(c, in, Transfer(c, in)), in)
    BY <2>1, <2>2 DEF NewCode
  <2> HIDE DEF c, in
  <2>8. LET d == Decided(Simplified(c, in, Transfer(c, in)), in) IN
        /\ c.op \in Pure => d.res = c.res /\ Result(c) \in {Result(d), Undef}
        /\ c.op \in {"arg", "retv"} => Holds(c.arg1) \in {Holds(d.arg1), Undef}
        /\ Ways(d) \subseteq Ways(c)
    BY <1>1, <2>3, <2>4, <2>5, <2>6, NewCodeAgrees
  <2> QED  BY <2>7, <2>8 DEF c
<1> QED
  BY <1>2, <1>3

\* SimplifiedAgrees, in a regular function and but for SymTab::zero: whatever
\* it makes of an instruction, algebraSimplify and condJmpOpt leave its value,
\* the operand it passes on and the way it takes as they were.
THEOREM SimplifiedRight == Spec => [](Regular /\ ~AtZero => SimplifiedAgrees)
<1>1. Init => (Regular => Follows)
  BY DEF Init, Follows
<1>2. IInv /\ (Regular => Follows) => (Regular /\ ~AtZero => SimplifiedAgrees)
  BY WalkAgrees
<1> QED
  BY <1>1, <1>2, FollowsNext, Invariance, PTL DEF Spec
=============================================================================
