-------------------------- MODULE Toolchain_proofs --------------------------
(***************************************************************************)
(* Proofs about the assembler and the linker.                              *)
(***************************************************************************)
EXTENDS Toolchain, WellFoundedInduction, FiniteSetTheorems, SequenceTheorems, TLAPS

-----------------------------------------------------------------------------
(* Induction over the natural numbers, with a set in place of a predicate. *)

Less == {p \in Nat \X Nat : p[1] < p[2]}

THEOREM Induction ==
    ASSUME NEW S \in SUBSET Nat, 0 \in S, \A n \in S : n + 1 \in S
    PROVE  S = Nat
<1>1. SUFFICES ASSUME Nat \ S # {}  PROVE FALSE
  OBVIOUS
<1>2. IsWellFoundedOn(Less, Nat)
  BY NatLessThanWellFounded DEF OpToRel, Less
<1>3. PICK x \in Nat \ S : \A y \in Nat \ S : ~ (<< y, x >> \in Less)
  <2>1. Nat \ S \subseteq Nat
    OBVIOUS
  <2> QED  BY <1>1, <1>2, <2>1, WFMin
<1>4. x # 0 /\ x - 1 \in Nat /\ x - 1 < x /\ x - 1 + 1 = x
  BY <1>3
<1>5. x - 1 \in S
  BY <1>3, <1>4 DEF Less
<1> QED
  BY <1>3, <1>4, <1>5

-----------------------------------------------------------------------------
(* Folds. FoldLeft takes the elements of 1 .. n away from the last to the   *)
(* first; every fold of the model is one of the steps of FoldStep.          *)

\* The greatest of the first k numbers, and what is left without it.
LEMMA MaxUpTo ==
    ASSUME NEW k \in Nat, k # 0
    PROVE  Max(1 .. k) = k /\ (1 .. k) \ {k} = 1 .. (k - 1)
<1>1. k \in 1 .. k /\ \A y \in 1 .. k : k >= y
  OBVIOUS
<1>2. \A x \in 1 .. k : (\A y \in 1 .. k : x >= y) => x = k
  OBVIOUS
<1>3. Max(1 .. k) = k
  BY <1>1, <1>2 DEF Max
<1> QED
  BY <1>3

\* SegList::allocAddr, one file: env is the section and its address.
PlaceStep(name, addr, s, elf) ==
    LET at == Aligned(s.size, DISC_ALIGN)
    IN  [s EXCEPT !.blocks = IF name = ".bss" THEN @
                             ELSE Append(@, [off |-> at, data |-> GetData(elf, name)]),
                  !.addrs = Append(@, addr + at),
                  !.size = at + Sh(elf, name).size]

FoldStep(kind, env, v, x) ==
    CASE kind = "sum" -> v + x
      [] kind = "place" -> PlaceStep(env[1], env[2], v, x)
      [] kind = "parse" -> Operand(v, x, env)
      [] kind = "value" -> Value(v, x)
      [] kind = "join" -> v \o Fill(x.off - Len(v), 144) \o x.data
      [] kind = "file" -> v \o Fill(env[x].offset - env[x].begin, 0) \o Joined(env[x])
      [] OTHER -> v

IsFold(g, kind, env, base, n, f) ==
    g = [s \in SUBSET (1 .. n) |->
            IF s = {} THEN base ELSE FoldStep(kind, env, g[s \ {Max(s)}], f[Max(s)])]

\* A set of numbers up to n + 1 either has no n + 1, or it is the greatest.
LEMMA MaxOrNot ==
    ASSUME NEW n \in Nat, NEW s \in SUBSET (1 .. n + 1)
    PROVE  IF n + 1 \in s THEN Max(s) = n + 1 /\ s \ {n + 1} \in SUBSET (1 .. n)
           ELSE s \in SUBSET (1 .. n)
<1>1. CASE n + 1 \in s
  <2>1. n + 1 \in s /\ \A y \in s : n + 1 >= y
    BY <1>1
  <2>2. \A x \in s : (\A y \in s : x >= y) => x = n + 1
    BY <1>1
  <2>3. Max(s) = n + 1
    BY <2>1, <2>2 DEF Max
  <2> QED  BY <1>1, <2>3
<1>2. CASE n + 1 \notin s
  BY <1>2
<1> QED
  BY <1>1, <1>2

LEMMA FoldExists ==
    ASSUME NEW kind, NEW env, NEW base, NEW f, NEW n \in Nat
    PROVE  \E g : IsFold(g, kind, env, base, n, f)
<1> DEFINE Solves(g, k) == g = [s \in SUBSET (1 .. k) |->
                                   IF s = {} THEN base
                                   ELSE FoldStep(kind, env, g[s \ {Max(s)}], f[Max(s)])]
           S == {k \in Nat : \E g : Solves(g, k)}
<1>1. 0 \in S
  <2>1. SUBSET (1 .. 0) = {{}}
    OBVIOUS
  <2>2. Solves([s \in SUBSET (1 .. 0) |-> base], 0)
    BY <2>1
  <2> QED  BY <2>2
<1>2. ASSUME NEW k \in S  PROVE k + 1 \in S
  <2>1. PICK g : Solves(g, k)
    BY <1>2
  <2> DEFINE h == [s \in SUBSET (1 .. k + 1) |->
                      IF k + 1 \in s THEN FoldStep(kind, env, g[s \ {k + 1}], f[k + 1]) ELSE g[s]]
  <2>2. \A s \in SUBSET (1 .. k) : h[s] = g[s] /\ s \in SUBSET (1 .. k + 1) /\ k + 1 \notin s
    OBVIOUS
  <2>3. ASSUME NEW s \in SUBSET (1 .. k + 1)
        PROVE  h[s] = IF s = {} THEN base
                      ELSE FoldStep(kind, env, h[s \ {Max(s)}], f[Max(s)])
    <3>1. CASE k + 1 \in s
      <4>1. Max(s) = k + 1 /\ s \ {k + 1} \in SUBSET (1 .. k) /\ s # {}
        BY <3>1, MaxOrNot
      <4>2. h[s] = FoldStep(kind, env, g[s \ {k + 1}], f[k + 1])
        BY <3>1
      <4>3. h[s \ {k + 1}] = g[s \ {k + 1}]
        BY <2>2, <4>1
      <4> QED  BY <4>1, <4>2, <4>3
    <3>2. CASE k + 1 \notin s
      <4>1. s \in SUBSET (1 .. k)
        BY <3>2, MaxOrNot
      <4>2. h[s] = g[s]
        BY <2>2, <4>1
      <4>3. g[s] = IF s = {} THEN base ELSE FoldStep(kind, env, g[s \ {Max(s)}], f[Max(s)])
        BY <2>1, <4>1
      <4>4. h[s \ {Max(s)}] = g[s \ {Max(s)}]
        <5>1. s \ {Max(s)} \in SUBSET (1 .. k)
          BY <4>1
        <5> QED  BY <2>2, <5>1
      <4> QED  BY <4>2, <4>3, <4>4
    <3> QED  BY <3>1, <3>2
  <2>4. Solves(h, k + 1)
    BY <2>3
  <2>5. k + 1 \in Nat
    BY <1>2
  <2> QED  BY <2>4, <2>5
<1>3. n \in S
  <2>1. S = Nat
    BY <1>1, <1>2, Induction
  <2> QED  BY <2>1
<1>4. \E g : Solves(g, n)
  BY <1>3
<1> QED
  BY <1>4 DEF IsFold

\* A fold goes from the base, element by element, to the result.
Goes(r, kind, env, base, n, f, end) ==
    /\ r[0] = base /\ r[n] = end
    /\ \A k \in 1 .. n : r[k] = FoldStep(kind, env, r[k - 1], f[k])

LEMMA FoldGoes ==
    ASSUME NEW kind, NEW env, NEW base, NEW f, NEW n \in Nat, NEW g,
           IsFold(g, kind, env, base, n, f)
    PROVE  \E r : Goes(r, kind, env, base, n, f, g[1 .. n])
<1> DEFINE r == [k \in 0 .. n |-> g[1 .. k]]
<1>1. g = [s \in SUBSET (1 .. n) |->
              IF s = {} THEN base ELSE FoldStep(kind, env, g[s \ {Max(s)}], f[Max(s)])]
  BY DEF IsFold
<1>2. r[0] = base
  <2>1. 1 .. 0 = {} /\ {} \in SUBSET (1 .. n) /\ 0 \in 0 .. n
    OBVIOUS
  <2> QED  BY <1>1, <2>1
<1>3. ASSUME NEW k \in 1 .. n  PROVE r[k] = FoldStep(kind, env, r[k - 1], f[k])
  <2>1. Max(1 .. k) = k /\ (1 .. k) \ {k} = 1 .. (k - 1)
    BY MaxUpTo
  <2>2. (1 .. k) \in SUBSET (1 .. n) /\ (1 .. k) # {}
    OBVIOUS
  <2>3. g[1 .. k] = FoldStep(kind, env, g[1 .. (k - 1)], f[k])
    BY <1>1, <2>1, <2>2
  <2>4. k \in 0 .. n /\ k - 1 \in 0 .. n
    OBVIOUS
  <2> QED  BY <2>3, <2>4
<1>4. r[n] = g[1 .. n]
  OBVIOUS
<1> HIDE DEF r
<1>5. Goes(r, kind, env, base, n, f, g[1 .. n])
  BY <1>2, <1>3, <1>4 DEF Goes
<1> QED
  BY <1>5

\* The sum of a sequence.
LEMMA SumIs ==
    ASSUME NEW f, NEW n \in Nat, DOMAIN f = 1 .. n
    PROVE  \E r : r[0] = 0 /\ (\A k \in 1 .. n : r[k] = r[k - 1] + f[k]) /\ r[n] = Sum(f)
<1> DEFINE P(g) == g = [s \in SUBSET (1 .. n) |-> IF s = {} THEN 0 ELSE g[s \ {Max(s)}] + f[Max(s)]]
<1>1. \A v, x : FoldStep("sum", 0, v, x) = v + x
  BY DEF FoldStep
<1>2. \A g : P(g) <=> IsFold(g, "sum", 0, 0, n, f)
  BY <1>1 DEF IsFold
<1>3. \E g : P(g)
  BY <1>2, FoldExists
<1>4. Sum(f) = (CHOOSE g : P(g))[1 .. n]
  BY DEF Sum, FoldLeft, MapThenFoldSet
<1> HIDE DEF P
<1>5. PICK g : P(g) /\ Sum(f) = g[1 .. n]
  BY <1>3, <1>4
<1>6. IsFold(g, "sum", 0, 0, n, f)
  BY <1>2, <1>5
<1>7. \E r : Goes(r, "sum", 0, 0, n, f, g[1 .. n])
  BY <1>6, FoldGoes
<1> QED
  BY <1>1, <1>5, <1>7 DEF Goes

-----------------------------------------------------------------------------
(* Folds over sets, of which the model has two: the names of an instruction *)
(* are looked up, and the names of a table are put in some order.           *)

SetStep(kind, x, v) == IF kind = "known" THEN Known(v, x) ELSE Append(v, x)

IsSetFold(g, dom, kind, base) ==
    g = [s \in dom |-> IF s = {} THEN base
                       ELSE SetStep(kind, CHOOSE x \in s : TRUE, g[s \ {CHOOSE x \in s : TRUE}])]

\* The subsets of S with at most k elements.
Small(S, k) == {s \in SUBSET S : Cardinality(s) <= k}

LEMMA OneLess ==
    ASSUME NEW S, IsFiniteSet(S), NEW k \in Nat, NEW s \in Small(S, k + 1), s # {}
    PROVE  /\ (CHOOSE x \in s : TRUE) \in s
           /\ s \ {CHOOSE x \in s : TRUE} \in Small(S, k)
<1> DEFINE y == CHOOSE x \in s : TRUE
<1>1. y \in s
  OBVIOUS
<1> HIDE DEF y
<1>2. IsFiniteSet(s)
  BY FS_Subset DEF Small
<1>3. Cardinality(s \ {y}) = Cardinality(s) - 1 /\ Cardinality(s) \in Nat
  BY <1>1, <1>2, FS_RemoveElement, FS_CardinalityType
<1>4. Cardinality(s) <= k + 1 /\ s \ {y} \in SUBSET S
  BY DEF Small
<1>5. Cardinality(s \ {y}) <= k
  BY <1>3, <1>4
<1>6. s \ {y} \in Small(S, k)
  BY <1>4, <1>5 DEF Small
<1> QED
  BY <1>1, <1>6 DEF y

LEMMA SmallSets ==
    ASSUME NEW S, IsFiniteSet(S)
    PROVE  /\ Small(S, 0) = {{}}
           /\ Small(S, Cardinality(S)) = SUBSET S /\ Cardinality(S) \in Nat
           /\ \A k \in Nat : Small(S, k) \subseteq Small(S, k + 1)
<1>1. \A s \in SUBSET S : IsFiniteSet(s) /\ Cardinality(s) \in Nat /\ Cardinality(s) <= Cardinality(S)
  BY FS_Subset, FS_CardinalityType
<1>2. Cardinality(S) \in Nat
  BY FS_CardinalityType
<1>3. Small(S, Cardinality(S)) = SUBSET S
  BY <1>1 DEF Small
<1>4. \A k \in Nat : Small(S, k) \subseteq Small(S, k + 1)
  <2> SUFFICES ASSUME NEW k \in Nat, NEW s \in Small(S, k)  PROVE s \in Small(S, k + 1)
    OBVIOUS
  <2>1. s \in SUBSET S /\ Cardinality(s) <= k /\ Cardinality(s) \in Nat
    BY <1>1 DEF Small
  <2>2. Cardinality(s) <= k + 1
    BY <2>1
  <2> QED  BY <2>1, <2>2 DEF Small
<1>5. Small(S, 0) = {{}}
  <2>1. \A s \in SUBSET S : Cardinality(s) <= 0 <=> s = {}
    <3> SUFFICES ASSUME NEW s \in SUBSET S  PROVE Cardinality(s) <= 0 <=> s = {}
      OBVIOUS
    <3>1. IsFiniteSet(s) /\ Cardinality(s) \in Nat
      BY <1>1
    <3>2. Cardinality(s) = 0 <=> s = {}
      BY <3>1, FS_EmptySet
    <3> QED  BY <3>1, <3>2
  <2> QED  BY <2>1 DEF Small
<1> QED
  BY <1>2, <1>3, <1>4, <1>5

LEMMA SetFoldExists ==
    ASSUME NEW S, IsFiniteSet(S), NEW kind, NEW base
    PROVE  \E g : IsSetFold(g, SUBSET S, kind, base)
<1> DEFINE T == {k \in Nat : \E g : IsSetFold(g, Small(S, k), kind, base)}
<1>1. 0 \in T
  <2>1. Small(S, 0) = {{}}
    BY SmallSets
  <2>2. IsSetFold([s \in Small(S, 0) |-> base], Small(S, 0), kind, base)
    BY <2>1 DEF IsSetFold
  <2> QED  BY <2>2
<1>2. ASSUME NEW k \in T  PROVE k + 1 \in T
  <2>1. k \in Nat /\ k + 1 \in Nat
    BY <1>2
  <2>2. PICK g : IsSetFold(g, Small(S, k), kind, base)
    BY <1>2
  <2> DEFINE y(s) == CHOOSE x \in s : TRUE
             h == [s \in Small(S, k + 1) |-> IF s = {} THEN base ELSE SetStep(kind, y(s), g[s \ {y(s)}])]
  <2>3. \A s \in Small(S, k) : h[s] = g[s]
    <3>1. Small(S, k) \subseteq Small(S, k + 1)
      BY <2>1, SmallSets
    <3>2. \A s \in Small(S, k) : g[s] = IF s = {} THEN base ELSE SetStep(kind, y(s), g[s \ {y(s)}])
      BY <2>2 DEF IsSetFold
    <3> QED  BY <3>1, <3>2
  <2>4. \A s \in Small(S, k + 1) : s # {} => h[s \ {y(s)}] = g[s \ {y(s)}]
    <3> SUFFICES ASSUME NEW s \in Small(S, k + 1), s # {}  PROVE h[s \ {y(s)}] = g[s \ {y(s)}]
      OBVIOUS
    <3>1. s \ {y(s)} \in Small(S, k)
      BY <2>1, OneLess
    <3> QED  BY <2>3, <3>1
  <2>5. h = [s \in Small(S, k + 1) |-> IF s = {} THEN base ELSE SetStep(kind, y(s), h[s \ {y(s)}])]
    <3> HIDE DEF y
    <3>1. \A s \in Small(S, k + 1) :
             h[s] = IF s = {} THEN base ELSE SetStep(kind, y(s), h[s \ {y(s)}])
      <4> SUFFICES ASSUME NEW s \in Small(S, k + 1)
                   PROVE  h[s] = IF s = {} THEN base ELSE SetStep(kind, y(s), h[s \ {y(s)}])
        OBVIOUS
      <4>1. h[s] = IF s = {} THEN base ELSE SetStep(kind, y(s), g[s \ {y(s)}])
        OBVIOUS
      <4>2. s # {} => h[s \ {y(s)}] = g[s \ {y(s)}]
        BY <2>4
      <4> HIDE DEF h
      <4> QED  BY <4>1, <4>2
    <3>2. h = [s \in Small(S, k + 1) |-> h[s]]
      OBVIOUS
    <3> HIDE DEF h
    <3> QED  BY <3>1, <3>2
  <2> HIDE DEF h
  <2>6. IsSetFold(h, Small(S, k + 1), kind, base)
    BY <2>5 DEF IsSetFold
  <2> QED  BY <2>1, <2>6
<1>3. T = Nat
  <2>1. T \in SUBSET Nat
    OBVIOUS
  <2> HIDE DEF T
  <2> QED  BY <1>1, <1>2, <2>1, Induction
<1>4. Cardinality(S) \in T /\ Small(S, Cardinality(S)) = SUBSET S
  BY <1>3, SmallSets
<1> QED
  BY <1>4

\* A symbol table: finitely many names, each with its place.
IsTable(m) == DOMAIN m \subseteq Identifiers /\ IsFiniteSet(DOMAIN m)

\* What a fold over S keeps.
Folded(kind, S, v) == IF kind = "known" THEN IsTable(v) ELSE v \in Seq(S)

LEMMA UpdateTable ==
    ASSUME NEW m, IsTable(m), NEW name \in Identifiers, NEW y
    PROVE  IsTable(Update(m, name, y))
<1>1. DOMAIN Update(m, name, y) = DOMAIN m \cup {name}
  BY DEF Update
<1> QED
  BY <1>1, FS_AddElement DEF IsTable

LEMMA KnownTable ==
    ASSUME NEW m, IsTable(m), NEW name \in Identifiers
    PROVE  IsTable(Known(m, name))
BY UpdateTable DEF Known

LEMMA SetFoldKeeps ==
    ASSUME NEW S, IsFiniteSet(S), NEW kind, kind = "known" => S \subseteq Identifiers, NEW base,
           Folded(kind, S, base), NEW g, IsSetFold(g, SUBSET S, kind, base)
    PROVE  Folded(kind, S, g[S])
<1> DEFINE T == {k \in Nat : \A s \in Small(S, k) : Folded(kind, S, g[s])}
<1>1. \A s \in SUBSET S : g[s] = IF s = {} THEN base
                                 ELSE SetStep(kind, CHOOSE x \in s : TRUE, g[s \ {CHOOSE x \in s : TRUE}])
  BY DEF IsSetFold
<1>2. ASSUME NEW x \in S, NEW v, Folded(kind, S, v)  PROVE Folded(kind, S, SetStep(kind, x, v))
  <2>1. CASE kind = "known"
    BY <1>2, <2>1, KnownTable DEF Folded, SetStep
  <2>2. CASE kind # "known"
    BY <1>2, <2>2 DEF Folded, SetStep
  <2> QED  BY <2>1, <2>2
<1>3. 0 \in T
  <2>1. g[{}] = base
    BY <1>1
  <2>2. Small(S, 0) = {{}}
    BY SmallSets
  <2> QED  BY <2>1, <2>2
<1>4. ASSUME NEW k \in T  PROVE k + 1 \in T
  <2>1. k \in Nat /\ k + 1 \in Nat /\ \A s \in Small(S, k) : Folded(kind, S, g[s])
    BY <1>4
  <2>2. ASSUME NEW s \in Small(S, k + 1)  PROVE Folded(kind, S, g[s])
    <3>1. s \in SUBSET S
      BY DEF Small
    <3>2. CASE s = {}
      BY <1>1, <3>1, <3>2
    <3>3. CASE s # {}
      <4> DEFINE y == CHOOSE x \in s : TRUE
      <4>1. y \in s /\ s \ {y} \in Small(S, k)
        BY <2>1, <3>3, OneLess
      <4>2. g[s] = SetStep(kind, y, g[s \ {y}])
        BY <1>1, <3>1, <3>3
      <4> HIDE DEF y
      <4> QED  BY <1>2, <2>1, <3>1, <4>1, <4>2
    <3> QED  BY <3>2, <3>3
  <2> QED  BY <2>1, <2>2
<1>5. T = Nat
  <2>1. T \in SUBSET Nat
    OBVIOUS
  <2> HIDE DEF T
  <2> QED  BY <1>3, <1>4, <2>1, Induction
<1>6. Cardinality(S) \in T /\ S \in Small(S, Cardinality(S))
  BY <1>5, SmallSets
<1> QED
  BY <1>6

\* The symbols of an instruction become known.
LEMMA NamesKnown ==
    ASSUME NEW S, IsFiniteSet(S), S \subseteq Identifiers, NEW m, IsTable(m)
    PROVE  IsTable(FoldSet(LAMBDA name, t : Known(t, name), m, S))
<1> DEFINE P(g) == g = [s \in SUBSET S |-> IF s = {} THEN m
                            ELSE Known(g[s \ {CHOOSE x \in s : TRUE}], CHOOSE x \in s : TRUE)]
<1>1. \A g : P(g) <=> IsSetFold(g, SUBSET S, "known", m)
  <2>1. \A x, v : SetStep("known", x, v) = Known(v, x)
    BY DEF SetStep
  <2> QED  BY <2>1, SMTT(20) DEF IsSetFold
<1>2. \E g : P(g)
  <2>1. \E g : IsSetFold(g, SUBSET S, "known", m)
    BY SetFoldExists
  <2> HIDE DEF P
  <2> QED  BY <1>1, <2>1
<1>3. FoldSet(LAMBDA name, t : Known(t, name), m, S) = (CHOOSE g : P(g))[S]
  BY DEF FoldSet, MapThenFoldSet
<1> HIDE DEF P
<1>4. PICK g : P(g) /\ FoldSet(LAMBDA name, t : Known(t, name), m, S) = g[S]
  BY <1>2, <1>3
<1>5. IsSetFold(g, SUBSET S, "known", m) /\ Folded("known", S, m)
  BY <1>1, <1>4 DEF Folded
<1>6. Folded("known", S, g[S])
  BY <1>5, SetFoldKeeps
<1> QED
  BY <1>4, <1>6 DEF Folded

\* InSomeOrder puts the elements of a finite set in a sequence.
LEMMA OrderIsSeq ==
    ASSUME NEW S, IsFiniteSet(S)
    PROVE  InSomeOrder(S) \in Seq(S)
<1>0. PICK e : e = << >>
  OBVIOUS
<1> DEFINE P(g) == g = [s \in SUBSET S |-> IF s = {} THEN e
                            ELSE Append(g[s \ {CHOOSE x \in s : TRUE}], CHOOSE x \in s : TRUE)]
<1>1. \A g : P(g) <=> IsSetFold(g, SUBSET S, "append", e)
  BY DEF IsSetFold, SetStep
<1>2. \E g : P(g)
  <2>1. \E g : IsSetFold(g, SUBSET S, "append", e)
    BY SetFoldExists
  <2> HIDE DEF P
  <2> QED  BY <1>1, <2>1
<1>3. InSomeOrder(S) = (CHOOSE g : P(g))[S]
  BY <1>0 DEF InSomeOrder, FoldSet, MapThenFoldSet
<1> HIDE DEF P
<1>4. PICK g : P(g) /\ InSomeOrder(S) = g[S]
  BY <1>2, <1>3
<1>5. IsSetFold(g, SUBSET S, "append", e) /\ Folded("append", S, e)
  <2>1. e \in Seq(S)
    BY <1>0
  <2> QED  BY <1>1, <1>4, <2>1 DEF Folded
<1>6. Folded("append", S, g[S])
  BY <1>5, SetFoldKeeps
<1> QED
  BY <1>4, <1>6 DEF Folded

-----------------------------------------------------------------------------
(* Alignment and pages. *)

M == MEM_ALIGN

LEMMA PageSize == M \in Nat \ {0} /\ M % 16 = 0
BY AlignAssumption DEF M

\* Division with remainder.
LEMMA Divided ==
    ASSUME NEW n \in Int
    PROVE  n = M * (n \div M) + (n % M) /\ n \div M \in Int /\ n % M \in 0 .. M - 1 /\ n % M \in Int
BY PageSize

LEMMA Division ==
    /\ \A q \in Int : \A r \in 0 .. M - 1 : (M * q + r) % M = r /\ (M * q + r) \div M = q
    /\ \A p, q \in Int : M * p < M * q => p < q
    /\ \A p, q \in Int : M * p \in Int /\ (p <= q => M * p <= M * q)
<1>1. \A k \in Nat \ {0}, q \in Int : \A r \in 0 .. k - 1 : (k * q + r) % k = r
  OBVIOUS
<1>2. \A k \in Nat \ {0}, q \in Int : \A r \in 0 .. k - 1 : (k * q + r) \div k = q
  OBVIOUS
<1>3. \A k \in Nat \ {0}, p, q \in Int : k * p < k * q => p < q
  OBVIOUS
<1>4. \A k \in Nat \ {0}, p, q \in Int : k * p \in Int /\ (p <= q => k * p <= k * q)
  OBVIOUS
<1>5. \A q \in Int : \A r \in 0 .. M - 1 : (M * q + r) % M = r
  BY <1>1, PageSize
<1>6. \A q \in Int : \A r \in 0 .. M - 1 : (M * q + r) \div M = q
  BY <1>2, PageSize
<1>7. \A p, q \in Int : M * p < M * q => p < q
  BY <1>3, PageSize
<1>8. \A p, q \in Int : M * p \in Int /\ (p <= q => M * p <= M * q)
  BY <1>4, PageSize
<1> QED
  BY <1>5, <1>6, <1>7, <1>8

LEMMA AlignedTo ==
    ASSUME NEW n \in Nat
    PROVE  /\ Aligned(n, 4) \in Nat /\ n <= Aligned(n, 4) /\ Aligned(n, 4) % 4 = 0
           /\ Aligned(n, 16) \in Nat /\ n <= Aligned(n, 16)
           /\ Aligned(n, M) \in Nat /\ n <= Aligned(n, M) /\ Aligned(n, M) % M = 0
<1>1. Aligned(n, 4) \in Nat /\ n <= Aligned(n, 4) /\ Aligned(n, 4) % 4 = 0
  BY DEF Aligned
<1>2. Aligned(n, 16) \in Nat /\ n <= Aligned(n, 16)
  BY DEF Aligned
<1>3. Aligned(n, M) \in Nat /\ n <= Aligned(n, M) /\ Aligned(n, M) % M = 0
  <2>1. PICK q, r \in Int : n = M * q + r /\ r \in 0 .. M - 1 /\ n % M = r
    <3>1. n \in Int
      OBVIOUS
    <3> QED  BY <3>1, Divided
  <2>2. CASE r = 0
    <3>1. (M - r) % M = 0
      <4>1. M - r = M * 1 + 0 /\ 0 \in 0 .. M - 1
        BY <2>2, PageSize
      <4> QED  BY <4>1, Division
    <3> QED  BY <2>1, <2>2, <3>1 DEF Aligned
  <2>3. CASE r # 0
    <3>1. (M - r) % M = M - r
      <4>1. M - r = M * 0 + (M - r) /\ M - r \in 0 .. M - 1
        BY <2>1, <2>3, PageSize
      <4> QED  BY <4>1, Division
    <3>2. n + (M - r) = M * (q + 1) + 0 /\ 0 \in 0 .. M - 1 /\ q + 1 \in Int
      BY <2>1, PageSize
    <3>3. (n + (M - r)) % M = 0
      BY <3>2, Division
    <3>4. Aligned(n, M) = n + (M - r)
      BY <2>1, <3>1 DEF Aligned
    <3>5. M - r \in Nat
      BY <2>1, PageSize
    <3> QED  BY <3>3, <3>4, <3>5
  <2> QED  BY <2>2, <2>3
<1> QED
  BY <1>1, <1>2, <1>3

\* Numbers that agree modulo the page still do when the same is added.
LEMMA SameShift ==
    ASSUME NEW a \in Int, NEW b \in Int, NEW k \in Int, a % M = b % M
    PROVE  (a + k) % M = (b + k) % M
<1>1. PICK p, q, r \in Int : a = M * p + r /\ b = M * q + r
  BY Divided
<1>2. PICK t, u \in Int : r + k = M * t + u /\ u \in 0 .. M - 1
  <2>1. r + k \in Int
    OBVIOUS
  <2> QED  BY <2>1, Divided
<1>3. a + k = M * (p + t) + u /\ b + k = M * (q + t) + u /\ p + t \in Int /\ q + t \in Int
  BY <1>1, <1>2, PageSize
<1>4. (a + k) % M = u /\ (b + k) % M = u
  BY <1>2, <1>3, Division
<1> QED
  BY <1>4

LEMMA CongruentTo ==
    ASSUME NEW a \in Nat, NEW off \in Nat
    PROVE  /\ Congruent(a, off) \in Nat /\ Congruent(a, off) % M = off % M
           /\ Congruent(a, off) = M * (a \div M) + (off % M)
           /\ a % M <= off % M => a <= Congruent(a, off)
<1>1. a = M * (a \div M) + (a % M) /\ a \div M \in Int /\ a % M \in 0 .. M - 1 /\ off % M \in 0 .. M - 1
  BY Divided
<1>2. a \div M \in Nat
  BY PageSize
<1>3. M * (a \div M) \in Nat
  BY <1>2, PageSize
<1>4. Congruent(a, off) = M * (a \div M) + (off % M)
  BY <1>1, <1>3 DEF Congruent, M
<1>5. (M * (a \div M) + (off % M)) % M = off % M
  BY <1>1, Division
<1> QED
  BY <1>1, <1>3, <1>4, <1>5

\* The greatest multiple of the page that is not above b.
LEMMA PageBelow ==
    ASSUME NEW a \in Nat, NEW b \in Nat, a <= b, a % M = 0
    PROVE  a <= M * (b \div M) /\ a = M * (a \div M)
<1>1. a = M * (a \div M) /\ a \div M \in Int
  <2>1. a \in Int
    OBVIOUS
  <2>2. M * (a \div M) \in Int
    BY <2>1, Divided, Division
  <2> QED  BY <2>1, <2>2, Divided
<1>2. b = M * (b \div M) + (b % M) /\ b \div M \in Int /\ b % M \in 0 .. M - 1
  <2>1. b \in Int
    OBVIOUS
  <2> QED  BY <2>1, Divided
<1>3. M * (a \div M) < M * (b \div M + 1)
  <2>1. M * (b \div M + 1) = M * (b \div M) + M /\ M * (b \div M) \in Int
    BY <1>2, PageSize
  <2> QED  BY <1>1, <1>2, <2>1, PageSize
<1>4. a \div M < b \div M + 1
  <2>1. b \div M + 1 \in Int
    BY <1>2
  <2> QED  BY <1>1, <1>3, <2>1, Division
<1>5. a \div M <= b \div M
  BY <1>1, <1>2, <1>4
<1>6. M * (a \div M) <= M * (b \div M)
  BY <1>1, <1>2, <1>5, Division
<1> QED
  BY <1>1, <1>6

\* Where allocAddr puts a section, from the address and the offset reached.
StartOf(name, off) == Aligned(off, IF name = ".text" THEN 16 ELSE DISC_ALIGN)
AddrOf(name, base, off) ==
    Congruent(IF name = ".bss" THEN base ELSE Aligned(base, MEM_ALIGN), StartOf(name, off))

LEMMA PlacesAreNumbers ==
    ASSUME NEW name, NEW base \in Nat, NEW off \in Nat
    PROVE  StartOf(name, off) \in Nat /\ AddrOf(name, base, off) \in Nat
<1>1. StartOf(name, off) \in Nat
  BY AlignedTo DEF StartOf, DISC_ALIGN
<1>2. (IF name = ".bss" THEN base ELSE Aligned(base, MEM_ALIGN)) \in Nat
  BY AlignedTo DEF M
<1> QED
  BY <1>1, <1>2, CongruentTo DEF AddrOf

\* Code and data: on pages of their own.
LEMMA PagesApart ==
    ASSUME NEW name, name # ".bss", NEW base \in Nat, NEW off \in Nat
    PROVE  /\ base <= Aligned(base, M) /\ Aligned(base, M) <= AddrOf(name, base, off)
           /\ base # 0 => (base - 1) \div M < AddrOf(name, base, off) \div M
           /\ AddrOf(name, base, off) % M = StartOf(name, off) % M
<1> DEFINE a == Aligned(base, M)
           o == StartOf(name, off)
<1>1. a \in Nat /\ base <= a /\ a % M = 0
  BY AlignedTo
<1>2. o \in Nat
  BY PlacesAreNumbers
<1>3. AddrOf(name, base, off) = Congruent(a, o)
  BY DEF AddrOf, M
<1> HIDE DEF a, o
<1>4. a = M * (a \div M) /\ a \div M \in Int /\ o % M \in 0 .. M - 1
  <2>1. a <= a /\ o \in Int /\ a \in Int
    BY <1>1, <1>2
  <2>2. a = M * (a \div M)
    BY <1>1, <2>1, PageBelow
  <2> QED  BY <2>1, <2>2, Divided
<1>5. Congruent(a, o) = M * (a \div M) + (o % M) /\ Congruent(a, o) % M = o % M
  BY <1>1, <1>2, CongruentTo
<1>6. Congruent(a, o) \div M = a \div M
  BY <1>4, <1>5, Division
<1>7. ASSUME base # 0  PROVE (base - 1) \div M < a \div M
  <2>1. base - 1 \in Int /\ base - 1 < a
    BY <1>1
  <2>2. base - 1 = M * ((base - 1) \div M) + ((base - 1) % M) /\ (base - 1) \div M \in Int
        /\ (base - 1) % M \in 0 .. M - 1
    BY <2>1, Divided
  <2>3. M * ((base - 1) \div M) < M * (a \div M)
    <3>1. M * ((base - 1) \div M) \in Int /\ M * ((base - 1) \div M) <= base - 1
      BY <2>1, <2>2, PageSize
    <3> QED  BY <1>1, <1>4, <2>1, <3>1
  <2> QED  BY <1>4, <2>2, <2>3, Division
<1>8. a <= Congruent(a, o)
  BY <1>1, <1>4, <1>5
<1> QED
  BY <1>1, <1>3, <1>5, <1>6, <1>7, <1>8 DEF a, o

\* .bss: its address agrees with its offset, and is not below the page that
\* .data ends on, nor below the end of .data if the alignment of the offset
\* does not lead to another page.
LEMMA BssPlace ==
    ASSUME NEW base \in Nat, NEW off \in Nat, base % M = off % M, NEW low \in Nat,
           low <= base, low % M = 0
    PROVE  /\ AddrOf(".bss", base, off) % M = StartOf(".bss", off) % M
           /\ low <= AddrOf(".bss", base, off)
           /\ off % M <= Aligned(off, DISC_ALIGN) % M => base <= AddrOf(".bss", base, off)
<1> DEFINE o == StartOf(".bss", off)
<1>1. o = Aligned(off, DISC_ALIGN) /\ o \in Nat
  BY PlacesAreNumbers DEF StartOf
<1>2. AddrOf(".bss", base, off) = Congruent(base, o)
  BY DEF AddrOf
<1> HIDE DEF o
<1>3. low <= M * (base \div M) /\ M * (base \div M) \in Int /\ o % M \in 0 .. M - 1
  <2>1. base \in Int /\ o \in Int
    BY <1>1
  <2>2. low <= M * (base \div M)
    BY PageBelow
  <2> QED  BY <2>1, <2>2, Divided, Division
<1>4. low <= Congruent(base, o) /\ Congruent(base, o) % M = o % M
  BY <1>1, <1>3, CongruentTo
<1>5. off % M <= o % M => base <= Congruent(base, o)
  BY <1>1, CongruentTo
<1> QED
  BY <1>1, <1>2, <1>4, <1>5 DEF o

-----------------------------------------------------------------------------
(* Sequences, whatever their elements. *)

IsSeq(s) == \E S : s \in Seq(S)

LEMMA SeqFacts ==
    ASSUME NEW s, IsSeq(s)
    PROVE  Len(s) \in Nat /\ DOMAIN s = 1 .. Len(s) /\ s = [k \in 1 .. Len(s) |-> s[k]]
BY DEF IsSeq

LEMMA SeqMade ==
    ASSUME NEW n \in Nat, NEW s, s = [k \in 1 .. n |-> s[k]]
    PROVE  IsSeq(s) /\ Len(s) = n /\ DOMAIN s = 1 .. n
<1> DEFINE D == {s[k] : k \in 1 .. n}
<1>1. s \in Seq(D) /\ DOMAIN s = 1 .. n
  OBVIOUS
<1>2. IsSeq(s)
  BY <1>1 DEF IsSeq
<1>3. Len(s) \in Nat /\ DOMAIN s = 1 .. Len(s)
  <2> HIDE DEF D
  <2> QED  BY <1>1
<1>4. \A m, j \in Nat : 1 .. m = 1 .. j => m = j
  <2> SUFFICES ASSUME NEW m \in Nat, NEW j \in Nat, 1 .. m = 1 .. j  PROVE m = j
    OBVIOUS
  <2>1. ~ (m > j)
    <3>1. m > j => m \in 1 .. m /\ m \notin 1 .. j
      OBVIOUS
    <3> QED  BY <3>1
  <2>2. ~ (j > m)
    <3>1. j > m => j \in 1 .. j /\ j \notin 1 .. m
      OBVIOUS
    <3> QED  BY <3>1
  <2> QED  BY <2>1, <2>2
<1> QED
  BY <1>1, <1>2, <1>3, <1>4

LEMMA SeqAppend ==
    ASSUME NEW s, IsSeq(s), NEW x
    PROVE  /\ IsSeq(Append(s, x)) /\ Len(Append(s, x)) = Len(s) + 1
           /\ Append(s, x)[Len(s) + 1] = x
           /\ \A k \in 1 .. Len(s) : Append(s, x)[k] = s[k]
<1>1. PICK S : s \in Seq(S)
  BY DEF IsSeq
<1>2. s \in Seq(S \cup {x}) /\ x \in S \cup {x}
  BY <1>1
<1>3. Append(s, x) \in Seq(S \cup {x})
  BY <1>2
<1>4. /\ Len(Append(s, x)) = Len(s) + 1
      /\ Append(s, x)[Len(s) + 1] = x
      /\ \A k \in 1 .. Len(s) : Append(s, x)[k] = s[k]
  BY <1>2
<1> QED
  BY <1>3, <1>4 DEF IsSeq

LEMMA SeqConcat ==
    ASSUME NEW s, NEW t, IsSeq(s), IsSeq(t)
    PROVE  /\ IsSeq(s \o t) /\ Len(s \o t) = Len(s) + Len(t)
           /\ \A k \in 1 .. Len(s) : (s \o t)[k] = s[k]
           /\ \A k \in 1 .. Len(t) : (s \o t)[Len(s) + k] = t[k]
<1>1. PICK S, T : s \in Seq(S) /\ t \in Seq(T)
  BY DEF IsSeq
<1>2. s \in Seq(S \cup T) /\ t \in Seq(S \cup T)
  BY <1>1
<1>3. s \o t \in Seq(S \cup T)
  BY <1>2
<1>4. Len(s) \in Nat /\ Len(t) \in Nat
  BY <1>1
<1>5. /\ Len(s \o t) = Len(s) + Len(t)
      /\ \A k \in 1 .. Len(s) : (s \o t)[k] = s[k]
      /\ \A k \in 1 .. Len(t) : (s \o t)[Len(s) + k] = t[k]
  BY <1>2, <1>4
<1> QED
  BY <1>3, <1>5 DEF IsSeq

-----------------------------------------------------------------------------
(* What allocAddr makes of a section. *)

\* An object file: the sizes its headers state, and the bytes they are about.
SizeOf(elf, name) == Sh(elf, name).size

ElfOK(elf) ==
    /\ \A name \in {".text", ".data", ".bss"} : SizeOf(elf, name) \in Nat
    /\ IsSeq(elf.text) /\ Len(elf.text) = SizeOf(elf, ".text")
    /\ IsSeq(elf.data) /\ Len(elf.data) = SizeOf(elf, ".data")

SegFields == {"begin", "base", "offset", "size", "blocks", "addrs"}

\* Block j stands on the first multiple of four after the block before it.
BlockEnd(blocks, j) == IF j = 0 THEN 0 ELSE blocks[j].off + Len(blocks[j].data)

BlockOK(blocks, j) ==
    /\ DOMAIN blocks[j] = {"off", "data"} /\ IsSeq(blocks[j].data)
    /\ blocks[j].off = Aligned(BlockEnd(blocks, j - 1), 4)

Chain(blocks, k, size) ==
    /\ IsSeq(blocks) /\ Len(blocks) = k /\ size = BlockEnd(blocks, k)
    /\ \A j \in 1 .. k : BlockOK(blocks, j)

SegOK(s, k, name, base, off) ==
    /\ DOMAIN s = SegFields /\ s.size \in Nat
    /\ s.begin = off /\ s.base = AddrOf(name, base, off) /\ s.offset = StartOf(name, off)
    /\ IF name = ".bss" THEN s.blocks = << >> ELSE Chain(s.blocks, k, s.size)

LEMMA AllocatedGoes ==
    ASSUME NEW name, NEW base, NEW off, NEW n \in Nat, DOMAIN elfs = 1 .. n
    PROVE  \E r : Goes(r, "place", << name, AddrOf(name, base, off) >>,
                       [begin |-> off, base |-> AddrOf(name, base, off),
                        offset |-> StartOf(name, off), size |-> 0,
                        blocks |-> << >>, addrs |-> << >>],
                       n, elfs, Allocated(name, base, off))
<1> DEFINE addr == AddrOf(name, base, off)
           b == [begin |-> off, base |-> addr, offset |-> StartOf(name, off), size |-> 0,
                 blocks |-> << >>, addrs |-> << >>]
           P(g) == g = [s \in SUBSET (1 .. n) |-> IF s = {} THEN b
                           ELSE PlaceStep(name, addr, g[s \ {Max(s)}], elfs[Max(s)])]
<1>1. \A v, x : FoldStep("place", << name, addr >>, v, x) = PlaceStep(name, addr, v, x)
  BY DEF FoldStep
<1>2. \A g : P(g) <=> IsFold(g, "place", << name, addr >>, b, n, elfs)
  <2> HIDE DEF b, addr
  <2> QED  BY <1>1 DEF IsFold
<1>3. \E g : P(g)
  <2> HIDE DEF P
  <2> QED  BY <1>2, FoldExists
<1>4. Allocated(name, base, off) = (CHOOSE g : P(g))[1 .. n]
  BY DEF Allocated, FoldLeft, MapThenFoldSet, PlaceStep, AddrOf, StartOf
<1> HIDE DEF P
<1>5. PICK g : P(g) /\ Allocated(name, base, off) = g[1 .. n]
  BY <1>3, <1>4
<1>6. IsFold(g, "place", << name, addr >>, b, n, elfs)
  BY <1>2, <1>5
<1> HIDE DEF b, addr
<1>7. \E r : Goes(r, "place", << name, addr >>, b, n, elfs, g[1 .. n])
  BY <1>6, FoldGoes
<1> QED
  BY <1>5, <1>7 DEF b, addr

\* One more file leaves a section as it must be.
LEMMA BlockAppended ==
    ASSUME NEW blocks, NEW k \in Nat, NEW size \in Nat, Chain(blocks, k, size),
           NEW data, IsSeq(data),
           NEW more, more = Append(blocks, [off |-> Aligned(size, 4), data |-> data])
    PROVE  Chain(more, k + 1, Aligned(size, 4) + Len(data))
<1> DEFINE b == [off |-> Aligned(size, 4), data |-> data]
<1>1. IsSeq(blocks) /\ Len(blocks) = k /\ size = BlockEnd(blocks, k) /\ \A j \in 1 .. k : BlockOK(blocks, j)
  BY DEF Chain
<1>2. /\ IsSeq(more) /\ Len(more) = k + 1 /\ more[k + 1] = b
      /\ \A j \in 1 .. k : more[j] = blocks[j]
  <2> HIDE DEF b
  <2>1. more = Append(blocks, b)
    BY DEF b
  <2> QED  BY <1>1, <2>1, SeqAppend
<1>3. \A j \in 0 .. k : BlockEnd(more, j) = BlockEnd(blocks, j)
  <2> SUFFICES ASSUME NEW j \in 0 .. k  PROVE BlockEnd(more, j) = BlockEnd(blocks, j)
    OBVIOUS
  <2>1. j # 0 => j \in 1 .. k
    OBVIOUS
  <2> QED  BY <1>2, <2>1 DEF BlockEnd
<1>4. ASSUME NEW j \in 1 .. k  PROVE BlockOK(more, j)
  <2>1. j - 1 \in 0 .. k
    OBVIOUS
  <2> QED  BY <1>1, <1>2, <1>3, <2>1 DEF BlockOK
<1>5. BlockOK(more, k + 1)
  <2>1. k \in 0 .. k /\ k + 1 - 1 = k
    OBVIOUS
  <2>2. BlockEnd(more, k) = size
    BY <1>1, <1>3, <2>1
  <2> QED  BY <1>2, <2>1, <2>2 DEF BlockOK
<1>6. BlockEnd(more, k + 1) = Aligned(size, 4) + Len(data)
  <2>1. k + 1 # 0
    OBVIOUS
  <2> QED  BY <1>2, <2>1 DEF BlockEnd
<1>7. \A j \in 1 .. k + 1 : j \in 1 .. k \/ j = k + 1
  OBVIOUS
<1> QED
  BY <1>2, <1>4, <1>5, <1>6, <1>7 DEF Chain

LEMMA PlaceStepOK ==
    ASSUME NEW name \in {".text", ".data", ".bss"}, NEW base \in Nat, NEW off \in Nat,
           NEW k \in Nat, NEW s, SegOK(s, k, name, base, off), NEW elf, ElfOK(elf)
    PROVE  SegOK(PlaceStep(name, AddrOf(name, base, off), s, elf), k + 1, name, base, off)
<1> DEFINE at == Aligned(s.size, 4)
           t == PlaceStep(name, AddrOf(name, base, off), s, elf)
           block == [off |-> at, data |-> GetData(elf, name)]
<1>1. DOMAIN s = SegFields /\ s.size \in Nat
  BY DEF SegOK
<1>2. at \in Nat /\ SizeOf(elf, name) \in Nat
  BY <1>1, AlignedTo DEF ElfOK
<1>3. /\ DOMAIN t = SegFields
      /\ t.begin = s.begin /\ t.base = s.base /\ t.offset = s.offset
      /\ t.size = at + SizeOf(elf, name)
      /\ t.blocks = IF name = ".bss" THEN s.blocks ELSE Append(s.blocks, block)
  BY <1>1 DEF PlaceStep, SizeOf, SegFields, DISC_ALIGN
<1>4. t.size \in Nat
  BY <1>2, <1>3
<1>5. name # ".bss" => Chain(t.blocks, k + 1, t.size)
  <2> SUFFICES ASSUME name # ".bss"  PROVE Chain(t.blocks, k + 1, t.size)
    OBVIOUS
  <2>1. Chain(s.blocks, k, s.size)
    BY DEF SegOK
  <2>2. IsSeq(GetData(elf, name)) /\ Len(GetData(elf, name)) = SizeOf(elf, name)
    BY DEF ElfOK, GetData
  <2>3. t.blocks = Append(s.blocks, block)
    BY <1>3
  <2> HIDE DEF t
  <2>4. Chain(t.blocks, k + 1, at + Len(GetData(elf, name)))
    BY <1>1, <2>1, <2>2, <2>3, BlockAppended
  <2> QED  BY <1>3, <2>2, <2>4
<1> HIDE DEF t
<1>6. SegOK(t, k + 1, name, base, off)
  BY <1>3, <1>4, <1>5 DEF SegOK
<1> QED
  BY <1>6 DEF t

LEMMA AllocatedOK ==
    ASSUME NEW name \in {".text", ".data", ".bss"}, NEW base \in Nat, NEW off \in Nat,
           NEW n \in Nat, DOMAIN elfs = 1 .. n, \A k \in 1 .. n : ElfOK(elfs[k])
    PROVE  SegOK(Allocated(name, base, off), n, name, base, off)
<1> DEFINE addr == AddrOf(name, base, off)
           b == [begin |-> off, base |-> addr, offset |-> StartOf(name, off), size |-> 0,
                 blocks |-> << >>, addrs |-> << >>]
<1>1. PICK r : Goes(r, "place", << name, addr >>, b, n, elfs, Allocated(name, base, off))
  BY AllocatedGoes
<1>2. r[0] = b /\ r[n] = Allocated(name, base, off)
  BY <1>1 DEF Goes
<1>3. ASSUME NEW k \in 1 .. n  PROVE r[k] = PlaceStep(name, addr, r[k - 1], elfs[k])
  <2>1. \A v, x : FoldStep("place", << name, addr >>, v, x) = PlaceStep(name, addr, v, x)
    BY DEF FoldStep
  <2> HIDE DEF addr, b
  <2> QED  BY <1>1, <2>1 DEF Goes
<1> DEFINE S == {k \in Nat : k <= n => SegOK(r[k], k, name, base, off)}
<1>4. 0 \in S
  <2>1. DOMAIN b = SegFields /\ b.size = 0 /\ b.begin = off /\ b.base = AddrOf(name, base, off)
        /\ b.offset = StartOf(name, off) /\ b.blocks = << >>
    BY DEF SegFields
  <2>2. Chain(<< >>, 0, 0)
    <3>1. << >> \in Seq({}) /\ Len(<< >>) = 0 /\ 1 .. 0 = {}
      OBVIOUS
    <3> QED  BY <3>1 DEF Chain, IsSeq, BlockEnd
  <2>3. r[0].size \in Nat
    BY <1>2, <2>1
  <2> HIDE DEF b
  <2> QED  BY <1>2, <2>1, <2>2, <2>3 DEF SegOK
<1>5. ASSUME NEW k \in S  PROVE k + 1 \in S
  <2>1. k \in Nat /\ k + 1 \in Nat
    BY <1>5
  <2>2. ASSUME k + 1 <= n  PROVE SegOK(r[k + 1], k + 1, name, base, off)
    <3>1. k + 1 \in 1 .. n /\ k + 1 - 1 = k /\ k <= n
      BY <2>1, <2>2
    <3>2. SegOK(r[k], k, name, base, off)
      BY <1>5, <3>1
    <3>3. r[k + 1] = PlaceStep(name, AddrOf(name, base, off), r[k], elfs[k + 1])
      BY <1>3, <3>1
    <3>4. ElfOK(elfs[k + 1])
      BY <3>1
    <3> HIDE DEF S
    <3> QED  BY <2>1, <3>2, <3>3, <3>4, PlaceStepOK
  <2> QED  BY <2>1, <2>2
<1>6. n \in S
  <2>1. S = Nat
    <3>1. S \in SUBSET Nat
      OBVIOUS
    <3> HIDE DEF S
    <3> QED  BY <1>4, <1>5, <3>1, Induction
  <2> QED  BY <2>1
<1> QED
  BY <1>2, <1>6

-----------------------------------------------------------------------------
(* The linker's invariant. *)

MemEnd(name) == segLists[name].base + segLists[name].size
FileEnd(name) == segLists[name].offset + segLists[name].size

Reached(names, addr, off) == DOMAIN segLists = names /\ loadAddr = addr /\ fileOff = off

SegAt(name, base, off) == SegOK(segLists[name], Len(elfs), name, base, off)

TextPlaced == SegAt(".text", BASE_ADDR, HeaderSize)
DataPlaced == SegAt(".data", MemEnd(".text"), FileEnd(".text"))
BssPlaced == SegAt(".bss", MemEnd(".data"), FileEnd(".data"))

Phdrs == [k \in DOMAIN segNames |->
             LET s == segLists[segNames[k]]
             IN  [offset |-> s.offset, vaddr |-> s.base, memsz |-> s.size,
                  filesz |-> IF segNames[k] = ".bss" THEN 0 ELSE s.size]]

Steps == {"read", "validate", "refused", "allocate", "parse", "relocate", "linked"}

LinkOK ==
    /\ step \in Steps
    /\ IsSeq(elfs) /\ \A k \in DOMAIN elfs : ElfOK(elfs[k])
    /\ step \in {"read", "validate", "refused"} => Reached({}, BASE_ADDR, HeaderSize)
    /\ step = "allocate" =>
          \/ Reached({}, BASE_ADDR, HeaderSize)
          \/ TextPlaced /\ Reached({".text"}, MemEnd(".text"), FileEnd(".text"))
          \/ TextPlaced /\ DataPlaced /\ Reached({".text", ".data"}, MemEnd(".data"), FileEnd(".data"))
    /\ step \in {"parse", "relocate", "linked"} =>
          DOMAIN segLists = {".text", ".data", ".bss"} /\ TextPlaced /\ DataPlaced /\ BssPlaced
    /\ step = "linked" => exe.phdrs = Phdrs

LEMMA SegEnds ==
    ASSUME NEW s, NEW k, NEW name, NEW base \in Nat, NEW off \in Nat, SegOK(s, k, name, base, off)
    PROVE  s.base \in Nat /\ s.offset \in Nat /\ s.size \in Nat
           /\ s.base + s.size \in Nat /\ s.offset + s.size \in Nat
<1>1. s.base \in Nat /\ s.offset \in Nat /\ s.size \in Nat
  BY PlacesAreNumbers DEF SegOK
<1> QED
  BY <1>1

LEMMA HeaderIsNat == HeaderSize \in Nat /\ BASE_ADDR \in Nat
<1>1. Len(segNames) = 3
  BY DEF segNames
<1> QED
  BY <1>1, AlignAssumption DEF HeaderSize, EhdrSize, PhdrSize

\* One more section is placed.
LEMMA AllocAddrStep ==
    ASSUME LinkOK, AllocAddr
    PROVE  LinkOK'
<1> DEFINE name == segNames[Cardinality(DOMAIN segLists) + 1]
           s == Allocated(name, loadAddr, fileOff)
           n == Len(elfs)
<1>1. n \in Nat /\ DOMAIN elfs = 1 .. n /\ \A k \in 1 .. n : ElfOK(elfs[k])
  BY SeqFacts DEF LinkOK
<1>2. /\ step = "allocate"
      /\ segLists' = [m \in DOMAIN segLists \cup {name} |-> IF m = name THEN s ELSE segLists[m]]
      /\ loadAddr' = s.base + s.size
      /\ fileOff' = IF name = ".bss" THEN s.offset ELSE s.offset + s.size
      /\ step' = IF name = ".bss" THEN "parse" ELSE step
      /\ elfs' = elfs
  BY DEF AllocAddr
<1> HIDE DEF s, n
<1>3. ASSUME name \in {".text", ".data", ".bss"}, loadAddr \in Nat, fileOff \in Nat
      PROVE  SegOK(s, n, name, loadAddr, fileOff)
  <2> HIDE DEF name
  <2> QED  BY <1>1, <1>3, AllocatedOK DEF s
<1>4. \/ Reached({}, BASE_ADDR, HeaderSize)
      \/ TextPlaced /\ Reached({".text"}, MemEnd(".text"), FileEnd(".text"))
      \/ TextPlaced /\ DataPlaced /\ Reached({".text", ".data"}, MemEnd(".data"), FileEnd(".data"))
  BY <1>2 DEF LinkOK
<1>5. IsSeq(elfs) /\ \A k \in DOMAIN elfs : ElfOK(elfs[k])
  BY DEF LinkOK
<1>6. CASE Reached({}, BASE_ADDR, HeaderSize)
  <2>1. Cardinality(DOMAIN segLists) = 0
    BY <1>6, FS_EmptySet DEF Reached
  <2>2. name = ".text"
    BY <2>1 DEF segNames
  <2>3. SegOK(s, n, ".text", BASE_ADDR, HeaderSize)
    BY <1>3, <1>6, <2>2, HeaderIsNat DEF Reached
  <2>4. DOMAIN segLists' = {".text"} /\ segLists'[".text"] = s /\ step' = "allocate"
        /\ loadAddr' = s.base + s.size /\ fileOff' = s.offset + s.size
    BY <1>2, <1>6, <2>2 DEF Reached
  <2>5. TextPlaced'
    BY <1>2, <2>3, <2>4 DEF TextPlaced, SegAt, n
  <2>6. Reached({".text"}, MemEnd(".text"), FileEnd(".text"))'
    BY <2>4 DEF Reached, MemEnd, FileEnd
  <2> QED  BY <1>2, <1>5, <2>4, <2>5, <2>6 DEF LinkOK, Steps
<1>7. CASE TextPlaced /\ Reached({".text"}, MemEnd(".text"), FileEnd(".text"))
  <2>1. Cardinality(DOMAIN segLists) = 1
    BY <1>7, FS_Singleton DEF Reached
  <2>2. name = ".data"
    BY <2>1 DEF segNames
  <2>3. loadAddr \in Nat /\ fileOff \in Nat
    BY <1>7, SegEnds, HeaderIsNat DEF Reached, TextPlaced, SegAt, MemEnd, FileEnd
  <2>4. SegOK(s, n, ".data", MemEnd(".text"), FileEnd(".text"))
    BY <1>3, <1>7, <2>2, <2>3 DEF Reached
  <2>5. DOMAIN segLists' = {".text", ".data"} /\ segLists'[".data"] = s /\ step' = "allocate"
        /\ segLists'[".text"] = segLists[".text"]
        /\ loadAddr' = s.base + s.size /\ fileOff' = s.offset + s.size
    BY <1>2, <1>7, <2>2 DEF Reached
  <2>6. TextPlaced' /\ DataPlaced'
    BY <1>2, <1>7, <2>4, <2>5 DEF TextPlaced, DataPlaced, SegAt, MemEnd, FileEnd, n
  <2>7. Reached({".text", ".data"}, MemEnd(".data"), FileEnd(".data"))'
    BY <2>5 DEF Reached, MemEnd, FileEnd
  <2> QED  BY <1>2, <1>5, <2>5, <2>6, <2>7 DEF LinkOK, Steps
<1>8. CASE TextPlaced /\ DataPlaced /\ Reached({".text", ".data"}, MemEnd(".data"), FileEnd(".data"))
  <2>1. Cardinality(DOMAIN segLists) = 2
    <3>1. IsFiniteSet({".text"}) /\ Cardinality({".text"}) = 1 /\ ".data" \notin {".text"}
      BY FS_Singleton
    <3>2. Cardinality({".text"} \cup {".data"}) = 2
      BY <3>1, FS_AddElement
    <3>3. {".text"} \cup {".data"} = {".text", ".data"}
      OBVIOUS
    <3> QED  BY <1>8, <3>2, <3>3 DEF Reached
  <2>2. name = ".bss"
    BY <2>1 DEF segNames
  <2>3. MemEnd(".text") \in Nat /\ FileEnd(".text") \in Nat
    BY <1>8, SegEnds, HeaderIsNat DEF TextPlaced, SegAt, MemEnd, FileEnd
  <2>4. loadAddr \in Nat /\ fileOff \in Nat
    <3>1. MemEnd(".data") \in Nat /\ FileEnd(".data") \in Nat
      BY <1>8, <2>3, SegEnds DEF DataPlaced, SegAt, MemEnd, FileEnd
    <3> QED  BY <1>8, <3>1 DEF Reached
  <2>5. SegOK(s, n, ".bss", MemEnd(".data"), FileEnd(".data"))
    BY <1>3, <1>8, <2>2, <2>4 DEF Reached
  <2>6. DOMAIN segLists' = {".text", ".data", ".bss"} /\ segLists'[".bss"] = s /\ step' = "parse"
        /\ segLists'[".text"] = segLists[".text"] /\ segLists'[".data"] = segLists[".data"]
    BY <1>2, <1>8, <2>2 DEF Reached
  <2>7. TextPlaced' /\ DataPlaced' /\ BssPlaced'
    BY <1>2, <1>8, <2>5, <2>6 DEF TextPlaced, DataPlaced, BssPlaced, SegAt, MemEnd, FileEnd, n
  <2> QED  BY <1>2, <1>5, <2>6, <2>7 DEF LinkOK, Steps
<1> QED
  BY <1>4, <1>6, <1>7, <1>8

\* A correction changes bytes of one block, and no length.
SameShape(s, t) ==
    /\ DOMAIN t = SegFields
    /\ \A x \in SegFields \ {"blocks"} : t[x] = s[x]
    /\ IsSeq(t.blocks) /\ Len(t.blocks) = Len(s.blocks)
    /\ \A j \in 1 .. Len(s.blocks) :
          (DOMAIN s.blocks[j] = {"off", "data"} /\ IsSeq(s.blocks[j].data)) =>
          /\ DOMAIN t.blocks[j] = {"off", "data"} /\ t.blocks[j].off = s.blocks[j].off
          /\ IsSeq(t.blocks[j].data) /\ Len(t.blocks[j].data) = Len(s.blocks[j].data)

LEMMA CorrectedShape ==
    ASSUME NEW s, DOMAIN s = SegFields, IsSeq(s.blocks), NEW relAddr, NEW type, NEW symAddr
    PROVE  SameShape(s, Corrected(s, relAddr, type, symAddr))
<1> DEFINE off == relAddr - s.base
           Holds(k) == s.blocks[k].off <= off /\ off < s.blocks[k].off + Len(s.blocks[k].data)
           b == CHOOSE k \in DOMAIN s.blocks : Holds(k) /\ \A j \in 1 .. k - 1 : ~Holds(j)
           at == off - s.blocks[b].off + 1
           word == LittleEndian(IF type = "abs" THEN symAddr
                                ELSE symAddr - relAddr + WordAt(s.blocks[b].data, at))
           d == [k \in DOMAIN s.blocks[b].data |->
                    IF k \in at .. at + 3 THEN word[k - at + 1] ELSE s.blocks[b].data[k]]
           t == Corrected(s, relAddr, type, symAddr)
<1>1. t = [s EXCEPT !.blocks[b].data = d]
  BY DEF Corrected
<1> HIDE DEF off, b, at, word
<1>2. d = [k \in DOMAIN s.blocks[b].data |-> d[k]]
  OBVIOUS
<1> HIDE DEF d, b, t
<1>3. /\ DOMAIN t = SegFields /\ \A x \in SegFields \ {"blocks"} : t[x] = s[x]
      /\ t.blocks = [s.blocks EXCEPT ![b].data = d]
  BY <1>1 DEF SegFields
<1>4. DOMAIN s.blocks = 1 .. Len(s.blocks) /\ Len(s.blocks) \in Nat
      /\ s.blocks = [j \in 1 .. Len(s.blocks) |-> s.blocks[j]]
  BY SeqFacts
<1>5. t.blocks = [j \in 1 .. Len(s.blocks) |-> t.blocks[j]]
  BY <1>3, <1>4
<1>6. IsSeq(t.blocks) /\ Len(t.blocks) = Len(s.blocks)
  BY <1>4, <1>5, SeqMade
<1>7. ASSUME NEW j \in 1 .. Len(s.blocks), DOMAIN s.blocks[j] = {"off", "data"}, IsSeq(s.blocks[j].data)
      PROVE  /\ DOMAIN t.blocks[j] = {"off", "data"} /\ t.blocks[j].off = s.blocks[j].off
             /\ IsSeq(t.blocks[j].data) /\ Len(t.blocks[j].data) = Len(s.blocks[j].data)
  <2>1. CASE j = b
    <3>2. DOMAIN t.blocks[j] = {"off", "data"} /\ t.blocks[j].off = s.blocks[j].off /\ t.blocks[j].data = d
      BY <1>3, <1>4, <1>7, <2>1
    <3>3. DOMAIN s.blocks[b].data = 1 .. Len(s.blocks[b].data) /\ Len(s.blocks[b].data) \in Nat
      BY <1>7, <2>1, SeqFacts
    <3>4. d = [k \in 1 .. Len(s.blocks[b].data) |-> d[k]]
      BY <1>2, <3>3
    <3> QED  BY <2>1, <3>2, <3>3, <3>4, SeqMade
  <2>2. CASE j # b
    <3>1. t.blocks[j] = s.blocks[j]
      BY <1>3, <1>4, <2>2
    <3> QED  BY <1>7, <3>1
  <2> QED  BY <2>1, <2>2
<1> QED
  BY <1>3, <1>6, <1>7 DEF SameShape, t

LEMMA CorrectedOK ==
    ASSUME NEW s, NEW k, NEW name, NEW base, NEW off, SegOK(s, k, name, base, off),
           NEW relAddr, NEW type, NEW symAddr
    PROVE  SegOK(Corrected(s, relAddr, type, symAddr), k, name, base, off)
<1> DEFINE t == Corrected(s, relAddr, type, symAddr)
<1>1. DOMAIN s = SegFields
  BY DEF SegOK
<1>2. IsSeq(s.blocks)
  <2>1. IsSeq(<< >>)
    <3>1. << >> \in Seq({})
      OBVIOUS
    <3> QED  BY <3>1 DEF IsSeq
  <2> QED  BY <2>1 DEF SegOK, Chain
<1>3. /\ DOMAIN t = SegFields
      /\ \A x \in SegFields \ {"blocks"} : t[x] = s[x]
      /\ IsSeq(t.blocks) /\ Len(t.blocks) = Len(s.blocks)
      /\ \A j \in 1 .. Len(s.blocks) :
            (DOMAIN s.blocks[j] = {"off", "data"} /\ IsSeq(s.blocks[j].data)) =>
            /\ DOMAIN t.blocks[j] = {"off", "data"} /\ t.blocks[j].off = s.blocks[j].off
            /\ IsSeq(t.blocks[j].data) /\ Len(t.blocks[j].data) = Len(s.blocks[j].data)
  BY <1>1, <1>2, CorrectedShape DEF SameShape
<1> HIDE DEF t
<1>4. t.begin = s.begin /\ t.base = s.base /\ t.offset = s.offset /\ t.size = s.size
  BY <1>3 DEF SegFields
<1>5. ASSUME name = ".bss"  PROVE SegOK(t, k, name, base, off)
  <2>1. Len(t.blocks) = 0
    BY <1>3, <1>5 DEF SegOK
  <2>2. t.blocks = << >>
    BY <1>3, <2>1 DEF IsSeq
  <2> QED  BY <1>3, <1>4, <1>5, <2>2 DEF SegOK
<1>6. ASSUME name # ".bss"  PROVE SegOK(t, k, name, base, off)
  <2>1. Chain(s.blocks, k, s.size)
    BY <1>6 DEF SegOK
  <2>2. Len(s.blocks) = k /\ k \in Nat /\ \A j \in 1 .. k : BlockOK(s.blocks, j)
    BY <1>2, <2>1, SeqFacts DEF Chain
  <2>3. \A j \in 1 .. k : /\ DOMAIN t.blocks[j] = {"off", "data"} /\ t.blocks[j].off = s.blocks[j].off
                          /\ IsSeq(t.blocks[j].data) /\ Len(t.blocks[j].data) = Len(s.blocks[j].data)
    BY <1>3, <2>2 DEF BlockOK
  <2>4. \A j \in 0 .. k : BlockEnd(t.blocks, j) = BlockEnd(s.blocks, j)
    <3> SUFFICES ASSUME NEW j \in 0 .. k  PROVE BlockEnd(t.blocks, j) = BlockEnd(s.blocks, j)
      OBVIOUS
    <3>1. j # 0 => j \in 1 .. k
      OBVIOUS
    <3> QED  BY <2>3, <3>1 DEF BlockEnd
  <2>5. ASSUME NEW j \in 1 .. k  PROVE BlockOK(t.blocks, j)
    <3>1. j - 1 \in 0 .. k
      BY <2>2
    <3> QED  BY <2>2, <2>3, <2>4, <3>1 DEF BlockOK
  <2>6. BlockEnd(t.blocks, k) = s.size
    <3>1. k \in 0 .. k
      BY <2>2
    <3> QED  BY <2>1, <2>4, <3>1 DEF Chain
  <2>7. Chain(t.blocks, k, t.size)
    BY <1>3, <1>4, <2>2, <2>5, <2>6 DEF Chain
  <2> QED  BY <1>3, <1>4, <1>6, <2>7 DEF SegOK
<1> QED
  BY <1>5, <1>6 DEF t

LEMMA IdleOK == Idle => LinkOK
<1> SUFFICES ASSUME Idle  PROVE LinkOK
  OBVIOUS
<1>1. elfs = << >> /\ step = "read" /\ DOMAIN segLists = {} /\ loadAddr = BASE_ADDR /\ fileOff = HeaderSize
  BY DEF Idle
<1>2. IsSeq(elfs) /\ DOMAIN elfs = {}
  <2>1. << >> \in Seq({}) /\ DOMAIN << >> = {}
    OBVIOUS
  <2> QED  BY <1>1, <2>1 DEF IsSeq
<1> QED
  BY <1>1, <1>2 DEF LinkOK, Steps, Reached

LEMMA LinkUnchanged ==
    ASSUME LinkOK, UNCHANGED linkVars
    PROVE  LinkOK'
BY DEF LinkOK, linkVars, Steps, Reached, TextPlaced, DataPlaced, BssPlaced, SegAt, MemEnd, FileEnd, Phdrs

LEMMA AddElfOK ==
    ASSUME LinkOK, NEW elf, ElfOK(elf), AddElf(elf)
    PROVE  LinkOK'
<1>1. step = "read" /\ elfs' = Append(elfs, elf) /\ step' = step
      /\ segLists' = segLists /\ loadAddr' = loadAddr /\ fileOff' = fileOff
  BY DEF AddElf, Restful
<1>2. IsSeq(elfs) /\ Reached({}, BASE_ADDR, HeaderSize)
  BY <1>1 DEF LinkOK
<1>3. /\ IsSeq(elfs') /\ Len(elfs') = Len(elfs) + 1 /\ elfs'[Len(elfs) + 1] = elf
      /\ \A k \in 1 .. Len(elfs) : elfs'[k] = elfs[k]
  BY <1>1, <1>2, SeqAppend
<1>4. DOMAIN elfs = 1 .. Len(elfs) /\ Len(elfs) \in Nat /\ DOMAIN elfs' = 1 .. Len(elfs')
  BY <1>2, <1>3, SeqFacts
<1>5. \A k \in DOMAIN elfs' : ElfOK(elfs'[k])
  <2> SUFFICES ASSUME NEW k \in DOMAIN elfs'  PROVE ElfOK(elfs'[k])
    OBVIOUS
  <2>1. k \in DOMAIN elfs \/ k = Len(elfs) + 1
    BY <1>3, <1>4
  <2> QED  BY <1>3, <1>4, <2>1 DEF LinkOK
<1>6. Reached({}, BASE_ADDR, HeaderSize)'
  BY <1>1, <1>2 DEF Reached
<1> QED
  BY <1>1, <1>3, <1>5, <1>6 DEF LinkOK, Steps

\* A section keeps its place when it is corrected.
LEMMA RelocateOK ==
    ASSUME LinkOK, Relocate
    PROVE  LinkOK'
<1> DEFINE e == Head(todo)
           name == e.rel.seg
           s == segLists[name]
<1>1. /\ step = "relocate" /\ step' = step /\ elfs' = elfs
      /\ \E a, b, c : segLists' = [segLists EXCEPT ![name] = Corrected(s, a, b, c)]
  BY DEF Relocate
<1>2. /\ IsSeq(elfs) /\ \A k \in DOMAIN elfs : ElfOK(elfs[k])
      /\ DOMAIN segLists = {".text", ".data", ".bss"} /\ TextPlaced /\ DataPlaced /\ BssPlaced
  BY <1>1 DEF LinkOK
<1> HIDE DEF name
<1>3. PICK a, b, c : segLists' = [segLists EXCEPT ![name] = Corrected(s, a, b, c)]
  BY <1>1
<1>4. ASSUME NEW n \in DOMAIN segLists, NEW base, NEW off, SegAt(n, base, off)
      PROVE  /\ SegOK(segLists'[n], Len(elfs'), n, base, off)
             /\ MemEnd(n)' = MemEnd(n) /\ FileEnd(n)' = FileEnd(n)
  <2>1. SegOK(segLists[n], Len(elfs), n, base, off)
    BY <1>4 DEF SegAt
  <2>2. segLists'[n] = IF n = name THEN Corrected(segLists[n], a, b, c) ELSE segLists[n]
    BY <1>3
  <2>3. SegOK(segLists'[n], Len(elfs), n, base, off)
    BY <2>1, <2>2, CorrectedOK
  <2>4. segLists'[n].base = segLists[n].base /\ segLists'[n].offset = segLists[n].offset
        /\ segLists'[n].size = segLists[n].size
    <3>1. DOMAIN segLists[n] = SegFields
      BY <2>1 DEF SegOK
    <3>2. DOMAIN Corrected(segLists[n], a, b, c) = SegFields
          /\ Corrected(segLists[n], a, b, c).base = segLists[n].base
          /\ Corrected(segLists[n], a, b, c).offset = segLists[n].offset
          /\ Corrected(segLists[n], a, b, c).size = segLists[n].size
      <4> USE <3>1 DEF SegFields
      <4> QED  BY DEF Corrected
    <3> QED  BY <2>2, <3>2
  <2> QED  BY <1>1, <2>3, <2>4 DEF SegAt, MemEnd, FileEnd
<1>5. TextPlaced' /\ MemEnd(".text")' = MemEnd(".text") /\ FileEnd(".text")' = FileEnd(".text")
  BY <1>2, <1>4 DEF TextPlaced, SegAt
<1>6. SegOK(segLists'[".data"], Len(elfs'), ".data", MemEnd(".text"), FileEnd(".text"))
      /\ MemEnd(".data")' = MemEnd(".data") /\ FileEnd(".data")' = FileEnd(".data")
  BY <1>2, <1>4 DEF DataPlaced, SegAt
<1>7. SegOK(segLists'[".bss"], Len(elfs'), ".bss", MemEnd(".data"), FileEnd(".data"))
  BY <1>2, <1>4 DEF BssPlaced, SegAt
<1>8. DataPlaced' /\ BssPlaced'
  BY <1>5, <1>6, <1>7 DEF DataPlaced, BssPlaced, SegAt
<1>9. DOMAIN segLists' = {".text", ".data", ".bss"}
  BY <1>2, <1>3
<1> QED
  BY <1>1, <1>2, <1>5, <1>8, <1>9 DEF LinkOK, Steps

LEMMA LinkSteps ==
    ASSUME LinkOK, LinkNext
    PROVE  LinkOK'
<1>1. CASE CollectInfo
  <2>1. step = "read" /\ step' = "validate" /\ elfs' = elfs
        /\ segLists' = segLists /\ loadAddr' = loadAddr /\ fileOff' = fileOff
    BY <1>1 DEF CollectInfo, Restful
  <2> QED  BY <2>1 DEF LinkOK, Steps, Reached
<1>2. CASE Validate
  <2>1. step = "validate" /\ step' \in {"allocate", "refused"} /\ elfs' = elfs
        /\ segLists' = segLists /\ loadAddr' = loadAddr /\ fileOff' = fileOff
    BY <1>2 DEF Validate, Restful
  <2> QED  BY <2>1 DEF LinkOK, Steps, Reached
<1>3. CASE AllocAddr
  BY <1>3, AllocAddrStep
<1>4. CASE SymParser
  <2>1. step = "parse" /\ step' = "relocate" /\ elfs' = elfs /\ segLists' = segLists
    BY <1>4 DEF SymParser
  <2> QED  BY <2>1 DEF LinkOK, Steps, TextPlaced, DataPlaced, BssPlaced, SegAt, MemEnd, FileEnd
<1>5. CASE Relocate
  BY <1>5, RelocateOK
<1>6. CASE AssemExe
  <2>1. step = "relocate" /\ step' = "linked" /\ elfs' = elfs /\ segLists' = segLists
        /\ exe'.phdrs = Phdrs
    BY <1>6 DEF AssemExe, Phdrs
  <2> QED
    BY <2>1 DEF LinkOK, Steps, TextPlaced, DataPlaced, BssPlaced, SegAt, MemEnd, FileEnd, Phdrs
<1> QED
  BY <1>1, <1>2, <1>3, <1>4, <1>5, <1>6 DEF LinkNext

-----------------------------------------------------------------------------
(* The places of the segments. *)

LEMMA LinkedApart ==
    ASSUME LinkOK
    PROVE  SegmentsApart
<1> SUFFICES ASSUME step = "linked"  PROVE SegmentsApart
  BY DEF SegmentsApart
<1> DEFINE t == segLists[".text"]
           d == segLists[".data"]
           b == segLists[".bss"]
<1>1. /\ SegOK(t, Len(elfs), ".text", BASE_ADDR, HeaderSize)
      /\ SegOK(d, Len(elfs), ".data", t.base + t.size, t.offset + t.size)
      /\ SegOK(b, Len(elfs), ".bss", d.base + d.size, d.offset + d.size)
      /\ exe.phdrs = Phdrs
  BY DEF LinkOK, TextPlaced, DataPlaced, BssPlaced, SegAt, MemEnd, FileEnd
<1>2. /\ exe.phdrs[1] = [offset |-> t.offset, vaddr |-> t.base, memsz |-> t.size, filesz |-> t.size]
      /\ exe.phdrs[2] = [offset |-> d.offset, vaddr |-> d.base, memsz |-> d.size, filesz |-> d.size]
      /\ exe.phdrs[3] = [offset |-> b.offset, vaddr |-> b.base, memsz |-> b.size, filesz |-> 0]
  BY <1>1 DEF Phdrs, segNames
<1> HIDE DEF t, d, b
<1>3. /\ t.base \in Nat /\ t.offset \in Nat /\ t.size \in Nat
      /\ t.base + t.size \in Nat /\ t.offset + t.size \in Nat
  BY <1>1, SegEnds, HeaderIsNat
<1>4. /\ d.base \in Nat /\ d.offset \in Nat /\ d.size \in Nat
      /\ d.base + d.size \in Nat /\ d.offset + d.size \in Nat
  BY <1>1, <1>3, SegEnds
<1>5. b.base \in Nat /\ b.offset \in Nat
  BY <1>1, <1>4, SegEnds
<1>6. t.base % M = t.offset % M
  BY <1>1, PagesApart, HeaderIsNat DEF SegOK
<1> DEFINE te == t.base + t.size
           to == t.offset + t.size
           de == d.base + d.size
           do == d.offset + d.size
           page == Aligned(te, M)
<1>7. /\ te <= page /\ page <= d.base /\ page \in Nat /\ page % M = 0
      /\ te # 0 => (te - 1) \div M < d.base \div M
      /\ d.base % M = d.offset % M
  <2>1. te \in Nat /\ to \in Nat /\ d.base = AddrOf(".data", te, to) /\ d.offset = StartOf(".data", to)
    BY <1>1, <1>3 DEF SegOK
  <2> HIDE DEF te, to
  <2>2. te <= page /\ page \in Nat /\ page % M = 0
    BY <2>1, AlignedTo
  <2> HIDE DEF page
  <2>3. /\ page <= d.base /\ d.base % M = d.offset % M
        /\ te # 0 => (te - 1) \div M < d.base \div M
    BY <2>1, PagesApart DEF page
  <2> QED  BY <2>2, <2>3
<1>8. de % M = do % M
  <2>1. d.base \in Int /\ d.offset \in Int /\ d.size \in Int
    BY <1>4
  <2> QED  BY <1>7, <2>1, SameShift
<1>9. page <= de
  <2>1. \A x, y, z \in Nat : x <= y => x <= y + z
    OBVIOUS
  <2> HIDE DEF page
  <2> QED  BY <1>4, <1>7, <2>1
<1>10. /\ b.base % M = b.offset % M /\ page <= b.base
       /\ do % M <= Aligned(do, DISC_ALIGN) % M => de <= b.base
  <2>1. de \in Nat /\ do \in Nat /\ b.base = AddrOf(".bss", de, do) /\ b.offset = StartOf(".bss", do)
    BY <1>1, <1>4 DEF SegOK
  <2> HIDE DEF de, do, page
  <2> QED  BY <1>7, <1>8, <1>9, <2>1, BssPlace
<1>11. te <= d.base /\ te <= b.base
  <2> HIDE DEF page, te
  <2>1. \A x, y, z \in Nat : x <= y /\ y <= z => x <= z
    OBVIOUS
  <2>2. te \in Nat
    BY <1>3 DEF te
  <2> QED  BY <1>4, <1>5, <1>7, <1>10, <2>1, <2>2
<1>12. ~ BssCrosses => de <= b.base
  <2>1. BssCrosses <=> Aligned(do, DISC_ALIGN) % M < do % M
    BY <1>2 DEF BssCrosses, M
  <2>2. do % M \in Int /\ Aligned(do, DISC_ALIGN) % M \in Int
    <3>1. do \in Nat /\ Aligned(do, DISC_ALIGN) \in Nat
      BY <1>4, AlignedTo DEF DISC_ALIGN
    <3> HIDE DEF do
    <3> QED  BY <3>1, PageSize
  <2> HIDE DEF do, de
  <2>3. \A x, y \in Int : ~ (x < y) => y <= x
    OBVIOUS
  <2> QED  BY <1>10, <2>1, <2>2, <2>3
<1>13. t.size # 0 => (te - 1) \div M < d.base \div M
  <2>1. t.size # 0 => te # 0
    BY <1>3
  <2> QED  BY <1>7, <2>1
<1>14. \A k \in 1 .. 3 : exe.phdrs[k].vaddr % MEM_ALIGN = exe.phdrs[k].offset % MEM_ALIGN
  <2> SUFFICES ASSUME NEW k \in 1 .. 3
               PROVE  exe.phdrs[k].vaddr % MEM_ALIGN = exe.phdrs[k].offset % MEM_ALIGN
    OBVIOUS
  <2>1. k = 1 \/ k = 2 \/ k = 3
    OBVIOUS
  <2> QED  BY <1>2, <1>6, <1>7, <1>10, <2>1 DEF M
<1> QED
  BY <1>2, <1>11, <1>12, <1>13, <1>14 DEF SegmentsApart, Ends, M

-----------------------------------------------------------------------------
(* The size of an instruction: it does not depend on the addresses that the *)
(* symbols have, so both passes reach the same places.                      *)

LEMMA Tuples ==
    /\ IsSeq(<< >>) /\ Len(<< >>) = 0
    /\ \A a : IsSeq(<< a >>) /\ Len(<< a >>) = 1
    /\ \A a, b : IsSeq(<< a, b >>) /\ Len(<< a, b >>) = 2
<1>1. << >> \in Seq({}) /\ Len(<< >>) = 0
  OBVIOUS
<1>2. \A a : << a >> \in Seq({a}) /\ Len(<< a >>) = 1
  OBVIOUS
<1>3. \A a, b : << a, b >> \in Seq({a, b}) /\ Len(<< a, b >>) = 2
  OBVIOUS
<1> QED
  BY <1>1, <1>2, <1>3 DEF IsSeq

LEMMA BytesLong ==
    ASSUME NEW n, NEW k \in Nat
    PROVE  IsSeq(Bytes(n, k)) /\ Len(Bytes(n, k)) = k
<1>1. Bytes(n, k) = [j \in 1 .. k |-> Bytes(n, k)[j]]
  BY DEF Bytes
<1> QED
  BY <1>1, SeqMade

ParseFields == {"mod", "reg", "rm", "sib", "disp", "imm", "len", "regs", "kinds", "sym"}

\* What has been parsed of an instruction.
ParseOK(p) ==
    /\ DOMAIN p = ParseFields
    /\ p.mod \in {-1, 0, 1, 2, 3} /\ p.len \in {0, 1, 2, 4}
    /\ IsSeq(p.sib) /\ IsSeq(p.disp)

\* The same with other addresses.
SameForm(p, q) ==
    /\ p.mod = q.mod /\ p.reg = q.reg /\ p.rm = q.rm /\ p.sib = q.sib /\ p.len = q.len
    /\ p.regs = q.regs /\ p.kinds = q.kinds
    /\ Len(p.disp) = Len(q.disp)

LEMMA MemoryForm ==
    ASSUME NEW p, NEW q, ParseOK(p), ParseOK(q), SameForm(p, q),
           NEW o \in Operands, o.is = "mem", NEW adr, NEW other
    PROVE  ParseOK(Memory(p, o, adr)) /\ ParseOK(Memory(q, o, other))
           /\ SameForm(Memory(p, o, adr), Memory(q, o, other))
<1>1. \A n : \A k \in Nat : IsSeq(Bytes(n, k)) /\ Len(Bytes(n, k)) = k
  BY BytesLong
<1>2. \A a, b, c : IsSeq(Fields(a, b, c))
  BY Tuples DEF Fields
<1>0. \A n : IsSeq(Bytes(n, 4)) /\ Len(Bytes(n, 4)) = 4
  BY <1>1
<1>3. o.by \in {"sym", "num", "reg", "disp", "index"}
  BY DEF Operands
<1> USE DEF ParseOK, ParseFields, SameForm
<1>4. CASE o.by = "sym"
  <2> DEFINE name == o.name
             a == Bytes(adr[name], 4)
             b == Bytes(other[name], 4)
  <2>1. IsSeq(a) /\ IsSeq(b) /\ Len(a) = 4 /\ Len(b) = 4
    BY <1>0
  <2>2. /\ Memory(p, o, adr) = [p EXCEPT !.mod = 0, !.rm = EBP, !.disp = a, !.sym = name]
        /\ Memory(q, o, other) = [q EXCEPT !.mod = 0, !.rm = EBP, !.disp = b, !.sym = name]
    BY <1>4 DEF Memory
  <2> HIDE DEF a, b, name
  <2>3. ParseOK(Memory(p, o, adr))
    BY <2>1, <2>2
  <2>4. ParseOK(Memory(q, o, other))
    BY <2>1, <2>2
  <2>5. SameForm(Memory(p, o, adr), Memory(q, o, other))
    <3> DEFINE r == Memory(p, o, adr)
               s == Memory(q, o, other)
    <3>1. /\ r.mod = 0 /\ r.rm = EBP /\ r.disp = a
          /\ r.reg = p.reg /\ r.sib = p.sib /\ r.len = p.len /\ r.regs = p.regs /\ r.kinds = p.kinds
      BY <2>2
    <3>2. /\ s.mod = 0 /\ s.rm = EBP /\ s.disp = b
          /\ s.reg = q.reg /\ s.sib = q.sib /\ s.len = q.len /\ s.regs = q.regs /\ s.kinds = q.kinds
      BY <2>2
    <3> HIDE DEF r, s
    <3>3. SameForm(r, s)
      BY <2>1, <3>1, <3>2
    <3> QED  BY <3>3 DEF r, s
  <2> QED  BY <2>3, <2>4, <2>5
<1>5. CASE o.by = "num"
  BY <1>1, <1>5 DEF Memory
<1>6. CASE o.by = "reg" /\ o.code = EBP
  BY <1>1, <1>2, <1>6 DEF Memory, Based
<1>7. CASE o.by = "reg" /\ o.code # EBP
  BY <1>1, <1>2, <1>7 DEF Memory, Based
<1>8. CASE o.by = "disp"
  BY <1>1, <1>2, <1>8 DEF Memory, Based
<1>9. CASE o.by = "index"
  BY <1>1, <1>2, <1>9 DEF Memory
<1> QED
  BY <1>3, <1>4, <1>5, <1>6, <1>7, <1>8, <1>9

LEMMA OperandForm ==
    ASSUME NEW p, NEW q, ParseOK(p), ParseOK(q), SameForm(p, q),
           NEW o \in Operands, NEW adr, NEW other
    PROVE  ParseOK(Operand(p, o, adr)) /\ ParseOK(Operand(q, o, other))
           /\ SameForm(Operand(p, o, adr), Operand(q, o, other))
<1>1. o.is \in {"reg", "imm", "sym", "mem"} /\ (o.is = "reg" => o.size \in {1, 2, 4})
  BY DEF Operands
<1>2. CASE o.is = "mem"
  <2>1. ParseOK(Memory(p, o, adr)) /\ ParseOK(Memory(q, o, other))
        /\ SameForm(Memory(p, o, adr), Memory(q, o, other))
    BY <1>2, MemoryForm
  <2> QED  BY <1>2, <2>1 DEF Operand, ParseOK, ParseFields, SameForm
<1> USE DEF ParseOK, ParseFields, SameForm
<1>3. CASE o.is = "imm"
  BY <1>3 DEF Operand
<1>4. CASE o.is = "sym"
  BY <1>4 DEF Operand
<1>5. CASE o.is = "reg"
  BY <1>1, <1>5 DEF Operand
<1> QED
  BY <1>1, <1>2, <1>3, <1>4, <1>5

\* The operands of an instruction, whatever the addresses.
LEMMA ParseGoes ==
    ASSUME NEW i, NEW adr, NEW n \in Nat, DOMAIN i.args = 1 .. n
    PROVE  \E r : Goes(r, "parse", adr, Blank, n, i.args, Parse(i, adr))
<1> DEFINE f == i.args
           P(g) == g = [s \in SUBSET (1 .. n) |-> IF s = {} THEN Blank
                           ELSE Operand(g[s \ {Max(s)}], f[Max(s)], adr)]
<1>1. \A v, x : FoldStep("parse", adr, v, x) = Operand(v, x, adr)
  BY DEF FoldStep
<1>2. \A g : P(g) <=> IsFold(g, "parse", adr, Blank, n, f)
  BY <1>1 DEF IsFold
<1>3. \E g : P(g)
  <2> HIDE DEF P
  <2> QED  BY <1>2, FoldExists
<1>4. Parse(i, adr) = (CHOOSE g : P(g))[1 .. n]
  BY DEF Parse, FoldLeft, MapThenFoldSet
<1> HIDE DEF P, f
<1>5. PICK g : P(g) /\ Parse(i, adr) = g[1 .. n]
  BY <1>3, <1>4
<1>6. IsFold(g, "parse", adr, Blank, n, f)
  BY <1>2, <1>5
<1>7. \E r : Goes(r, "parse", adr, Blank, n, f, g[1 .. n])
  BY <1>6, FoldGoes
<1> QED
  BY <1>5, <1>7 DEF f

LEMMA ParseForm ==
    ASSUME NEW i, i.args \in Seq(Operands), NEW adr, NEW other
    PROVE  /\ ParseOK(Parse(i, adr)) /\ ParseOK(Parse(i, other))
           /\ SameForm(Parse(i, adr), Parse(i, other))
<1> DEFINE n == Len(i.args)
<1>1. n \in Nat /\ DOMAIN i.args = 1 .. n /\ \A k \in 1 .. n : i.args[k] \in Operands
  OBVIOUS
<1> HIDE DEF n
<1>2. PICK r : Goes(r, "parse", adr, Blank, n, i.args, Parse(i, adr))
  BY <1>1, ParseGoes
<1>3. PICK s : Goes(s, "parse", other, Blank, n, i.args, Parse(i, other))
  BY <1>1, ParseGoes
<1> DEFINE Alike(k) == ParseOK(r[k]) /\ ParseOK(s[k]) /\ SameForm(r[k], s[k])
           S == {k \in Nat : k <= n => Alike(k)}
<1>4. \A k \in 1 .. n : r[k] = Operand(r[k - 1], i.args[k], adr) /\ s[k] = Operand(s[k - 1], i.args[k], other)
  <2>1. \A e, v, x : FoldStep("parse", e, v, x) = Operand(v, x, e)
    BY DEF FoldStep
  <2> QED  BY <1>2, <1>3, <2>1 DEF Goes
<1>5. 0 \in S
  <2>1. r[0] = Blank /\ s[0] = Blank
    BY <1>2, <1>3 DEF Goes
  <2>2. ParseOK(Blank) /\ SameForm(Blank, Blank)
    BY Tuples DEF Blank, ParseOK, ParseFields, SameForm
  <2> QED  BY <2>1, <2>2
<1>6. ASSUME NEW k \in S  PROVE k + 1 \in S
  <2>1. k \in Nat /\ k + 1 \in Nat
    BY <1>6
  <2>2. ASSUME k + 1 <= n  PROVE Alike(k + 1)
    <3>1. k + 1 \in 1 .. n /\ k + 1 - 1 = k /\ k <= n
      BY <1>1, <2>1, <2>2
    <3>2. Alike(k)
      BY <1>6, <3>1
    <3>3. r[k + 1] = Operand(r[k], i.args[k + 1], adr) /\ s[k + 1] = Operand(s[k], i.args[k + 1], other)
      BY <1>4, <3>1
    <3>4. i.args[k + 1] \in Operands
      BY <1>1, <3>1
    <3> HIDE DEF S
    <3> QED  BY <3>2, <3>3, <3>4, OperandForm
  <2> QED  BY <2>1, <2>2
<1>7. n \in S
  <2>1. S = Nat
    <3>1. S \in SUBSET Nat
      OBVIOUS
    <3> HIDE DEF S
    <3> QED  BY <1>5, <1>6, <3>1, Induction
  <2> QED  BY <1>1, <2>1
<1>8. Alike(n)
  BY <1>1, <1>7
<1> QED
  BY <1>2, <1>3, <1>8 DEF Goes

\* The code of an instruction, and that its size is the same.
CodeOK(c) == IsSeq(c.head) /\ IsSeq(c.field) /\ (c.kind = "pc" => Len(c.field) = 4)
SameSize(c, d) == Len(c.head) = Len(d.head) /\ Len(c.field) = Len(d.field)

LEMMA Gen2opForm ==
    ASSUME NEW op \in DOMAIN Opcodes, NEW p, NEW q, ParseOK(p), ParseOK(q), SameForm(p, q)
    PROVE  CodeOK(Gen2op(op, p)) /\ SameSize(Gen2op(op, p), Gen2op(op, q))
<1> DEFINE form == IF p.kinds[2] = Immediate THEN 4 ELSE (p.kinds[1] - 2) * 2 + p.kinds[2] - 1
           opcode == Opcodes[op][(1 - (p.len % 2)) * 4 + form]
           start == Prefix(p.len) \o << opcode >>
           imm == Bytes(p.imm, p.len)
           other == Bytes(q.imm, p.len)
           mov == Prefix(p.len) \o << opcode + p.reg >>
           rest == start \o Fields(3, RegCode[op], p.reg)
           mem == start \o ModRM(p)
           sib == mem \o p.sib
           Made(x, i) == CASE x.mod = -1 /\ op = "mov" -> Code(mov, "abs", i)
                           [] x.mod = -1 /\ op # "mov" -> Code(rest, "abs", i)
                           [] x.mod = 0 /\ x.rm = EBP -> Code(mem, "abs", x.disp)
                           [] x.mod = 0 /\ x.rm # EBP -> Plain(sib)
                           [] x.mod \in {1, 2} -> Plain(sib \o x.disp)
                           [] x.mod = 3 -> Plain(mem)
<1>1. Gen2op(op, p) = Made(p, imm)
  BY DEF Gen2op
<1>2. Gen2op(op, q) = Made(q, other)
  BY DEF Gen2op, SameForm, ModRM
<1>3. IsSeq(imm) /\ IsSeq(other) /\ Len(imm) = Len(other)
  <2>1. p.len \in Nat
    BY DEF ParseOK
  <2> QED  BY <2>1, BytesLong
<1>4. IsSeq(start) /\ IsSeq(mov)
  <2>1. IsSeq(Prefix(p.len))
    BY Tuples DEF Prefix
  <2> HIDE DEF opcode
  <2> QED  BY <2>1, Tuples, SeqConcat
<1>5. IsSeq(rest) /\ IsSeq(mem) /\ IsSeq(sib)
  <2> HIDE DEF start
  <2>1. \A a, b, c : IsSeq(Fields(a, b, c))
    BY Tuples DEF Fields
  <2>2. IsSeq(rest) /\ IsSeq(mem)
    BY <1>4, <2>1, SeqConcat DEF ModRM
  <2> HIDE DEF mem
  <2> QED  BY <2>2, SeqConcat DEF ParseOK
<1>6. IsSeq(<< >>) /\ Len(<< >>) = 0
  BY Tuples
<1> HIDE DEF imm, other, mov, rest, mem, sib
<1>7. IsSeq(sib \o p.disp) /\ Len(sib \o p.disp) = Len(sib \o q.disp)
  BY <1>5, SeqConcat DEF ParseOK, SameForm
<1>8. p.mod = q.mod /\ p.rm = q.rm /\ IsSeq(p.disp) /\ Len(p.disp) = Len(q.disp)
      /\ p.mod \in {-1, 0, 1, 2, 3}
  BY DEF ParseOK, SameForm
<1> USE DEF CodeOK, SameSize, Code, Plain
<1>9. CASE p.mod = -1 /\ op = "mov"
  BY <1>1, <1>2, <1>3, <1>4, <1>8, <1>9
<1>10. CASE p.mod = -1 /\ op # "mov"
  BY <1>1, <1>2, <1>3, <1>5, <1>8, <1>10
<1>11. CASE p.mod = 0 /\ p.rm = EBP
  BY <1>1, <1>2, <1>5, <1>8, <1>11
<1>12. CASE p.mod = 0 /\ p.rm # EBP
  BY <1>1, <1>2, <1>5, <1>6, <1>8, <1>12
<1>13. CASE p.mod \in {1, 2}
  BY <1>1, <1>2, <1>6, <1>7, <1>8, <1>13
<1>14. CASE p.mod = 3
  BY <1>1, <1>2, <1>5, <1>6, <1>8, <1>14
<1> QED
  BY <1>8, <1>9, <1>10, <1>11, <1>12, <1>13, <1>14

LEMMA Gen1opForm ==
    ASSUME NEW op \in Operations \ DOMAIN Opcodes, NEW p, NEW q, ParseOK(p), ParseOK(q), SameForm(p, q)
    PROVE  CodeOK(Gen1op(op, p)) /\ SameSize(Gen1op(op, p), Gen1op(op, q))
<1> DEFINE pre == Prefix(p.len)
<1>1. /\ p.len = q.len /\ p.reg = q.reg /\ p.kinds = q.kinds
  BY DEF SameForm
<1>2. IsSeq(pre)
  BY Tuples DEF Prefix
<1>3. /\ IsSeq(<< >>) /\ Len(<< >>) = 0
      /\ \A a : IsSeq(<< a >>) /\ Len(<< a >>) = 1
      /\ \A a, b : IsSeq(<< a, b >>) /\ Len(<< a, b >>) = 2
  BY Tuples
<1>4. \A n : IsSeq(Bytes(n, 4)) /\ Len(Bytes(n, 4)) = 4 /\ IsSeq(Bytes(n, 1)) /\ Len(Bytes(n, 1)) = 1
  BY BytesLong
<1>5. \A s, t : IsSeq(s) /\ IsSeq(t) => IsSeq(s \o t) /\ Len(s \o t) = Len(s) + Len(t)
  BY SeqConcat
<1> DEFINE Fixed(head) == IsSeq(head) => CodeOK(Plain(head)) /\ SameSize(Plain(head), Plain(head))
<1>6. \A head : Fixed(head)
  BY <1>3 DEF CodeOK, SameSize, Plain, Code
<1>7. \A head : IsSeq(head) => CodeOK(Code(head, "pc", Bytes(0, 4)))
                               /\ SameSize(Code(head, "pc", Bytes(0, 4)), Code(head, "pc", Bytes(0, 4)))
  BY <1>4 DEF CodeOK, SameSize, Code
<1> DEFINE Others == {"call", "jmp", "int", "push", "pop", "inc", "dec", "neg", "imul", "idiv", "ret"}
<1>8. op \in Others
      \/ op \in DOMAIN Jumps \/ op \in DOMAIN Sets
  BY DEF Operations
<1>9. \A j \in DOMAIN Jumps : j \notin Others \cup DOMAIN Sets
  BY DEF Jumps, Sets
<1>10. \A j \in DOMAIN Sets : j \notin Others
  BY DEF Sets
<1> HIDE DEF Fixed
<1>11. CASE op \in {"call", "jmp"}
  <2>1. PICK head : IsSeq(head) /\ Gen1op(op, p) = Code(head, "pc", Bytes(0, 4))
                    /\ Gen1op(op, q) = Code(head, "pc", Bytes(0, 4))
    <3>0. op \notin DOMAIN Jumps /\ op \notin DOMAIN Sets
      BY <1>9, <1>10, <1>11
    <3>1. CASE op = "call"
      BY <1>3, <3>0, <3>1 DEF Gen1op
    <3>2. CASE op = "jmp"
      BY <1>3, <3>0, <3>2 DEF Gen1op
    <3> QED  BY <1>11, <3>1, <3>2
  <2> QED  BY <1>7, <2>1
<1>12. CASE op \in DOMAIN Jumps
  <2> DEFINE head == << 15, 128 + Condition[Jumps[op]] >>
  <2>1. /\ Gen1op(op, p) = Code(head, "pc", Bytes(0, 4))
        /\ Gen1op(op, q) = Code(head, "pc", Bytes(0, 4))
    <3>1. op \notin Others /\ op \notin DOMAIN Sets
      BY <1>9, <1>12
    <3> HIDE DEF head
    <3>2. head = << 15, 128 + Condition[Jumps[op]] >>
      BY DEF head
    <3>3. \A x : Gen1op(op, x) = Code(<< 15, 128 + Condition[Jumps[op]] >>, "pc", Bytes(0, 4))
      BY <1>12, <3>1 DEF Gen1op
    <3> QED  BY <3>2, <3>3
  <2> QED  BY <1>3, <1>7, <2>1
<1>13. CASE op \in DOMAIN Sets
  <2> DEFINE head == << 15, 144 + Condition[Sets[op]] >> \o Fields(3, 0, p.reg)
  <2>1. Gen1op(op, p) = Plain(head) /\ Gen1op(op, q) = Plain(head)
    <3>1. op \notin Others /\ op \notin DOMAIN Jumps
      BY <1>9, <1>10, <1>13
    <3>2. \A x : Gen1op(op, x) = Plain(<< 15, 144 + Condition[Sets[op]] >> \o Fields(3, 0, x.reg))
      BY <1>13, <3>1 DEF Gen1op
    <3> QED  BY <1>1, <3>2
  <2>2. IsSeq(head)
    BY <1>3, <1>5 DEF Fields
  <2> HIDE DEF head
  <2> QED  BY <1>6, <2>1, <2>2 DEF Fixed
<1>14. op \in {"int", "push", "pop", "inc", "dec", "neg", "imul", "idiv", "ret"} =>
          op \notin {"call", "jmp"} \cup DOMAIN Jumps \cup DOMAIN Sets
  BY <1>9, <1>10
<1>15. CASE op = "int"
  <2>1. Gen1op(op, p) = Plain(<< 205 >> \o Bytes(p.imm, 1)) /\ Gen1op(op, q) = Plain(<< 205 >> \o Bytes(q.imm, 1))
    BY <1>14, <1>15 DEF Gen1op
  <2> QED  BY <1>3, <1>4, <1>5, <2>1 DEF CodeOK, SameSize, Plain, Code
<1>16. CASE op = "push" /\ p.kinds[1] = Immediate
  <2>1. Gen1op(op, p) = Plain(<< 104 >> \o Bytes(p.imm, 4)) /\ Gen1op(op, q) = Plain(<< 104 >> \o Bytes(q.imm, 4))
    BY <1>1, <1>14, <1>16 DEF Gen1op
  <2> QED  BY <1>3, <1>4, <1>5, <2>1 DEF CodeOK, SameSize, Plain, Code
<1>17. CASE op \in {"push", "pop", "inc", "dec", "neg", "imul", "idiv", "ret"}
            /\ ~ (op = "push" /\ p.kinds[1] = Immediate)
  <2>1. PICK head : Gen1op(op, p) = Plain(head) /\ Gen1op(op, q) = Plain(head) /\ IsSeq(head)
    <3>1. IsSeq(pre \o << 80 + p.reg >>) /\ IsSeq(pre \o << 88 + p.reg >>)
          /\ IsSeq(pre \o << 64 + p.reg >>) /\ IsSeq(pre \o << 72 + p.reg >>)
          /\ IsSeq(pre \o << IF p.len = 1 THEN 246 ELSE 247, 216 + p.reg >>)
          /\ IsSeq(pre \o << 247, 232 + p.reg >>) /\ IsSeq(pre \o << 247, 248 + p.reg >>)
      <4> HIDE DEF pre
      <4> QED  BY <1>2, <1>3, <1>5
    <3>2. CASE op = "push"
      BY <1>1, <1>14, <1>17, <3>1, <3>2 DEF Gen1op
    <3>3. CASE op = "pop"
      BY <1>1, <1>14, <3>1, <3>3 DEF Gen1op
    <3>4. CASE op = "inc"
      BY <1>1, <1>3, <1>14, <3>1, <3>4 DEF Gen1op
    <3>5. CASE op = "dec"
      BY <1>1, <1>3, <1>14, <3>1, <3>5 DEF Gen1op
    <3>6. CASE op = "neg"
      BY <1>1, <1>14, <3>1, <3>6 DEF Gen1op
    <3>7. CASE op = "imul"
      BY <1>1, <1>14, <3>1, <3>7 DEF Gen1op
    <3>8. CASE op = "idiv"
      BY <1>1, <1>14, <3>1, <3>8 DEF Gen1op
    <3>9. CASE op = "ret"
      BY <1>1, <1>3, <1>14, <3>1, <3>9 DEF Gen1op
    <3> QED  BY <1>17, <3>2, <3>3, <3>4, <3>5, <3>6, <3>7, <3>8, <3>9
  <2> QED  BY <1>6, <2>1 DEF Fixed
<1> QED
  BY <1>8, <1>11, <1>12, <1>13, <1>15, <1>16, <1>17

LEMMA InstForm ==
    ASSUME NEW i, i.op \in Operations, i.args \in Seq(Operands), NEW adr, NEW other
    PROVE  CodeOK(Generate(i, Parse(i, adr)))
           /\ SameSize(Generate(i, Parse(i, adr)), Generate(i, Parse(i, other)))
<1> DEFINE p == Parse(i, adr)
           q == Parse(i, other)
<1>1. ParseOK(p) /\ ParseOK(q) /\ SameForm(p, q)
  BY ParseForm
<1> HIDE DEF p, q
<1>2. CodeOK(Generate(i, p)) /\ SameSize(Generate(i, p), Generate(i, q))
  BY <1>1, Gen2opForm, Gen1opForm DEF Generate
<1> QED
  BY <1>2 DEF p, q

-----------------------------------------------------------------------------
(* FlattenSeq, and the bytes of data definitions. *)

AllSeqs(ss) == IsSeq(ss) /\ \A k \in 1 .. Len(ss) : IsSeq(ss[k])

FlatTo(ss, r) ==
    /\ r[0] = << >> /\ r[Len(ss)] = FlattenSeq(ss)
    /\ \A k \in 1 .. Len(ss) : r[k] = r[k - 1] \o ss[k]

LEMMA FlattenGoes ==
    ASSUME NEW ss, AllSeqs(ss)
    PROVE  \E r : FlatTo(ss, r)
<1> DEFINE n == Len(ss)
           Step(g, i) == IF i = 1 THEN ss[i] ELSE g[i - 1] \o ss[i]
           Solves(g, k) == g = [i \in 1 .. k |-> Step(g, i)]
           S == {k \in Nat : \E g : Solves(g, k)}
<1>1. n \in Nat /\ DOMAIN ss = 1 .. n /\ ss = [k \in 1 .. n |-> ss[k]]
  BY SeqFacts DEF AllSeqs
<1>2. CASE n = 0
  <2>1. FlattenSeq(ss) = ss
    BY <1>2 DEF FlattenSeq
  <2>2. ss = << >>
    BY <1>1, <1>2
  <2>3. FlatTo(ss, [k \in {0} |-> << >>])
    BY <1>2, <2>1, <2>2 DEF FlatTo
  <2> QED  BY <2>3
<1>3. CASE n # 0
  <2>1. 0 \in S
    <3>1. Solves(<< >>, 0)
      OBVIOUS
    <3> QED  BY <3>1
  <2>2. ASSUME NEW k \in S  PROVE k + 1 \in S
    <3>1. PICK g : Solves(g, k)
      BY <2>2
    <3>2. k \in Nat /\ k + 1 \in Nat
      BY <2>2
    <3> DEFINE h == [i \in 1 .. k + 1 |-> Step(g, i)]
    <3>3. \A i \in 1 .. k : h[i] = g[i]
      <4> HIDE DEF S
      <4>1. \A i \in 1 .. k : g[i] = Step(g, i)
        <5> HIDE DEF Step
        <5> QED  BY <3>1
      <4> QED  BY <3>2, <4>1
    <3>4. ASSUME NEW i \in 1 .. k + 1  PROVE h[i] = Step(h, i)
      <4>1. h[i] = Step(g, i)
        OBVIOUS
      <4>2. CASE i = 1
        BY <4>1, <4>2
      <4>3. CASE i # 1
        <5>1. i - 1 \in 1 .. k
          BY <3>2, <4>3
        <5> QED  BY <3>3, <4>1, <4>3, <5>1
      <4> QED  BY <4>2, <4>3
    <3>5. Solves(h, k + 1)
      <4>1. h = [i \in 1 .. k + 1 |-> h[i]]
        OBVIOUS
      <4> HIDE DEF h, Step
      <4> QED  BY <3>4, <4>1
    <3> QED  BY <3>2, <3>5
  <2>3. n \in S
    <3>1. S \in SUBSET Nat
      OBVIOUS
    <3> HIDE DEF S, n
    <3> QED  BY <1>1, <2>1, <2>2, <3>1, Induction
  <2>4. \E g : Solves(g, n)
    BY <2>3
  <2>5. FlattenSeq(ss) = (CHOOSE g : Solves(g, n))[n]
    BY <1>3 DEF FlattenSeq
  <2> HIDE DEF Solves
  <2>6. PICK g : Solves(g, n) /\ FlattenSeq(ss) = g[n]
    BY <2>4, <2>5
  <2>7. g = [i \in 1 .. n |-> Step(g, i)]
    BY <2>6 DEF Solves
  <2> DEFINE r == [k \in 0 .. n |-> IF k = 0 THEN << >> ELSE g[k]]
  <2>8. r[0] = << >> /\ r[n] = g[n]
    BY <1>1, <1>3
  <2>9. ASSUME NEW k \in 1 .. n  PROVE r[k] = r[k - 1] \o ss[k]
    <3>1. r[k] = g[k] /\ g[k] = Step(g, k)
      <4>1. k \in 0 .. n /\ k # 0
        BY <1>1
      <4> HIDE DEF Step
      <4> QED  BY <2>7, <4>1
    <3>2. CASE k = 1
      <4>1. r[k - 1] = << >> /\ r[k] = ss[k]
        BY <2>8, <3>1, <3>2
      <4>2. IsSeq(ss[k])
        BY DEF AllSeqs
      <4>3. << >> \o ss[k] = ss[k]
        <5>1. \E T : ss[k] \in Seq(T)
          BY <4>2 DEF IsSeq
        <5> HIDE DEF r
        <5> QED  BY <5>1
      <4> QED  BY <4>1, <4>3
    <3>3. CASE k # 1
      <4>1. k - 1 \in 0 .. n /\ k - 1 # 0
        BY <1>1, <3>3
      <4>2. r[k - 1] = g[k - 1]
        BY <4>1
      <4> QED  BY <3>1, <3>3, <4>2
    <3> QED  BY <3>2, <3>3
  <2> HIDE DEF r, Step
  <2>10. FlatTo(ss, r)
    BY <2>6, <2>8, <2>9 DEF FlatTo
  <2> QED  BY <2>10
<1> QED
  BY <1>2, <1>3

\* The length of what is flattened, piece by piece.
LEMMA FlattenLong ==
    ASSUME NEW ss, AllSeqs(ss)
    PROVE  /\ IsSeq(FlattenSeq(ss))
           /\ \E l : /\ l[0] = 0 /\ l[Len(ss)] = Len(FlattenSeq(ss))
                     /\ \A k \in 1 .. Len(ss) : l[k] = l[k - 1] + Len(ss[k])
<1> DEFINE n == Len(ss)
<1>1. n \in Nat
  BY SeqFacts DEF AllSeqs
<1>2. PICK r : FlatTo(ss, r)
  BY FlattenGoes
<1>10. \A k \in 1 .. n : IsSeq(ss[k]) /\ r[k] = r[k - 1] \o ss[k]
  BY <1>2 DEF AllSeqs, FlatTo
<1> DEFINE S == {k \in Nat : k <= n => IsSeq(r[k])}
<1>3. 0 \in S
  BY <1>2, Tuples DEF FlatTo
<1>4. ASSUME NEW k \in S  PROVE k + 1 \in S
  <2>1. k \in Nat /\ k + 1 \in Nat
    BY <1>4
  <2>2. ASSUME k + 1 <= n  PROVE IsSeq(r[k + 1])
    <3>1. k + 1 \in 1 .. n /\ k + 1 - 1 = k /\ k <= n
      BY <1>1, <2>1, <2>2
    <3>2. IsSeq(r[k])
      BY <1>4, <3>1
    <3>3. IsSeq(ss[k + 1]) /\ r[k + 1] = r[k] \o ss[k + 1]
      <4> DEFINE j == k + 1
      <4>1. j \in 1 .. n /\ j - 1 = k
        BY <3>1
      <4> HIDE DEF j
      <4>2. IsSeq(ss[j]) /\ r[j] = r[j - 1] \o ss[j]
        BY <1>10, <4>1
      <4>3. r[j] = r[k] \o ss[j]
        BY <4>1, <4>2
      <4> QED  BY <4>2, <4>3 DEF j
    <3> QED  BY <3>2, <3>3, SeqConcat
  <2> QED  BY <2>1, <2>2
<1>5. S = Nat
  <2>1. S \in SUBSET Nat
    OBVIOUS
  <2> HIDE DEF S
  <2> QED  BY <1>3, <1>4, <2>1, Induction
<1>6. \A k \in 0 .. n : IsSeq(r[k])
  <2> SUFFICES ASSUME NEW k \in 0 .. n  PROVE IsSeq(r[k])
    OBVIOUS
  <2>1. k \in S /\ k <= n
    BY <1>1, <1>5
  <2> QED  BY <2>1
<1> DEFINE l == [k \in 0 .. n |-> Len(r[k])]
<1>7. l[0] = 0 /\ l[n] = Len(FlattenSeq(ss))
  <2>1. 0 \in 0 .. n /\ n \in 0 .. n
    BY <1>1
  <2> QED  BY <1>2, <2>1, Tuples DEF FlatTo
<1>8. ASSUME NEW k \in 1 .. n  PROVE l[k] = l[k - 1] + Len(ss[k])
  <2>1. k \in 0 .. n /\ k - 1 \in 0 .. n
    BY <1>1
  <2>2. r[k] = r[k - 1] \o ss[k] /\ IsSeq(r[k - 1]) /\ IsSeq(ss[k])
    BY <1>2, <1>6, <2>1 DEF AllSeqs, FlatTo
  <2>3. Len(r[k]) = Len(r[k - 1]) + Len(ss[k])
    BY <2>2, SeqConcat
  <2> QED  BY <2>1, <2>3
<1>9. IsSeq(FlattenSeq(ss))
  <2>1. n \in 0 .. n
    BY <1>1
  <2> QED  BY <1>2, <1>6, <2>1 DEF FlatTo
<1> HIDE DEF l
<1> QED
  BY <1>7, <1>8, <1>9

\* Pieces of one length.
LEMMA FlattenEqual ==
    ASSUME NEW ss, AllSeqs(ss), NEW c \in Nat, \A k \in 1 .. Len(ss) : Len(ss[k]) = c
    PROVE  IsSeq(FlattenSeq(ss)) /\ Len(FlattenSeq(ss)) = Len(ss) * c
<1> DEFINE n == Len(ss)
<1>1. n \in Nat
  BY SeqFacts DEF AllSeqs
<1>2. IsSeq(FlattenSeq(ss))
  BY FlattenLong
<1>3. PICK l : /\ l[0] = 0 /\ l[n] = Len(FlattenSeq(ss))
               /\ \A k \in 1 .. n : l[k] = l[k - 1] + Len(ss[k])
  BY FlattenLong
<1> DEFINE S == {k \in Nat : k <= n => l[k] = k * c}
<1>4. 0 \in S
  BY <1>3
<1>5. ASSUME NEW k \in S  PROVE k + 1 \in S
  <2>1. k \in Nat /\ k + 1 \in Nat
    BY <1>5
  <2>2. ASSUME k + 1 <= n  PROVE l[k + 1] = (k + 1) * c
    <3>1. k + 1 \in 1 .. n /\ k + 1 - 1 = k /\ k <= n
      BY <1>1, <2>1, <2>2
    <3>2. l[k] = k * c
      BY <1>5, <3>1
    <3>3. l[k + 1] = l[k] + c
      BY <1>3, <3>1
    <3>4. \A x, y \in Nat : (x + 1) * y = x * y + y
      OBVIOUS
    <3> QED  BY <2>1, <3>2, <3>3, <3>4
  <2> QED  BY <2>1, <2>2
<1>6. n \in S
  <2>1. S = Nat
    <3>1. S \in SUBSET Nat
      OBVIOUS
    <3> HIDE DEF S
    <3> QED  BY <1>4, <1>5, <3>1, Induction
  <2> QED  BY <1>1, <2>1
<1> QED
  BY <1>1, <1>2, <1>3, <1>6

\* One piece more.
LEMMA FlattenMore ==
    ASSUME NEW ss, AllSeqs(ss), NEW tt, AllSeqs(tt), Len(tt) = Len(ss) + 1,
           \A k \in 1 .. Len(ss) : tt[k] = ss[k]
    PROVE  Len(FlattenSeq(tt)) = Len(FlattenSeq(ss)) + Len(tt[Len(ss) + 1])
<1> DEFINE n == Len(ss)
<1>1. n \in Nat
  BY SeqFacts DEF AllSeqs
<1>2. PICK l : /\ l[0] = 0 /\ l[n] = Len(FlattenSeq(ss))
               /\ \A k \in 1 .. n : l[k] = l[k - 1] + Len(ss[k])
  BY FlattenLong
<1>3. PICK m : /\ m[0] = 0 /\ m[n + 1] = Len(FlattenSeq(tt))
               /\ \A k \in 1 .. n + 1 : m[k] = m[k - 1] + Len(tt[k])
  <2>1. Len(tt) = n + 1
    OBVIOUS
  <2> HIDE DEF n
  <2> QED  BY <2>1, FlattenLong
<1> DEFINE S == {k \in Nat : k <= n => l[k] = m[k]}
<1>4. 0 \in S
  BY <1>2, <1>3
<1>5. ASSUME NEW k \in S  PROVE k + 1 \in S
  <2>1. k \in Nat /\ k + 1 \in Nat
    BY <1>5
  <2>2. ASSUME k + 1 <= n  PROVE l[k + 1] = m[k + 1]
    <3>1. k + 1 \in 1 .. n /\ k + 1 \in 1 .. n + 1 /\ k + 1 - 1 = k /\ k <= n
      BY <1>1, <2>1, <2>2
    <3>2. l[k] = m[k]
      BY <1>5, <3>1
    <3>3. l[k + 1] = l[k] + Len(ss[k + 1]) /\ m[k + 1] = m[k] + Len(tt[k + 1])
      BY <1>2, <1>3, <3>1
    <3> QED  BY <3>1, <3>2, <3>3
  <2> QED  BY <2>1, <2>2
<1>6. n \in S
  <2>1. S = Nat
    <3>1. S \in SUBSET Nat
      OBVIOUS
    <3> HIDE DEF S
    <3> QED  BY <1>4, <1>5, <3>1, Induction
  <2> QED  BY <1>1, <2>1
<1>7. n + 1 \in 1 .. n + 1 /\ n + 1 - 1 = n /\ l[n] = m[n]
  BY <1>1, <1>6
<1> QED
  BY <1>2, <1>3, <1>7

LEMMA RepeatedLong ==
    ASSUME NEW s, IsSeq(s), NEW n \in Nat
    PROVE  IsSeq(Repeated(s, n)) /\ Len(Repeated(s, n)) = n * Len(s)
<1> DEFINE ss == [k \in 1 .. n |-> s]
<1>1. IsSeq(ss) /\ Len(ss) = n
  BY SeqMade
<1>2. Len(s) \in Nat
  BY SeqFacts
<1>3. AllSeqs(ss) /\ \A k \in 1 .. Len(ss) : Len(ss[k]) = Len(s)
  BY <1>1 DEF AllSeqs
<1>4. Repeated(s, n) = FlattenSeq(ss)
  BY DEF Repeated
<1> HIDE DEF ss
<1> QED
  BY <1>1, <1>2, <1>3, <1>4, FlattenEqual

LEMMA WrittenLong ==
    ASSUME NEW d, IsSeq(d.cont), d.len \in Nat, d.times \in Nat
    PROVE  IsSeq(Written(d)) /\ Len(Written(d)) = d.times * (Len(d.cont) * d.len)
<1> DEFINE ss == [k \in DOMAIN d.cont |-> Bytes(d.cont[k], d.len)]
<1>1. DOMAIN d.cont = 1 .. Len(d.cont) /\ Len(d.cont) \in Nat
  BY SeqFacts
<1>2. IsSeq(ss) /\ Len(ss) = Len(d.cont)
  BY <1>1, SeqMade
<1>3. AllSeqs(ss) /\ \A k \in 1 .. Len(ss) : Len(ss[k]) = d.len
  <2> SUFFICES ASSUME NEW k \in 1 .. Len(ss)  PROVE IsSeq(ss[k]) /\ Len(ss[k]) = d.len
    BY <1>2 DEF AllSeqs
  <2>1. ss[k] = Bytes(d.cont[k], d.len)
    BY <1>1, <1>2
  <2> HIDE DEF ss
  <2> QED  BY <2>1, BytesLong
<1>4. Written(d) = Repeated(FlattenSeq(ss), d.times)
  BY DEF Written
<1> HIDE DEF ss
<1>5. IsSeq(FlattenSeq(ss)) /\ Len(FlattenSeq(ss)) = Len(d.cont) * d.len
  BY <1>2, <1>3, FlattenEqual
<1> QED
  BY <1>4, <1>5, RepeatedLong

\* The values of a data definition: as many as its items give.
ItemLen(item) == IF item.is = "str" THEN Len(item.bytes) ELSE 1
ItemCount(items) == Sum([k \in DOMAIN items |-> ItemLen(items[k])])

NoValues == [m |-> lb_map, cont |-> << >>, rels |-> << >>]
Values(items) == FoldLeft(Value, NoValues, items)

ValuesOK(c) == DOMAIN c = {"m", "cont", "rels"} /\ IsSeq(c.cont)

LEMMA ValueStep ==
    ASSUME NEW c, ValuesOK(c), NEW item \in Items
    PROVE  ValuesOK(Value(c, item)) /\ Len(Value(c, item).cont) = Len(c.cont) + ItemLen(item)
<1>1. item.is \in {"num", "str", "sym"} /\ (item.is = "str" => item.bytes \in Seq(0 .. 255))
  BY DEF Items
<1>2. CASE item.is = "num"
  <2> DEFINE more == Append(c.cont, item.n)
  <2>1. IsSeq(more) /\ Len(more) = Len(c.cont) + 1
    BY SeqAppend DEF ValuesOK
  <2>2. Value(c, item) = [c EXCEPT !.cont = more]
    BY <1>2 DEF Value
  <2> HIDE DEF more
  <2> QED  BY <1>2, <2>1, <2>2 DEF ValuesOK, ItemLen
<1>3. CASE item.is = "str"
  <2> DEFINE more == c.cont \o item.bytes
  <2>1. IsSeq(item.bytes)
    BY <1>1, <1>3 DEF IsSeq
  <2>2. IsSeq(more) /\ Len(more) = Len(c.cont) + Len(item.bytes)
    BY <2>1, SeqConcat DEF ValuesOK
  <2>3. Value(c, item) = [c EXCEPT !.cont = more]
    BY <1>3 DEF Value
  <2> HIDE DEF more
  <2> QED  BY <1>3, <2>2, <2>3 DEF ValuesOK, ItemLen
<1>4. CASE item.is = "sym"
  <2>1. PICK m, x, rels : Value(c, item) = [m |-> m, cont |-> Append(c.cont, x), rels |-> rels]
    BY <1>4 DEF Value
  <2> DEFINE more == Append(c.cont, x)
  <2>2. IsSeq(more) /\ Len(more) = Len(c.cont) + 1
    BY SeqAppend DEF ValuesOK
  <2> HIDE DEF more
  <2>3. Value(c, item) = [m |-> m, cont |-> more, rels |-> rels]
    BY <2>1 DEF more
  <2> QED  BY <1>4, <2>2, <2>3 DEF ValuesOK, ItemLen
<1> QED
  BY <1>1, <1>2, <1>3, <1>4

LEMMA ValuesGo ==
    ASSUME NEW items, NEW n \in Nat, DOMAIN items = 1 .. n
    PROVE  \E r : Goes(r, "value", 0, NoValues, n, items, Values(items))
<1> DEFINE P(g) == g = [s \in SUBSET (1 .. n) |-> IF s = {} THEN NoValues
                           ELSE Value(g[s \ {Max(s)}], items[Max(s)])]
<1>1. \A v, x : FoldStep("value", 0, v, x) = Value(v, x)
  BY DEF FoldStep
<1>2. \A g : P(g) <=> IsFold(g, "value", 0, NoValues, n, items)
  BY <1>1 DEF IsFold
<1>3. \E g : P(g)
  <2> HIDE DEF P
  <2> QED  BY <1>2, FoldExists
<1>4. Values(items) = (CHOOSE g : P(g))[1 .. n]
  BY DEF Values, FoldLeft, MapThenFoldSet
<1> HIDE DEF P
<1>5. PICK g : P(g) /\ Values(items) = g[1 .. n]
  BY <1>3, <1>4
<1>6. IsFold(g, "value", 0, NoValues, n, items)
  BY <1>2, <1>5
<1>7. \E r : Goes(r, "value", 0, NoValues, n, items, g[1 .. n])
  BY <1>6, FoldGoes
<1> QED
  BY <1>5, <1>7

LEMMA ValuesLong ==
    ASSUME NEW items \in Seq(Items)
    PROVE  ValuesOK(Values(items)) /\ Len(Values(items).cont) = ItemCount(items)
<1> DEFINE n == Len(items)
           f == [k \in DOMAIN items |-> ItemLen(items[k])]
<1>1. n \in Nat /\ DOMAIN items = 1 .. n /\ \A k \in 1 .. n : items[k] \in Items
  OBVIOUS
<1> HIDE DEF n
<1>2. PICK r : Goes(r, "value", 0, NoValues, n, items, Values(items))
  BY <1>1, ValuesGo
<1>3. DOMAIN f = 1 .. n /\ ItemCount(items) = Sum(f) /\ \A k \in 1 .. n : f[k] = ItemLen(items[k])
  BY <1>1 DEF ItemCount
<1> HIDE DEF f
<1>4. PICK s : s[0] = 0 /\ (\A k \in 1 .. n : s[k] = s[k - 1] + f[k]) /\ s[n] = Sum(f)
  BY <1>1, <1>3, SumIs
<1> DEFINE Alike(k) == ValuesOK(r[k]) /\ Len(r[k].cont) = s[k]
           S == {k \in Nat : k <= n => Alike(k)}
<1>5. \A k \in 1 .. n : r[k] = Value(r[k - 1], items[k]) /\ s[k] = s[k - 1] + ItemLen(items[k])
  <2>1. \A e, v, x : FoldStep("value", e, v, x) = Value(v, x)
    BY DEF FoldStep
  <2> QED  BY <1>2, <1>3, <1>4, <2>1 DEF Goes
<1>6. 0 \in S
  <2>1. r[0] = NoValues /\ s[0] = 0
    BY <1>2, <1>4 DEF Goes
  <2> QED  BY <2>1, Tuples DEF ValuesOK, NoValues
<1>7. ASSUME NEW k \in S  PROVE k + 1 \in S
  <2>1. k \in Nat /\ k + 1 \in Nat
    BY <1>7
  <2>2. ASSUME k + 1 <= n  PROVE Alike(k + 1)
    <3>1. k + 1 \in 1 .. n /\ k + 1 - 1 = k /\ k <= n
      BY <1>1, <2>1, <2>2
    <3>2. Alike(k)
      BY <1>7, <3>1
    <3>3. r[k + 1] = Value(r[k], items[k + 1]) /\ s[k + 1] = s[k] + ItemLen(items[k + 1])
      BY <1>5, <3>1
    <3>4. items[k + 1] \in Items
      BY <1>1, <3>1
    <3> HIDE DEF S
    <3> QED  BY <3>2, <3>3, <3>4, ValueStep
  <2> QED  BY <2>1, <2>2
<1>8. n \in S
  <2>1. S = Nat
    <3>1. S \in SUBSET Nat
      OBVIOUS
    <3> HIDE DEF S
    <3> QED  BY <1>6, <1>7, <3>1, Induction
  <2> QED  BY <1>1, <2>1
<1>9. Alike(n)
  BY <1>1, <1>8
<1> QED
  BY <1>2, <1>3, <1>4, <1>9 DEF Goes

-----------------------------------------------------------------------------
(* The places that both passes of the assembler reach: After(f)[j] bytes    *)
(* into the section when j lines have been read.                            *)

zeros == [n \in Identifiers |-> 0]

LineSize(l) ==
    IF l.is = "inst" THEN LET c == Generate(l, Parse(l, zeros)) IN Len(c.head) + Len(c.field)
    ELSE IF l.is = "data" THEN l.times * l.len * ItemCount(l.items)
    ELSE 0

PlaceAfter(l, place) == IF l.is = "section" THEN 0 ELSE place + LineSize(l)

IsAfter(f, a, n) ==
    /\ a[0] = 0 /\ \A j \in 0 .. n : a[j] \in Nat
    /\ \A j \in 1 .. n : a[j] = PlaceAfter(f[j], a[j - 1])

After(f) == CHOOSE a : IsAfter(f, a, Len(f))

\* What a line of each kind is made of.
LEMMA LineFields ==
    ASSUME NEW l \in AsmLines
    PROVE  /\ l.is = "inst" => l.op \in Operations /\ l.args \in Seq(Operands)
           /\ l.is = "data" => l.times \in Nat /\ l.len \in {1, 2, 4} /\ l.items \in Seq(Items)
           /\ l.is \in {"section", "global", "label", "equ", "data", "inst"}
BY DEF AsmLines

LEMMA LineSizeIsNat ==
    ASSUME NEW l \in AsmLines
    PROVE  LineSize(l) \in Nat
<1>1. CASE l.is = "inst"
  <2> DEFINE c == Generate(l, Parse(l, zeros))
  <2>1. CodeOK(c)
    BY <1>1, LineFields, InstForm
  <2>2. LineSize(l) = Len(c.head) + Len(c.field)
    BY <1>1 DEF LineSize
  <2> HIDE DEF c
  <2>3. Len(c.head) \in Nat /\ Len(c.field) \in Nat
    BY <2>1, SeqFacts DEF CodeOK
  <2>4. \A x, y \in Nat : x + y \in Nat
    OBVIOUS
  <2> QED  BY <2>2, <2>3, <2>4
<1>2. CASE l.is = "data"
  <2>1. l.times \in Nat /\ l.len \in Nat /\ l.items \in Seq(Items)
    BY <1>2, LineFields
  <2>2. ItemCount(l.items) \in Nat
    <3>1. IsSeq(Values(l.items).cont) /\ Len(Values(l.items).cont) = ItemCount(l.items)
      BY <2>1, ValuesLong DEF ValuesOK
    <3> QED  BY <3>1, SeqFacts
  <2>3. LineSize(l) = l.times * l.len * ItemCount(l.items)
    BY <1>2 DEF LineSize
  <2>4. \A x, y, z \in Nat : x * y * z \in Nat
    OBVIOUS
  <2> QED  BY <2>1, <2>2, <2>3, <2>4
<1>3. CASE l.is \notin {"inst", "data"}
  BY <1>3 DEF LineSize
<1> QED
  BY <1>1, <1>2, <1>3

LEMMA AfterIs ==
    ASSUME NEW f, f \in Seq(AsmLines)
    PROVE  IsAfter(f, After(f), Len(f))
<1> DEFINE n == Len(f)
           S == {k \in Nat : k <= n => \E a : IsAfter(f, a, k)}
<1>1. n \in Nat /\ \A j \in 1 .. n : f[j] \in AsmLines
  OBVIOUS
<1>2. 0 \in S
  <2>1. IsAfter(f, [j \in {0} |-> 0], 0)
    BY DEF IsAfter
  <2> QED  BY <2>1
<1>3. ASSUME NEW k \in S  PROVE k + 1 \in S
  <2>1. k \in Nat /\ k + 1 \in Nat
    BY <1>3
  <2>2. ASSUME k + 1 <= n  PROVE \E a : IsAfter(f, a, k + 1)
    <3>1. k + 1 \in 1 .. n /\ k <= n
      BY <1>1, <2>1, <2>2
    <3>2. PICK a : IsAfter(f, a, k)
      BY <1>3, <3>1
    <3> HIDE DEF S, n
    <3> DEFINE h == [j \in 0 .. k + 1 |-> IF j = k + 1 THEN PlaceAfter(f[k + 1], a[k]) ELSE a[j]]
    <3>3. (\A j \in 0 .. k : h[j] = a[j] /\ a[j] \in Nat) /\ h[k + 1] = PlaceAfter(f[k + 1], a[k])
      <4>1. \A j \in 0 .. k : j \in 0 .. k + 1 /\ j # k + 1
        BY <2>1
      <4>2. k + 1 \in 0 .. k + 1
        BY <2>1
      <4> QED  BY <3>2, <4>1, <4>2 DEF IsAfter
    <3>4. PlaceAfter(f[k + 1], a[k]) \in Nat
      <4>1. LineSize(f[k + 1]) \in Nat
        BY <1>1, <3>1, LineSizeIsNat
      <4>2. a[k] \in Nat
        <5>1. k \in 0 .. k
          BY <2>1
        <5> QED  BY <3>3, <5>1
      <4>3. \A x, y \in Nat : x + y \in Nat
        OBVIOUS
      <4> QED  BY <4>1, <4>2, <4>3 DEF PlaceAfter
    <3> HIDE DEF h
    <3>5. h[0] = 0
      <4>1. 0 \in 0 .. k
        BY <2>1
      <4> QED  BY <3>2, <3>3, <4>1 DEF IsAfter
    <3>6. \A j \in 0 .. k + 1 : h[j] \in Nat
      <4> SUFFICES ASSUME NEW j \in 0 .. k + 1  PROVE h[j] \in Nat
        OBVIOUS
      <4>1. j \in 0 .. k \/ j = k + 1
        BY <2>1
      <4> QED  BY <3>3, <3>4, <4>1
    <3>7. ASSUME NEW j \in 1 .. k + 1  PROVE h[j] = PlaceAfter(f[j], h[j - 1])
      <4>1. j - 1 \in 0 .. k
        BY <2>1
      <4>2. CASE j = k + 1
        <5>1. j - 1 = k
          BY <2>1, <4>2
        <5> QED  BY <3>3, <4>1, <4>2, <5>1
      <4>3. CASE j # k + 1
        <5>1. j \in 1 .. k /\ j \in 0 .. k
          BY <2>1, <4>3
        <5>2. a[j] = PlaceAfter(f[j], a[j - 1])
          BY <3>2, <5>1 DEF IsAfter
        <5> QED  BY <3>3, <4>1, <5>1, <5>2
      <4> QED  BY <4>2, <4>3
    <3>8. IsAfter(f, h, k + 1)
      BY <3>5, <3>6, <3>7 DEF IsAfter
    <3> QED  BY <3>8
  <2> QED  BY <2>1, <2>2
<1>4. n \in S
  <2>1. S = Nat
    <3>1. S \in SUBSET Nat
      OBVIOUS
    <3> HIDE DEF S
    <3> QED  BY <1>2, <1>3, <3>1, Induction
  <2> QED  BY <1>1, <2>1
<1>5. \E a : IsAfter(f, a, n)
  BY <1>1, <1>4
<1> QED
  BY <1>5 DEF After

-----------------------------------------------------------------------------
(* The assembler's invariant, when .data starts on line d and .bss on b.    *)

TextSize(d) == After(src)[d - 1]
DataSize(b) == After(src)[b - 1]
BssSize == After(src)[Len(src)]

\* The headers of the sections, and where the next one may start.
TextHdr(d) == Hdr(".text", EhdrSize, TextSize(d))
DataStart(d) == Aligned(TextSize(d), 4)
DataHdr(d, b) == Hdr(".data", EhdrSize + DataStart(d), DataSize(b))
BssStart(d, b) == Aligned(DataStart(d) + DataSize(b), 4)
BssHdr(d, b) == Hdr(".bss", EhdrSize + BssStart(d, b), BssSize)

PlaceOK ==
    /\ pos \in 1 .. Len(src) + 1 /\ scanLop \in {1, 2, 3}
    /\ scanLop = 3 => pos = Len(src) + 1
    /\ curAddr = After(src)[pos - 1]

SegmentOK(d, b) ==
    /\ 1 < pos => curSeg = IF pos <= d THEN ".text" ELSE IF pos <= b THEN ".data" ELSE ".bss"
    /\ scanLop = 1 /\ pos = 1 => curSeg = ""

\* The first pass records a section when it ends.
RecordsOK(d, b) ==
    /\ (scanLop = 1 /\ pos <= d) => (shdrTab = << >> /\ dataLen = 0)
    /\ (scanLop = 1 /\ d < pos /\ pos <= b) => (shdrTab = << TextHdr(d) >> /\ dataLen = TextSize(d))
    /\ (scanLop = 1 /\ b < pos) =>
          (shdrTab = << TextHdr(d), DataHdr(d, b) >> /\ dataLen = DataStart(d) + DataSize(b))
    /\ scanLop # 1 =>
          (shdrTab = << TextHdr(d), DataHdr(d, b), BssHdr(d, b) >> /\ dataLen = BssStart(d, b))

\* The second pass writes as many bytes of code as the first has counted.
CodeWritten(d) ==
    /\ IsSeq(code)
    /\ Len(code) = IF scanLop = 1 THEN 0 ELSE IF pos <= d THEN After(src)[pos - 1] ELSE TextSize(d)

Kept == [k \in DOMAIN defLbs |-> Written(defLbs[k])]

DataKept(d, b) ==
    /\ IsSeq(defLbs) /\ AllSeqs(Kept)
    /\ Len(FlattenSeq(Kept)) = IF scanLop = 1 /\ pos <= d THEN 0
                               ELSE IF scanLop = 1 /\ pos <= b THEN After(src)[pos - 1]
                               ELSE DataSize(b)

AsmAt(d, b) ==
    PlaceOK /\ SegmentOK(d, b) /\ RecordsOK(d, b) /\ CodeWritten(d) /\ DataKept(d, b)

AsmOK ==
    /\ src \in Seq(AsmLines)
    /\ \E d, b \in DOMAIN src : Sections(src, d, b) /\ AsmAt(d, b)

\* The numbers of the invariant.
LEMMA AsmNumbers ==
    ASSUME src \in Seq(AsmLines), NEW d \in DOMAIN src, NEW b \in DOMAIN src, Sections(src, d, b)
    PROVE  /\ Len(src) \in Nat /\ DOMAIN src = 1 .. Len(src)
           /\ d \in Nat /\ b \in Nat /\ 1 < d /\ d < b /\ b <= Len(src)
           /\ TextSize(d) \in Nat /\ DataSize(b) \in Nat /\ BssSize \in Nat
           /\ DataStart(d) \in Nat /\ BssStart(d, b) \in Nat
           /\ After(src)[0] = 0 /\ (\A j \in 0 .. Len(src) : After(src)[j] \in Nat)
           /\ \A j \in 1 .. Len(src) : After(src)[j] = PlaceAfter(src[j], After(src)[j - 1])
<1>1. Len(src) \in Nat /\ DOMAIN src = 1 .. Len(src)
  OBVIOUS
<1>2. d \in Nat /\ b \in Nat /\ 1 < d /\ d < b /\ b <= Len(src)
  BY <1>1 DEF Sections
<1>3. After(src)[0] = 0 /\ (\A j \in 0 .. Len(src) : After(src)[j] \in Nat)
      /\ \A j \in 1 .. Len(src) : After(src)[j] = PlaceAfter(src[j], After(src)[j - 1])
  BY AfterIs DEF IsAfter
<1>4. d - 1 \in 0 .. Len(src) /\ b - 1 \in 0 .. Len(src) /\ Len(src) \in 0 .. Len(src)
  BY <1>1, <1>2
<1>5. TextSize(d) \in Nat /\ DataSize(b) \in Nat /\ BssSize \in Nat
  BY <1>3, <1>4 DEF TextSize, DataSize, BssSize
<1>6. DataStart(d) \in Nat
  BY <1>5, AlignedTo DEF DataStart
<1>7. DataStart(d) + DataSize(b) \in Nat
  BY <1>5, <1>6
<1>8. BssStart(d, b) \in Nat
  BY <1>7, AlignedTo DEF BssStart
<1> QED
  BY <1>1, <1>2, <1>3, <1>5, <1>6, <1>8

\* The next line is read: the section stays the same, if no other starts.
LEMMA LineStep ==
    ASSUME src \in Seq(AsmLines), NEW d \in DOMAIN src, NEW b \in DOMAIN src, Sections(src, d, b),
           PlaceOK, SegmentOK(d, b), RecordsOK(d, b),
           scanLop \in {1, 2}, pos \in DOMAIN src, Line.is # "section", Advance,
           curSeg' = curSeg, dataLen' = dataLen, shdrTab' = shdrTab,
           curAddr' = curAddr + LineSize(Line)
    PROVE  PlaceOK' /\ SegmentOK(d, b)' /\ RecordsOK(d, b)'
           /\ pos \notin {1, d, b} /\ After(src)[pos] = After(src)[pos - 1] + LineSize(Line)
<1>1. /\ Len(src) \in Nat /\ DOMAIN src = 1 .. Len(src)
      /\ d \in Nat /\ b \in Nat /\ 1 < d /\ d < b /\ b <= Len(src)
      /\ \A j \in 1 .. Len(src) : After(src)[j] = PlaceAfter(src[j], After(src)[j - 1])
  BY AsmNumbers
<1>2. pos' = pos + 1 /\ src' = src /\ scanLop' = scanLop
  BY DEF Advance
<1>3. pos \notin {1, d, b}
  <2>1. src[1].is = "section" /\ src[d].is = "section" /\ src[b].is = "section"
    BY DEF Sections, Opens
  <2> QED  BY <2>1 DEF Line
<1>4. pos \in 1 .. Len(src) /\ pos \in Nat
  BY <1>1
<1>5. After(src)[pos] = After(src)[pos - 1] + LineSize(Line)
  BY <1>1, <1>4 DEF PlaceAfter, Line
<1>6. PlaceOK'
  <2>1. pos + 1 \in 1 .. Len(src) + 1 /\ pos + 1 - 1 = pos
    BY <1>1, <1>4
  <2>2. curAddr' = After(src)[pos]
    BY <1>5 DEF PlaceOK
  <2> QED  BY <1>2, <2>1, <2>2 DEF PlaceOK
<1>7. /\ 1 < pos /\ 1 < pos + 1 /\ pos + 1 # 1
      /\ (pos + 1 <= d <=> pos <= d) /\ (pos + 1 <= b <=> pos <= b)
      /\ (d < pos + 1 <=> d < pos) /\ (b < pos + 1 <=> b < pos)
  BY <1>1, <1>3, <1>4
<1>8. SegmentOK(d, b)'
  BY <1>2, <1>7 DEF SegmentOK
<1>9. RecordsOK(d, b)'
  BY <1>2, <1>7 DEF RecordsOK, TextHdr, DataHdr, BssHdr, TextSize, DataSize, BssSize, DataStart, BssStart
<1> QED
  BY <1>3, <1>5, <1>6, <1>8, <1>9

\* The code and the data grow by the size of the line.
LEMMA BytesStep ==
    ASSUME src \in Seq(AsmLines), NEW d \in DOMAIN src, NEW b \in DOMAIN src, Sections(src, d, b),
           CodeWritten(d), DataKept(d, b), scanLop \in {1, 2}, pos \in DOMAIN src, Advance,
           pos \notin {1, d, b}, After(src)[pos] = After(src)[pos - 1] + LineSize(Line),
           IsSeq(code'),
           Len(code') = Len(code) + (IF scanLop = 2 /\ pos < d THEN LineSize(Line) ELSE 0),
           IsSeq(defLbs'), AllSeqs(Kept'),
           Len(FlattenSeq(Kept')) =
               Len(FlattenSeq(Kept)) + (IF scanLop = 1 /\ d < pos /\ pos < b THEN LineSize(Line) ELSE 0)
    PROVE  CodeWritten(d)' /\ DataKept(d, b)'
<1>1. /\ Len(src) \in Nat /\ DOMAIN src = 1 .. Len(src)
      /\ d \in Nat /\ b \in Nat /\ 1 < d /\ d < b /\ b <= Len(src)
      /\ TextSize(d) \in Nat /\ DataSize(b) \in Nat
      /\ \A j \in 0 .. Len(src) : After(src)[j] \in Nat
  BY AsmNumbers
<1>2. pos' = pos + 1 /\ src' = src /\ scanLop' = scanLop
  BY DEF Advance
<1>3. pos \in Nat /\ pos + 1 - 1 = pos /\ After(src)[pos] \in Nat
  BY <1>1
<1>4. (pos + 1 <= d <=> pos < d) /\ (pos <= d <=> pos < d) /\ (pos + 1 <= b <=> pos < b) /\ (pos <= b <=> pos < b)
      /\ (pos < d => pos < b) /\ (~ (pos < d) => d < pos) /\ (d < pos => ~ (pos < d))
  BY <1>1, <1>3
<1>5. \A n \in Nat : n + 0 = n
  OBVIOUS
<1>6. TextSize(d)' = TextSize(d) /\ DataSize(b)' = DataSize(b)
  BY <1>2 DEF TextSize, DataSize
<1>7. Len(code') = IF scanLop = 1 THEN 0 ELSE IF pos + 1 <= d THEN After(src)[pos] ELSE TextSize(d)
  <2>1. Len(code) = IF scanLop = 1 THEN 0 ELSE IF pos <= d THEN After(src)[pos - 1] ELSE TextSize(d)
    BY DEF CodeWritten
  <2>2. CASE scanLop = 1
    BY <1>5, <2>1, <2>2
  <2>3. CASE scanLop = 2 /\ pos < d
    BY <1>4, <2>1, <2>3
  <2>4. CASE scanLop = 2 /\ ~ (pos < d)
    BY <1>1, <1>4, <1>5, <2>1, <2>4
  <2> QED  BY <2>2, <2>3, <2>4
<1>8. Len(FlattenSeq(Kept')) = IF scanLop = 1 /\ pos + 1 <= d THEN 0
                               ELSE IF scanLop = 1 /\ pos + 1 <= b THEN After(src)[pos]
                               ELSE DataSize(b)
  <2>1. Len(FlattenSeq(Kept)) = IF scanLop = 1 /\ pos <= d THEN 0
                                ELSE IF scanLop = 1 /\ pos <= b THEN After(src)[pos - 1]
                                ELSE DataSize(b)
    BY DEF DataKept
  <2>2. CASE scanLop = 1 /\ pos < d
    BY <1>4, <1>5, <2>1, <2>2
  <2>3. CASE scanLop = 1 /\ d < pos /\ pos < b
    BY <1>4, <2>1, <2>3
  <2>4. CASE ~ (scanLop = 1 /\ pos < d) /\ ~ (scanLop = 1 /\ d < pos /\ pos < b)
    BY <1>1, <1>4, <1>5, <2>1, <2>4
  <2> QED  BY <2>2, <2>3, <2>4
<1>9. CodeWritten(d)'
  <2>1. After(src')[pos' - 1] = After(src)[pos]
    BY <1>2, <1>3
  <2>2. Len(code') = IF scanLop' = 1 THEN 0
                     ELSE IF pos' <= d THEN After(src')[pos' - 1] ELSE TextSize(d)'
    BY <1>2, <1>6, <1>7, <2>1
  <2> QED  BY <2>2 DEF CodeWritten
<1>10. DataKept(d, b)'
  <2>1. After(src')[pos' - 1] = After(src)[pos]
    BY <1>2, <1>3
  <2>2. Len(FlattenSeq(Kept')) = IF scanLop' = 1 /\ pos' <= d THEN 0
                                 ELSE IF scanLop' = 1 /\ pos' <= b THEN After(src')[pos' - 1]
                                 ELSE DataSize(b)'
    BY <1>2, <1>6, <1>8, <2>1
  <2> QED  BY <2>2 DEF DataKept
<1> QED
  BY <1>9, <1>10

\* Lines that take no place.
LEMMA QuietStep ==
    ASSUME src \in Seq(AsmLines), NEW d \in DOMAIN src, NEW b \in DOMAIN src, Sections(src, d, b),
           AsmAt(d, b), Global \/ Label \/ Equ
    PROVE  AsmAt(d, b)'
<1>1. /\ scanLop \in {1, 2} /\ pos \in DOMAIN src /\ Line.is \in {"global", "label", "equ"} /\ Advance
      /\ curSeg' = curSeg /\ dataLen' = dataLen /\ shdrTab' = shdrTab /\ curAddr' = curAddr
      /\ code' = code /\ defLbs' = defLbs
  BY DEF Global, Label, Equ, Reading, placeVars
<1>2. LineSize(Line) = 0
  BY <1>1 DEF LineSize
<1>3. PlaceOK /\ SegmentOK(d, b) /\ RecordsOK(d, b) /\ CodeWritten(d) /\ DataKept(d, b)
  BY DEF AsmAt
<1>4. curAddr \in Nat
  <2>1. pos - 1 \in 0 .. Len(src)
    BY <1>1
  <2> QED  BY <1>3, <2>1, AsmNumbers DEF PlaceOK
<1>5. curAddr' = curAddr + LineSize(Line)
  BY <1>1, <1>2, <1>4
<1>6. PlaceOK' /\ SegmentOK(d, b)' /\ RecordsOK(d, b)'
      /\ pos \notin {1, d, b} /\ After(src)[pos] = After(src)[pos - 1] + LineSize(Line)
  BY <1>1, <1>3, <1>5, LineStep
<1>7. Kept' = Kept
  BY <1>1 DEF Kept
<1>8. IsSeq(code) /\ IsSeq(defLbs) /\ AllSeqs(Kept)
  BY <1>3 DEF CodeWritten, DataKept
<1>9. Len(code) \in Nat /\ Len(FlattenSeq(Kept)) \in Nat
  BY <1>8, SeqFacts, FlattenLong
<1>10. \A n \in Nat : n + 0 = n
  OBVIOUS
<1>11. CodeWritten(d)' /\ DataKept(d, b)'
  <2>1. Len(code') = Len(code) + (IF scanLop = 2 /\ pos < d THEN LineSize(Line) ELSE 0)
    BY <1>1, <1>2, <1>9, <1>10
  <2>2. Len(FlattenSeq(Kept')) =
            Len(FlattenSeq(Kept)) + (IF scanLop = 1 /\ d < pos /\ pos < b THEN LineSize(Line) ELSE 0)
    BY <1>2, <1>7, <1>9, <1>10
  <2> QED  BY <1>1, <1>3, <1>6, <1>7, <1>8, <2>1, <2>2, BytesStep
<1> QED
  BY <1>6, <1>11 DEF AsmAt

\* One definition more in .data.
LEMMA KeptMore ==
    ASSUME IsSeq(defLbs), AllSeqs(Kept), NEW x, IsSeq(Written(x)), defLbs' = Append(defLbs, x)
    PROVE  /\ IsSeq(defLbs') /\ AllSeqs(Kept')
           /\ Len(FlattenSeq(Kept')) = Len(FlattenSeq(Kept)) + Len(Written(x))
<1> DEFINE n == Len(defLbs)
<1>1. n \in Nat /\ DOMAIN defLbs = 1 .. n
  BY SeqFacts
<1>2. IsSeq(defLbs') /\ Len(defLbs') = n + 1 /\ defLbs'[n + 1] = x
      /\ \A k \in 1 .. n : defLbs'[k] = defLbs[k]
  BY SeqAppend
<1>3. DOMAIN defLbs' = 1 .. n + 1 /\ n + 1 \in Nat
  BY <1>1, <1>2, SeqFacts
<1>4. Kept = [k \in 1 .. n |-> Written(defLbs[k])]
  BY <1>1 DEF Kept
<1>5. Kept' = [k \in 1 .. n + 1 |-> Written(defLbs'[k])]
  BY <1>3 DEF Kept
<1> HIDE DEF n
<1>6. Len(Kept) = n
  BY <1>1, <1>4, SeqMade
<1>7. IsSeq(Kept') /\ Len(Kept') = n + 1
  BY <1>3, <1>5, SeqMade
<1>8. Kept'[n + 1] = Written(x)
  <2>1. n + 1 \in 1 .. n + 1
    BY <1>1
  <2> QED  BY <1>2, <1>5, <2>1
<1>9. \A k \in 1 .. n : Kept'[k] = Kept[k]
  <2> SUFFICES ASSUME NEW k \in 1 .. n  PROVE Kept'[k] = Kept[k]
    OBVIOUS
  <2>1. k \in 1 .. n + 1
    BY <1>1
  <2> QED  BY <1>2, <1>4, <1>5, <2>1
<1>10. \A k \in 1 .. n + 1 : IsSeq(Kept'[k])
  <2> SUFFICES ASSUME NEW k \in 1 .. n + 1  PROVE IsSeq(Kept'[k])
    OBVIOUS
  <2>1. k \in 1 .. n \/ k = n + 1
    BY <1>1
  <2> QED  BY <1>6, <1>8, <1>9, <2>1 DEF AllSeqs
<1>11. AllSeqs(Kept')
  BY <1>7, <1>10 DEF AllSeqs
<1>12. Len(FlattenSeq(Kept')) = Len(FlattenSeq(Kept)) + Len(Kept'[n + 1])
  <2> DEFINE s == Kept
             t == Kept'
  <2>1. AllSeqs(s) /\ AllSeqs(t) /\ Len(t) = Len(s) + 1 /\ (\A k \in 1 .. Len(s) : t[k] = s[k]) /\ Len(s) = n
    BY <1>6, <1>7, <1>9, <1>11
  <2> HIDE DEF s, t
  <2>2. Len(FlattenSeq(t)) = Len(FlattenSeq(s)) + Len(t[n + 1])
    BY <2>1, FlattenMore
  <2> QED  BY <2>2 DEF s, t
<1> QED
  BY <1>2, <1>8, <1>11, <1>12

LEMMA DataLineStep ==
    ASSUME src \in Seq(AsmLines), NEW d \in DOMAIN src, NEW b \in DOMAIN src, Sections(src, d, b),
           AsmAt(d, b), Data
    PROVE  AsmAt(d, b)'
<1> DEFINE l == Line
           c == Values(l.items)
<1>1. /\ scanLop \in {1, 2} /\ pos \in DOMAIN src /\ l.is = "data" /\ Advance
      /\ curSeg' = curSeg /\ dataLen' = dataLen /\ shdrTab' = shdrTab /\ code' = code
      /\ curAddr' = curAddr + l.times * l.len * Len(c.cont)
      /\ defLbs' = IF scanLop = 1 /\ l.times # 0 /\ curSeg = ".data"
                   THEN Append(defLbs, [times |-> l.times, len |-> l.len, cont |-> c.cont])
                   ELSE defLbs
  <2>1. /\ scanLop \in {1, 2} /\ pos \in DOMAIN src /\ l.is = "data" /\ Advance
        /\ curSeg' = curSeg /\ dataLen' = dataLen /\ shdrTab' = shdrTab /\ code' = code
    BY DEF Data, Reading
  <2>2. c = FoldLeft(Value, [m |-> lb_map, cont |-> << >>, rels |-> << >>], l.items)
    BY DEF Values, NoValues
  <2> HIDE DEF c
  <2>3. curAddr' = curAddr + l.times * l.len * Len(c.cont)
    BY <2>2 DEF Data
  <2>4. defLbs' = IF scanLop = 1 /\ l.times # 0 /\ curSeg = ".data"
                  THEN Append(defLbs, [times |-> l.times, len |-> l.len, cont |-> c.cont])
                  ELSE defLbs
    BY <2>2 DEF Data
  <2> QED  BY <2>1, <2>3, <2>4
<1>2. l \in AsmLines /\ d < pos
  <2>1. l = src[pos] /\ pos \in DOMAIN src /\ l.is = "data"
    BY <1>1 DEF Line
  <2>2. \A j \in DOMAIN src : src[j].is = "data" => d < j
    BY DEF Sections
  <2> HIDE DEF c, l
  <2> QED  BY <2>1, <2>2
<1>3. l.times \in Nat /\ l.len \in Nat /\ l.items \in Seq(Items)
  <2>1. l \in AsmLines /\ l.is = "data"
    BY <1>1, <1>2
  <2> HIDE DEF l
  <2>2. l.times \in Nat /\ l.len \in {1, 2, 4} /\ l.items \in Seq(Items)
    BY <2>1, LineFields
  <2> QED  BY <2>2
<1>4. IsSeq(c.cont) /\ Len(c.cont) = ItemCount(l.items)
  BY <1>3, ValuesLong DEF ValuesOK
<1>5. LineSize(l) = l.times * l.len * Len(c.cont)
  BY <1>1, <1>4 DEF LineSize
<1>6. PlaceOK /\ SegmentOK(d, b) /\ RecordsOK(d, b) /\ CodeWritten(d) /\ DataKept(d, b)
  BY DEF AsmAt
<1> HIDE DEF c, l
<1>7. Line = l
  BY DEF l
<1>8. PlaceOK' /\ SegmentOK(d, b)' /\ RecordsOK(d, b)'
      /\ pos \notin {1, d, b} /\ After(src)[pos] = After(src)[pos - 1] + LineSize(Line)
  BY <1>1, <1>5, <1>6, <1>7, LineStep
<1>9. IsSeq(code) /\ IsSeq(defLbs) /\ AllSeqs(Kept)
  BY <1>6 DEF CodeWritten, DataKept
<1>10. Len(code) \in Nat /\ Len(FlattenSeq(Kept)) \in Nat
  BY <1>9, SeqFacts, FlattenLong
<1>11. \A n \in Nat : n + 0 = n
  OBVIOUS
<1>12. /\ DOMAIN src = 1 .. Len(src) /\ Len(src) \in Nat
       /\ d \in Nat /\ b \in Nat /\ 1 < d /\ d < b /\ b <= Len(src)
  BY AsmNumbers
<1>13. curSeg = ".data" <=> pos < b
  <2>1. pos \in Nat /\ 1 < pos /\ ~ (pos <= d) /\ (pos <= b <=> pos < b)
    BY <1>1, <1>2, <1>8, <1>12
  <2> QED  BY <1>6, <2>1 DEF SegmentOK
<1>14. Len(code') = Len(code) + (IF scanLop = 2 /\ pos < d THEN LineSize(Line) ELSE 0)
  <2>1. ~ (pos < d)
    BY <1>1, <1>2, <1>12
  <2> QED  BY <1>1, <1>10, <1>11, <2>1
<1>15. /\ IsSeq(defLbs') /\ AllSeqs(Kept')
       /\ Len(FlattenSeq(Kept')) =
            Len(FlattenSeq(Kept)) + (IF scanLop = 1 /\ d < pos /\ pos < b THEN LineSize(Line) ELSE 0)
  <2>1. CASE scanLop = 1 /\ l.times # 0 /\ curSeg = ".data"
    <3> DEFINE x == [times |-> l.times, len |-> l.len, cont |-> c.cont]
    <3>1. IsSeq(Written(x)) /\ Len(Written(x)) = l.times * (Len(c.cont) * l.len)
      <4>1. x.times = l.times /\ x.len = l.len /\ x.cont = c.cont
        OBVIOUS
      <4> HIDE DEF x
      <4> QED  BY <1>3, <1>4, <4>1, WrittenLong
    <3>2. Len(Written(x)) = LineSize(Line)
      <4>1. \A p, q, r \in Nat : p * (q * r) = p * r * q
        OBVIOUS
      <4>2. Len(c.cont) \in Nat
        BY <1>4, SeqFacts
      <4> HIDE DEF x
      <4> QED  BY <1>3, <1>5, <1>7, <3>1, <4>1, <4>2
    <3>3. defLbs' = Append(defLbs, x)
      BY <1>1, <2>1
    <3> HIDE DEF x
    <3> QED  BY <1>2, <1>9, <1>13, <2>1, <3>1, <3>2, <3>3, KeptMore
  <2>2. CASE ~ (scanLop = 1 /\ l.times # 0 /\ curSeg = ".data")
    <3>1. defLbs' = defLbs /\ Kept' = Kept
      BY <1>1, <2>2 DEF Kept
    <3>2. (IF scanLop = 1 /\ d < pos /\ pos < b THEN LineSize(Line) ELSE 0) = 0
      <4>1. l.times = 0 => LineSize(Line) = 0
        <5>1. \A q, r \in Nat : 0 * q * r = 0
          OBVIOUS
        <5>2. Len(c.cont) \in Nat
          BY <1>4, SeqFacts
        <5> QED  BY <1>3, <1>5, <1>7, <5>1, <5>2
      <4> QED  BY <1>13, <2>2, <4>1
    <3> QED  BY <1>9, <1>10, <1>11, <3>1, <3>2
  <2> QED  BY <2>1, <2>2
<1>16. CodeWritten(d)' /\ DataKept(d, b)'
  BY <1>1, <1>6, <1>8, <1>9, <1>14, <1>15, BytesStep
<1> QED
  BY <1>8, <1>16 DEF AsmAt

LEMMA InstStep ==
    ASSUME src \in Seq(AsmLines), NEW d \in DOMAIN src, NEW b \in DOMAIN src, Sections(src, d, b),
           AsmAt(d, b), Instruction
    PROVE  AsmAt(d, b)'
<1>1. /\ scanLop \in {1, 2} /\ pos \in DOMAIN src /\ Line.is = "inst" /\ Advance
      /\ curSeg' = curSeg /\ dataLen' = dataLen /\ shdrTab' = shdrTab /\ defLbs' = defLbs
  BY DEF Instruction, Reading
<1>2. Line \in AsmLines /\ pos < d
  BY <1>1 DEF Line, Sections
<1>3. PICK adr, n :
         LET c == Generate(Line, Parse(Line, adr))
             field == IF c.kind = "pc" THEN Bytes(n, 4) ELSE c.field
         IN  /\ curAddr' = curAddr + Len(c.head) + Len(field)
             /\ code' = IF scanLop = 2 THEN code \o c.head \o field ELSE code
  BY DEF Instruction
<1> DEFINE c == Generate(Line, Parse(Line, adr))
           field == IF c.kind = "pc" THEN Bytes(n, 4) ELSE c.field
<1>4. /\ curAddr' = curAddr + Len(c.head) + Len(field)
      /\ code' = IF scanLop = 2 THEN code \o c.head \o field ELSE code
  BY <1>3
<1>5. CodeOK(c) /\ SameSize(c, Generate(Line, Parse(Line, zeros)))
  BY <1>1, <1>2, LineFields, InstForm
<1> HIDE DEF c
<1>6. IsSeq(c.head) /\ IsSeq(field) /\ Len(field) = Len(c.field)
  <2>1. IsSeq(Bytes(n, 4)) /\ Len(Bytes(n, 4)) = 4
    BY BytesLong
  <2> QED  BY <1>5, <2>1 DEF CodeOK
<1>7. LineSize(Line) = Len(c.head) + Len(field)
  BY <1>1, <1>5, <1>6 DEF LineSize, SameSize
<1> HIDE DEF field
<1>8. PlaceOK /\ SegmentOK(d, b) /\ RecordsOK(d, b) /\ CodeWritten(d) /\ DataKept(d, b)
  BY DEF AsmAt
<1>9. curAddr \in Nat /\ Len(c.head) \in Nat /\ Len(field) \in Nat
  <2>1. pos - 1 \in 0 .. Len(src)
    BY <1>1
  <2> QED  BY <1>6, <1>8, <2>1, AsmNumbers, SeqFacts DEF PlaceOK
<1>10. \A x, y, z \in Nat : x + y + z = x + (y + z)
  OBVIOUS
<1>11. curAddr' = curAddr + LineSize(Line)
  BY <1>4, <1>7, <1>9, <1>10
<1>12. PlaceOK' /\ SegmentOK(d, b)' /\ RecordsOK(d, b)'
       /\ pos \notin {1, d, b} /\ After(src)[pos] = After(src)[pos - 1] + LineSize(Line)
  BY <1>1, <1>8, <1>11, LineStep
<1>13. Kept' = Kept
  BY <1>1 DEF Kept
<1>14. IsSeq(code) /\ IsSeq(defLbs) /\ AllSeqs(Kept)
  BY <1>8 DEF CodeWritten, DataKept
<1>15. Len(code) \in Nat /\ Len(FlattenSeq(Kept)) \in Nat
  BY <1>14, SeqFacts, FlattenLong
<1>16. \A x \in Nat : x + 0 = x
  OBVIOUS
<1>17. IsSeq(code') /\ Len(code') = Len(code) + (IF scanLop = 2 /\ pos < d THEN LineSize(Line) ELSE 0)
  <2>1. CASE scanLop = 2
    <3> DEFINE w == code \o c.head
    <3>1. IsSeq(w) /\ Len(w) = Len(code) + Len(c.head)
      BY <1>6, <1>14, SeqConcat
    <3>3. code' = w \o field
      BY <1>4, <2>1
    <3> HIDE DEF w
    <3>4. IsSeq(w \o field) /\ Len(w \o field) = Len(w) + Len(field)
      BY <1>6, <3>1, SeqConcat
    <3>2. IsSeq(code') /\ Len(code') = Len(code) + Len(c.head) + Len(field)
      BY <3>1, <3>3, <3>4
    <3> QED  BY <1>2, <1>7, <1>9, <1>10, <1>15, <2>1, <3>2
  <2>2. CASE scanLop # 2
    BY <1>4, <1>14, <1>15, <1>16, <2>2
  <2> QED  BY <2>1, <2>2
<1>18. Len(FlattenSeq(Kept')) =
          Len(FlattenSeq(Kept)) + (IF scanLop = 1 /\ d < pos /\ pos < b THEN LineSize(Line) ELSE 0)
  <2>1. ~ (d < pos)
    BY <1>1, <1>2, AsmNumbers
  <2> QED  BY <1>13, <1>15, <1>16, <2>1
<1>19. CodeWritten(d)' /\ DataKept(d, b)'
  BY <1>1, <1>8, <1>12, <1>13, <1>14, <1>17, <1>18, BytesStep
<1> QED
  BY <1>12, <1>19 DEF AsmAt

LEMMA TupleAppend ==
    /\ \A x, y : Append(<< x >>, y) = << x, y >>
    /\ \A x, y, z : Append(<< x, y >>, z) = << x, y, z >>
<1>0. \A s, w : IsSeq(s) => /\ IsSeq(Append(s, w)) /\ Len(Append(s, w)) = Len(s) + 1
                           /\ Append(s, w)[Len(s) + 1] = w
                           /\ \A k \in 1 .. Len(s) : Append(s, w)[k] = s[k]
  BY SeqAppend
<1>1. ASSUME NEW x, NEW y  PROVE Append(<< x >>, y) = << x, y >>
  <2> DEFINE s == << x >>
             t == Append(s, y)
  <2>1. IsSeq(s) /\ Len(s) = 1 /\ s[1] = x
    BY Tuples
  <2> HIDE DEF s
  <2>2. IsSeq(t) /\ Len(t) = 2 /\ t[2] = y /\ t[1] = x
    <3>1. IsSeq(t) /\ Len(t) = Len(s) + 1 /\ t[Len(s) + 1] = y /\ \A k \in 1 .. Len(s) : t[k] = s[k]
      BY <2>1, <1>0
    <3> HIDE DEF t
    <3> QED  BY <2>1, <3>1
  <2> HIDE DEF t
  <2>3. t = [k \in 1 .. 2 |-> t[k]]
    BY <2>2, SeqFacts
  <2>4. t = << x, y >>
    BY <2>2, <2>3
  <2> QED  BY <2>4 DEF t, s
<1>2. ASSUME NEW x, NEW y, NEW z  PROVE Append(<< x, y >>, z) = << x, y, z >>
  <2> DEFINE s == << x, y >>
             t == Append(s, z)
  <2>1. IsSeq(s) /\ Len(s) = 2 /\ s[1] = x /\ s[2] = y
    BY Tuples
  <2> HIDE DEF s
  <2>2. IsSeq(t) /\ Len(t) = 3 /\ t[3] = z /\ t[1] = x /\ t[2] = y
    <3>1. IsSeq(t) /\ Len(t) = Len(s) + 1 /\ t[Len(s) + 1] = z /\ \A k \in 1 .. Len(s) : t[k] = s[k]
      BY <1>0, <2>1
    <3> HIDE DEF t
    <3> QED  BY <2>1, <3>1
  <2> HIDE DEF t
  <2>3. t = [k \in 1 .. 3 |-> t[k]]
    BY <2>2, SeqFacts
  <2>4. t = << x, y, z >>
    BY <2>2, <2>3
  <2> QED  BY <2>4 DEF t, s
<1> QED
  BY <1>1, <1>2

\* A section starts; in the first pass the one before is recorded.
LEMMA SectionStep ==
    ASSUME src \in Seq(AsmLines), NEW d \in DOMAIN src, NEW b \in DOMAIN src, Sections(src, d, b),
           AsmAt(d, b), Section
    PROVE  AsmAt(d, b)'
<1>1. /\ scanLop \in {1, 2} /\ pos \in DOMAIN src /\ Line.is = "section"
      /\ pos' = pos + 1 /\ src' = src /\ scanLop' = scanLop
      /\ SwitchSeg(Line.name) /\ code' = code /\ defLbs' = defLbs
  BY DEF Section, Reading, Advance
<1>2. PlaceOK /\ SegmentOK(d, b) /\ RecordsOK(d, b) /\ CodeWritten(d) /\ DataKept(d, b)
  BY DEF AsmAt
<1>3. /\ Len(src) \in Nat /\ DOMAIN src = 1 .. Len(src)
      /\ d \in Nat /\ b \in Nat /\ 1 < d /\ d < b /\ b <= Len(src)
      /\ TextSize(d) \in Nat /\ DataSize(b) \in Nat /\ BssSize \in Nat
      /\ DataStart(d) \in Nat /\ BssStart(d, b) \in Nat
      /\ After(src)[0] = 0
      /\ \A j \in 1 .. Len(src) : After(src)[j] = PlaceAfter(src[j], After(src)[j - 1])
  BY AsmNumbers
<1>4. pos \in {1, d, b} /\ pos \in Nat
  BY <1>1, <1>3 DEF Line, Sections
<1>5. After(src)[pos] = 0
  BY <1>1, <1>3 DEF PlaceAfter, Line
<1>6. curSeg' = Line.name /\ curAddr' = 0
  BY <1>1 DEF SwitchSeg
<1>7. Line.name = IF pos = 1 THEN ".text" ELSE IF pos = d THEN ".data" ELSE ".bss"
  BY <1>3, <1>4 DEF Sections, Opens, Line
<1>8. PlaceOK'
  <2>1. pos + 1 \in 1 .. Len(src) + 1 /\ pos + 1 - 1 = pos
    BY <1>1, <1>3, <1>4
  <2> QED  BY <1>1, <1>5, <1>6, <2>1 DEF PlaceOK
<1>9. SegmentOK(d, b)'
  <2>1. pos + 1 # 1 /\ (pos + 1 <= d <=> pos = 1) /\ (pos + 1 <= b <=> pos \in {1, d})
    BY <1>3, <1>4
  <2> QED  BY <1>1, <1>4, <1>6, <1>7, <2>1 DEF SegmentOK
<1>10. /\ TextSize(d)' = TextSize(d) /\ DataSize(b)' = DataSize(b)
       /\ DataStart(d)' = DataStart(d) /\ BssStart(d, b)' = BssStart(d, b)
       /\ TextHdr(d)' = TextHdr(d) /\ DataHdr(d, b)' = DataHdr(d, b) /\ BssHdr(d, b)' = BssHdr(d, b)
  BY <1>1 DEF TextHdr, DataHdr, BssHdr, TextSize, DataSize, BssSize, DataStart, BssStart
<1>11. RecordsOK(d, b)'
  <2>1. CASE scanLop = 2
    <3>1. shdrTab' = shdrTab /\ dataLen' = dataLen
      BY <1>1, <2>1 DEF SwitchSeg
    <3> QED  BY <1>1, <1>2, <1>10, <2>1, <3>1 DEF RecordsOK
  <2>2. CASE scanLop = 1 /\ pos = 1
    <3>1. shdrTab = << >> /\ dataLen = 0 /\ curSeg = "" /\ curAddr = 0
      <4>1. pos <= d /\ pos - 1 = 0
        BY <1>3, <2>2
      <4>2. shdrTab = << >> /\ dataLen = 0
        BY <1>2, <2>2, <4>1 DEF RecordsOK
      <4>3. curSeg = "" /\ curAddr = 0
        BY <1>2, <1>3, <2>2, <4>1 DEF SegmentOK, PlaceOK
      <4> QED  BY <4>2, <4>3
    <3>2. Aligned(0, 4) = 0
      BY DEF Aligned
    <3>3. shdrTab' = << >> /\ dataLen' = 0
      <4>1. shdrTab' = shdrTab /\ dataLen' = Aligned(0, 4) + 0
        BY <1>1, <2>2, <3>1 DEF SwitchSeg
      <4>2. dataLen' = 0 + 0
        BY <3>2, <4>1
      <4>3. dataLen' = 0
        BY <4>2
      <4> QED  BY <3>1, <4>1, <4>3
    <3>4. pos + 1 <= d /\ ~ (d < pos + 1) /\ ~ (b < pos + 1)
      BY <1>3, <2>2
    <3> QED  BY <1>1, <2>2, <3>3, <3>4 DEF RecordsOK
  <2>3. CASE scanLop = 1 /\ pos = d
    <3>1. shdrTab = << >> /\ dataLen = 0 /\ curSeg = ".text" /\ curAddr = TextSize(d)
      <4>1. pos <= d /\ 1 < pos
        BY <1>3, <2>3
      <4>2. shdrTab = << >> /\ dataLen = 0
        BY <1>2, <2>3, <4>1 DEF RecordsOK
      <4>3. curSeg = ".text" /\ curAddr = TextSize(d)
        BY <1>2, <2>3, <4>1 DEF SegmentOK, PlaceOK, TextSize
      <4> QED  BY <4>2, <4>3
    <3>2. Aligned(0, 4) = 0
      BY DEF Aligned
    <3>3. /\ shdrTab' = Append(<< >>, Hdr(".text", EhdrSize + Aligned(0, 4), TextSize(d)))
          /\ dataLen' = Aligned(0, 4) + TextSize(d)
      BY <1>1, <2>3, <3>1 DEF SwitchSeg
    <3>4. EhdrSize + 0 = EhdrSize /\ 0 + TextSize(d) = TextSize(d)
      BY <1>3 DEF EhdrSize
    <3>5. Append(<< >>, TextHdr(d)) = << TextHdr(d) >>
      OBVIOUS
    <3>6. shdrTab' = << TextHdr(d) >> /\ dataLen' = TextSize(d)
      BY <3>2, <3>3, <3>4, <3>5 DEF TextHdr
    <3>7. ~ (pos + 1 <= d) /\ pos + 1 <= b /\ ~ (b < pos + 1)
      BY <1>3, <2>3
    <3> QED  BY <1>1, <1>10, <2>3, <3>6, <3>7 DEF RecordsOK
  <2>4. CASE scanLop = 1 /\ pos = b
    <3>0. d < pos /\ pos <= b /\ ~ (pos <= d) /\ 1 < pos
      BY <1>3, <2>4
    <3>1. shdrTab = << TextHdr(d) >> /\ dataLen = TextSize(d) /\ curSeg = ".data" /\ curAddr = DataSize(b)
      BY <1>2, <2>4, <3>0 DEF RecordsOK, SegmentOK, PlaceOK, DataSize
    <3>3. shdrTab' = Append(<< TextHdr(d) >>, DataHdr(d, b)) /\ dataLen' = DataStart(d) + DataSize(b)
      BY <1>1, <2>4, <3>1 DEF SwitchSeg, DataHdr, DataStart
    <3>4. ~ (pos + 1 <= d) /\ ~ (pos + 1 <= b)
      BY <1>3, <2>4
    <3> QED  BY <1>1, <1>10, <2>4, <3>3, <3>4, TupleAppend DEF RecordsOK
  <2> QED  BY <1>1, <1>4, <2>1, <2>2, <2>3, <2>4
<1>12. CodeWritten(d)'
  <2>1. (pos + 1 <= d <=> pos = 1) /\ (pos <= d <=> pos \in {1, d}) /\ pos + 1 - 1 = pos
    BY <1>3, <1>4
  <2>2. pos = 1 => After(src)[pos - 1] = 0
    BY <1>3
  <2>3. pos = d => After(src)[pos - 1] = TextSize(d)
    BY DEF TextSize
  <2> QED  BY <1>1, <1>2, <1>3, <1>4, <1>5, <1>10, <2>1, <2>2, <2>3 DEF CodeWritten
<1>13. DataKept(d, b)'
  <2>1. /\ pos + 1 - 1 = pos
        /\ (pos + 1 <= d <=> pos = 1) /\ (pos <= d <=> pos \in {1, d})
        /\ (pos + 1 <= b <=> pos \in {1, d}) /\ pos <= b
    BY <1>3, <1>4
  <2>2. pos = b => After(src)[pos - 1] = DataSize(b)
    BY DEF DataSize
  <2>3. Kept' = Kept
    BY <1>1 DEF Kept
  <2> QED  BY <1>1, <1>2, <1>3, <1>4, <1>5, <1>10, <2>1, <2>2, <2>3 DEF DataKept
<1> QED
  BY <1>8, <1>9, <1>11, <1>12, <1>13 DEF AsmAt

LEMMA ReopenStep ==
    ASSUME src \in Seq(AsmLines), NEW d \in DOMAIN src, NEW b \in DOMAIN src, Sections(src, d, b),
           AsmAt(d, b), Reopen
    PROVE  AsmAt(d, b)'
<1>1. /\ scanLop = 1 /\ pos = Len(src) + 1 /\ scanLop' = 2 /\ pos' = 1 /\ src' = src
      /\ \E next : SwitchSeg(next)
      /\ code' = code /\ defLbs' = defLbs
  BY DEF Reopen
<1>2. PlaceOK /\ SegmentOK(d, b) /\ RecordsOK(d, b) /\ CodeWritten(d) /\ DataKept(d, b)
  BY DEF AsmAt
<1>3. /\ Len(src) \in Nat /\ DOMAIN src = 1 .. Len(src)
      /\ d \in Nat /\ b \in Nat /\ 1 < d /\ d < b /\ b <= Len(src)
      /\ DataStart(d) \in Nat /\ DataSize(b) \in Nat /\ After(src)[0] = 0
  BY AsmNumbers
<1>4. b < pos /\ ~ (pos <= b) /\ ~ (pos <= d) /\ 1 < pos /\ pos - 1 = Len(src)
  BY <1>1, <1>3
<1>5. /\ curSeg = ".bss" /\ curAddr = BssSize
      /\ shdrTab = << TextHdr(d), DataHdr(d, b) >> /\ dataLen = DataStart(d) + DataSize(b)
  BY <1>1, <1>2, <1>4 DEF SegmentOK, PlaceOK, RecordsOK, BssSize
<1>6. curAddr' = 0 /\ shdrTab' = Append(shdrTab, BssHdr(d, b)) /\ dataLen' = BssStart(d, b)
  BY <1>1, <1>5 DEF SwitchSeg, BssHdr, BssStart
<1>8. /\ TextSize(d)' = TextSize(d) /\ DataSize(b)' = DataSize(b) /\ BssStart(d, b)' = BssStart(d, b)
      /\ TextHdr(d)' = TextHdr(d) /\ DataHdr(d, b)' = DataHdr(d, b) /\ BssHdr(d, b)' = BssHdr(d, b)
  BY <1>1 DEF TextHdr, DataHdr, BssHdr, TextSize, DataSize, BssSize, DataStart, BssStart
<1>9. PlaceOK'
  <2>1. 1 \in 1 .. Len(src) + 1 /\ 1 - 1 = 0
    BY <1>3
  <2> QED  BY <1>1, <1>3, <1>6, <2>1 DEF PlaceOK
<1>10. SegmentOK(d, b)'
  BY <1>1 DEF SegmentOK
<1>11. RecordsOK(d, b)'
  BY <1>1, <1>5, <1>6, <1>8, TupleAppend DEF RecordsOK
<1>12. CodeWritten(d)'
  <2>1. 1 <= d /\ 1 - 1 = 0
    BY <1>3
  <2> QED  BY <1>1, <1>2, <1>3, <2>1 DEF CodeWritten
<1>13. DataKept(d, b)'
  <2>1. Kept' = Kept
    BY <1>1 DEF Kept
  <2> QED  BY <1>1, <1>2, <1>4, <1>8, <2>1 DEF DataKept
<1> QED
  BY <1>9, <1>10, <1>11, <1>12, <1>13 DEF AsmAt

-----------------------------------------------------------------------------
(* The assembler starts, and ends. *)

\* At the start nothing is recorded, and nothing written.
LEMMA NothingYet ==
    /\ [k \in DOMAIN << >> |-> Written(<< >>[k])] = << >>
    /\ FlattenSeq(<< >>) = << >> /\ AllSeqs(<< >>)
<1>1. DOMAIN << >> = 1 .. 0 /\ 0 \in Nat
  BY Tuples, SeqFacts
<1> DEFINE w == [k \in 1 .. 0 |-> Written(<< >>[k])]
<1>2. IsSeq(w) /\ Len(w) = 0
  BY <1>1, SeqMade
<1>3. w = << >>
  <2> HIDE DEF w
  <2> QED  BY <1>2 DEF IsSeq
<1>4. FlattenSeq(<< >>) = << >>
  BY DEF FlattenSeq
<1>5. AllSeqs(<< >>)
  BY Tuples DEF AllSeqs
<1> QED
  BY <1>1, <1>3, <1>4, <1>5

LEMMA FreshOK ==
    ASSUME NEW f, IsFile(f), Fresh(f)
    PROVE  AsmOK
<1>1. /\ src = f /\ pos = 1 /\ scanLop = 1 /\ curSeg = "" /\ curAddr = 0 /\ dataLen = 0
      /\ defLbs = << >> /\ shdrTab = << >> /\ code = << >>
  BY DEF Fresh
<1>2. src \in Seq(AsmLines)
  BY <1>1 DEF IsFile
<1>3. PICK d, b \in DOMAIN src : Sections(src, d, b)
  BY <1>1 DEF IsFile
<1>4. Len(src) \in Nat /\ d \in Nat /\ b \in Nat /\ 1 < d /\ d < b /\ After(src)[0] = 0
  BY <1>2, <1>3, AsmNumbers
<1>5. 1 \in 1 .. Len(src) + 1 /\ 1 - 1 = 0 /\ 1 <= d /\ ~ (1 < 1) /\ ~ (d < 1) /\ ~ (b < 1)
  BY <1>4
<1>6. PlaceOK
  <2>1. pos = 1 /\ scanLop = 1 /\ curAddr = 0 /\ After(src)[pos - 1] = 0
    BY <1>1, <1>4, <1>5
  <2> QED  BY <1>5, <2>1 DEF PlaceOK
<1>7. SegmentOK(d, b)
  BY <1>1, <1>5 DEF SegmentOK
<1>8. RecordsOK(d, b)
  BY <1>1, <1>5 DEF RecordsOK
<1>9. CodeWritten(d)
  <2>1. scanLop = 1 /\ IsSeq(code) /\ Len(code) = 0
    BY <1>1, Tuples
  <2> QED  BY <2>1 DEF CodeWritten
<1>10. DataKept(d, b)
  <2>1. Kept = << >>
    BY <1>1, NothingYet DEF Kept
  <2> QED  BY <1>1, <1>5, <2>1, NothingYet, Tuples DEF DataKept
<1>11. AsmAt(d, b)
  BY <1>6, <1>7, <1>8, <1>9, <1>10 DEF AsmAt
<1> QED
  BY <1>2, <1>3, <1>11 DEF AsmOK

LEMMA RestartedOK ==
    ASSUME NEW f, IsFile(f), Restarted(f)
    PROVE  AsmOK'
<1>1. /\ src' = f /\ pos' = 1 /\ scanLop' = 1 /\ curSeg' = "" /\ curAddr' = 0 /\ dataLen' = 0
      /\ defLbs' = << >> /\ shdrTab' = << >> /\ code' = << >>
  BY DEF Restarted
<1>2. f \in Seq(AsmLines)
  BY DEF IsFile
<1>3. PICK d, b \in DOMAIN f : Sections(f, d, b)
  BY DEF IsFile
<1>4. 1 < d /\ d < b /\ Len(f) \in Nat /\ d \in Nat /\ b \in Nat /\ After(f)[0] = 0
  <2>1. IsAfter(f, After(f), Len(f)) /\ Len(f) \in Nat
    BY <1>2, AfterIs
  <2> QED  BY <1>2, <1>3, <2>1 DEF IsAfter, Sections
<1>5. 1 \in 1 .. Len(f) + 1 /\ 1 - 1 = 0 /\ 1 <= d /\ ~ (1 < 1) /\ ~ (d < 1) /\ ~ (b < 1)
  BY <1>4
<1>6. PlaceOK'
  <2>1. pos' = 1 /\ scanLop' = 1 /\ curAddr' = 0 /\ src' = f /\ After(f)[pos' - 1] = 0
    BY <1>1, <1>4, <1>5
  <2> QED  BY <1>5, <2>1 DEF PlaceOK
<1>7. SegmentOK(d, b)'
  BY <1>1, <1>5 DEF SegmentOK
<1>8. RecordsOK(d, b)'
  BY <1>1, <1>5 DEF RecordsOK
<1>9. CodeWritten(d)'
  <2>1. scanLop' = 1 /\ IsSeq(code') /\ Len(code') = 0
    BY <1>1, Tuples
  <2> QED  BY <2>1 DEF CodeWritten
<1>10. DataKept(d, b)'
  <2>1. Kept' = << >>
    BY <1>1, NothingYet DEF Kept
  <2> QED  BY <1>1, <1>5, <2>1, NothingYet, Tuples DEF DataKept
<1>11. AsmAt(d, b)'
  BY <1>6, <1>7, <1>8, <1>9, <1>10 DEF AsmAt
<1>12. Sections(src, d, b)' /\ (DOMAIN src)' = DOMAIN f
  BY <1>1, <1>3 DEF Sections, Opens
<1> QED
  BY <1>1, <1>2, <1>3, <1>11, <1>12 DEF AsmOK

\* What the invariant does not mention may change.
LEMMA AsmUnchanged ==
    ASSUME AsmOK, pos' = pos, src' = src,
           scanLop' = scanLop \/ (scanLop = 2 /\ scanLop' = 3 /\ pos = Len(src) + 1),
           curSeg' = curSeg, curAddr' = curAddr, dataLen' = dataLen, shdrTab' = shdrTab,
           code' = code, defLbs' = defLbs
    PROVE  AsmOK'
<1>1. PICK d, b \in DOMAIN src : Sections(src, d, b) /\ AsmAt(d, b)
  BY DEF AsmOK
<1>2. PlaceOK /\ SegmentOK(d, b) /\ RecordsOK(d, b) /\ CodeWritten(d) /\ DataKept(d, b)
  BY <1>1 DEF AsmAt
<1>3. scanLop' \in {1, 2, 3} /\ (scanLop' = 1 <=> scanLop = 1) /\ (scanLop' = 3 => pos = Len(src) + 1)
  BY <1>2 DEF PlaceOK
<1>4. PlaceOK'
  BY <1>2, <1>3 DEF PlaceOK
<1>5. SegmentOK(d, b)'
  BY <1>2, <1>3 DEF SegmentOK
<1>6. RecordsOK(d, b)'
  BY <1>2, <1>3 DEF RecordsOK, TextHdr, DataHdr, BssHdr, TextSize, DataSize, BssSize, DataStart, BssStart
<1>7. CodeWritten(d)'
  BY <1>2, <1>3 DEF CodeWritten, TextSize
<1>8. DataKept(d, b)'
  <2>1. Kept' = Kept
    BY DEF Kept
  <2> QED  BY <1>2, <1>3, <2>1 DEF DataKept, DataSize
<1>9. Sections(src, d, b)'
  BY <1>1 DEF Sections, Opens
<1>10. AsmAt(d, b)'
  BY <1>4, <1>5, <1>6, <1>7, <1>8 DEF AsmAt
<1> QED
  BY <1>1, <1>9, <1>10 DEF AsmOK

LEMMA AsmSteps ==
    ASSUME AsmOK, AsmNext
    PROVE  AsmOK'
<1>1. src \in Seq(AsmLines)
  BY DEF AsmOK
<1>2. PICK d, b \in DOMAIN src : Sections(src, d, b) /\ AsmAt(d, b)
  BY DEF AsmOK
<1>3. CASE WriteElf
  <2>1. /\ scanLop = 2 /\ scanLop' = 3 /\ pos = Len(src) + 1 /\ pos' = pos /\ src' = src
        /\ curSeg' = curSeg /\ curAddr' = curAddr /\ dataLen' = dataLen /\ shdrTab' = shdrTab
        /\ code' = code /\ defLbs' = defLbs
    BY <1>3 DEF WriteElf, placeVars
  <2> QED  BY <2>1, AsmUnchanged
<1>4. CASE ~ WriteElf
  <2>1. src' = src
    BY <1>4 DEF AsmNext, Section, Reopen, Global, Label, Equ, Data, Instruction, Advance
  <2>2. AsmAt(d, b)'
    <3>1. CASE Section
      BY <1>1, <1>2, <3>1, SectionStep
    <3>2. CASE Reopen
      BY <1>1, <1>2, <3>2, ReopenStep
    <3>3. CASE Global \/ Label \/ Equ
      BY <1>1, <1>2, <3>3, QuietStep
    <3>4. CASE Data
      BY <1>1, <1>2, <3>4, DataLineStep
    <3>5. CASE Instruction
      BY <1>1, <1>2, <3>5, InstStep
    <3> QED  BY <1>4, <3>1, <3>2, <3>3, <3>4, <3>5 DEF AsmNext
  <2>3. Sections(src, d, b)'
    BY <1>2, <2>1 DEF Sections, Opens
  <2> QED  BY <1>1, <1>2, <2>1, <2>2, <2>3 DEF AsmOK
<1> QED
  BY <1>3, <1>4

-----------------------------------------------------------------------------
(* Where the parts of a file stand. *)

LEMMA PartAtIs ==
    ASSUME NEW parts, NEW from, NEW n \in Nat
    PROVE  \E r : /\ r[0] = from /\ r[n] = PartAt(parts, n + 1, from)
                  /\ \A k \in 1 .. n : r[k] = r[k - 1] + parts[k][2]
<1> DEFINE f == [j \in 1 .. n |-> parts[j][2]]
<1>0. DOMAIN f = 1 .. n /\ (\A k \in 1 .. n : f[k] = parts[k][2])
      /\ PartAt(parts, n + 1, from) = FoldLeft(LAMBDA at, size : at + size, from, f)
  <2>1. f = [j \in 1 .. (n + 1) - 1 |-> parts[j][2]]
    OBVIOUS
  <2> QED  BY <2>1 DEF PartAt
<1> HIDE DEF f
<1> DEFINE P(g) == g = [s \in SUBSET (1 .. n) |-> IF s = {} THEN from ELSE g[s \ {Max(s)}] + f[Max(s)]]
<1>1. \A v, x : FoldStep("sum", 0, v, x) = v + x
  BY DEF FoldStep
<1>2. \A g : P(g) <=> IsFold(g, "sum", 0, from, n, f)
  BY <1>1 DEF IsFold
<1>3. \E g : P(g)
  BY <1>2, FoldExists
<1>4. PartAt(parts, n + 1, from) = (CHOOSE g : P(g))[1 .. n]
  BY <1>0 DEF FoldLeft, MapThenFoldSet
<1> HIDE DEF P
<1>5. PICK g : P(g) /\ PartAt(parts, n + 1, from) = g[1 .. n]
  BY <1>3, <1>4
<1>6. IsFold(g, "sum", 0, from, n, f)
  BY <1>2, <1>5
<1>7. PICK r : Goes(r, "sum", 0, from, n, f, g[1 .. n])
  BY <1>6, FoldGoes
<1>8. \A k \in 1 .. n : r[k] = r[k - 1] + parts[k][2]
  <2>1. \A k \in 1 .. n : r[k] = FoldStep("sum", 0, r[k - 1], f[k])
    BY <1>7 DEF Goes
  <2> QED  BY <1>0, <1>1, <2>1
<1> QED
  BY <1>5, <1>7, <1>8 DEF Goes

\* One part after the other.
LEMMA PartAfter ==
    ASSUME NEW parts, NEW from
    PROVE  /\ PartAt(parts, 1, from) = from
           /\ \A k \in Nat \ {0} : PartAt(parts, k + 1, from) = PartAt(parts, k, from) + parts[k][2]
<1>1. PartAt(parts, 1, from) = from
  <2>1. PICK n \in Nat : n = 0 /\ n + 1 = 1
    OBVIOUS
  <2>2. PICK r : r[0] = from /\ r[n] = PartAt(parts, n + 1, from)
    BY PartAtIs
  <2> QED  BY <2>1, <2>2
<1>2. ASSUME NEW k \in Nat \ {0}
      PROVE  PartAt(parts, k + 1, from) = PartAt(parts, k, from) + parts[k][2]
  <2> DEFINE m == k - 1
  <2>1. k \in Nat /\ m \in Nat /\ m + 1 = k /\ k \in 1 .. k
    OBVIOUS
  <2> HIDE DEF m
  <2>2. PICK r : /\ r[0] = from /\ r[k] = PartAt(parts, k + 1, from)
                 /\ \A j \in 1 .. k : r[j] = r[j - 1] + parts[j][2]
    BY <2>1, PartAtIs
  <2>3. PICK q : /\ q[0] = from /\ q[m] = PartAt(parts, m + 1, from)
                 /\ \A j \in 1 .. m : q[j] = q[j - 1] + parts[j][2]
    BY <2>1, PartAtIs
  <2> DEFINE S == {j \in Nat : j <= m => r[j] = q[j]}
  <2>4. 0 \in S
    BY <2>2, <2>3
  <2>5. ASSUME NEW j \in S  PROVE j + 1 \in S
    <3>1. j \in Nat /\ j + 1 \in Nat /\ j + 1 - 1 = j
      BY <2>5
    <3>2. ASSUME j + 1 <= m  PROVE r[j + 1] = q[j + 1]
      <4>1. j <= m /\ j + 1 \in 1 .. m /\ j + 1 \in 1 .. k
        BY <2>1, <3>1, <3>2
      <4>2. r[j] = q[j]
        BY <2>5, <4>1
      <4>3. r[j + 1] = r[j] + parts[j + 1][2]
        BY <2>2, <3>1, <4>1
      <4>4. q[j + 1] = q[j] + parts[j + 1][2]
        BY <2>3, <3>1, <4>1
      <4> QED  BY <4>2, <4>3, <4>4
    <3> QED  BY <3>1, <3>2
  <2>6. S = Nat
    <3>1. S \in SUBSET Nat
      OBVIOUS
    <3> HIDE DEF S
    <3> QED  BY <2>4, <2>5, <3>1, Induction
  <2>7. r[m] = q[m]
    <3>1. m \in S
      BY <2>1, <2>6
    <3> QED  BY <2>1, <3>1
  <2>8. r[k] = r[m] + parts[k][2]
    <3>1. k - 1 = m
      BY DEF m
    <3> QED  BY <2>1, <2>2, <3>1
  <2> QED  BY <2>1, <2>2, <2>3, <2>7, <2>8
<1> QED
  BY <1>1, <1>2

-----------------------------------------------------------------------------
(* The object file. *)

\* The names and the sizes of its section headers do not matter here for the
\* tables; those of the three sections are what the first pass recorded.
TableHeaders ==
    LET tables == EhdrSize + dataLen
        symtab == tables + ShstrtabSize + Reserved * ShdrSize
        strtab == symtab + Cardinality(Exported) * SymSize
        reltext == strtab + StrtabSize
        text == Len(RelsOf(".text")) * RelSize
    IN  << Hdr(".shstrtab", tables, ShstrtabSize),
           Hdr(".symtab", symtab, Cardinality(Exported) * SymSize),
           Hdr(".strtab", strtab, StrtabSize),
           Hdr(".rel.text", reltext, text),
           Hdr(".rel.data", reltext + text, Len(RelsOf(".data")) * RelSize) >>

LEMMA LongTuples ==
    /\ \A a, b, c : IsSeq(<< a, b, c >>) /\ Len(<< a, b, c >>) = 3
    /\ \A a, b, c, d, e : IsSeq(<< a, b, c, d, e >>) /\ Len(<< a, b, c, d, e >>) = 5
<1>1. \A a, b, c : << a, b, c >> \in Seq({a, b, c}) /\ Len(<< a, b, c >>) = 3
  OBVIOUS
<1>2. \A a, b, c, d, e : << a, b, c, d, e >> \in Seq({a, b, c, d, e}) /\ Len(<< a, b, c, d, e >>) = 5
  OBVIOUS
<1> QED
  BY <1>1, <1>2 DEF IsSeq

Joins(r, s, t, m, n) ==
    /\ IsSeq(r) /\ Len(r) = m + n
    /\ \A k \in 1 .. m : r[k] = s[k]
    /\ \A k \in 1 .. n : r[m + k] = t[k]

LEMMA ConcatJoins ==
    ASSUME NEW s, NEW t, IsSeq(s), IsSeq(t)
    PROVE  Joins(s \o t, s, t, Len(s), Len(t))
BY SeqConcat DEF Joins

LEMMA HeadersAre ==
    ASSUME NEW t, NEW u, NEW v, shdrTab = << t, u, v >>
    PROVE  /\ IsSeq(Headers) /\ Len(Headers) = 9
           /\ Headers[1] = Hdr("", 0, 0) /\ Headers[2] = t /\ Headers[3] = u /\ Headers[4] = v
           /\ \A k \in 1 .. 5 : Headers[4 + k] = TableHeaders[k]
<1> DEFINE x == << Hdr("", 0, 0) >>
           y == << t, u, v >>
           z == TableHeaders
           w == x \o y
<1>1. IsSeq(x) /\ Len(x) = 1 /\ x[1] = Hdr("", 0, 0)
  BY Tuples
<1>2. IsSeq(y) /\ Len(y) = 3 /\ y[1] = t /\ y[2] = u /\ y[3] = v
  BY LongTuples
<1>3. IsSeq(z) /\ Len(z) = 5
  BY LongTuples DEF TableHeaders
<1>4. Headers = x \o y \o z
  BY DEF Headers, TableHeaders
<1> HIDE DEF x, y, z
<1>5. /\ IsSeq(w) /\ Len(w) = 4
      /\ w[1] = Hdr("", 0, 0) /\ w[2] = t /\ w[3] = u /\ w[4] = v
  <2> DEFINE q == x \o y
  <2>1. q = x \o y /\ 1 \in Nat /\ 3 \in Nat /\ 1 + 3 = 4
    OBVIOUS
  <2> HIDE DEF q
  <2>2. /\ IsSeq(q) /\ Len(q) = 4
        /\ \A k \in 1 .. 1 : q[k] = x[k]
        /\ \A k \in 1 .. 3 : q[1 + k] = y[k]
    <3>1. IsSeq(q) /\ Len(q) = 1 + 3
          /\ (\A k \in 1 .. 1 : q[k] = x[k]) /\ \A k \in 1 .. 3 : q[1 + k] = y[k]
      <4>1. Joins(x \o y, x, y, Len(x), Len(y))
        BY <1>1, <1>2, ConcatJoins
      <4>2. Joins(q, x, y, 1, 3)
        BY <1>1, <1>2, <2>1, <4>1
      <4> QED  BY <4>2 DEF Joins
    <3> QED  BY <3>1
  <2>3. q[1] = x[1] /\ q[2] = y[1] /\ q[3] = y[2] /\ q[4] = y[3]
    <3>1. q[1 + 1] = y[1] /\ q[1 + 2] = y[2] /\ q[1 + 3] = y[3] /\ q[1] = x[1]
      BY <2>2
    <3> QED  BY <3>1
  <2> QED  BY <1>1, <1>2, <2>2, <2>3 DEF q
<1> HIDE DEF w
<1> DEFINE r == w \o z
<1>6. r = w \o z /\ 4 \in Nat /\ 5 \in Nat
  OBVIOUS
<1> HIDE DEF r
<1>7. /\ IsSeq(r) /\ Len(r) = 9
      /\ \A k \in 1 .. 4 : r[k] = w[k]
      /\ \A k \in 1 .. 5 : r[4 + k] = z[k]
  <2>1. IsSeq(r) /\ Len(r) = 4 + 5
        /\ (\A k \in 1 .. 4 : r[k] = w[k]) /\ \A k \in 1 .. 5 : r[4 + k] = z[k]
    <3>1. Joins(w \o z, w, z, Len(w), Len(z))
      BY <1>3, <1>5, ConcatJoins
    <3>2. Joins(r, w, z, 4, 5)
      BY <1>3, <1>5, <1>6, <3>1
    <3> QED  BY <3>2 DEF Joins
  <2> QED  BY <2>1
<1>8. Headers = r
  BY <1>4 DEF w, r
<1>9. r[1] = w[1] /\ r[2] = w[2] /\ r[3] = w[3] /\ r[4] = w[4]
  BY <1>7
<1> QED
  BY <1>5, <1>7, <1>8, <1>9 DEF z

\* What the assembler knows when it writes the object file.
LEMMA AtTheEnd ==
    ASSUME src \in Seq(AsmLines), NEW d \in DOMAIN src, NEW b \in DOMAIN src, Sections(src, d, b),
           AsmAt(d, b), scanLop = 2, pos = Len(src) + 1
    PROVE  /\ shdrTab = << TextHdr(d), DataHdr(d, b), BssHdr(d, b) >> /\ dataLen = BssStart(d, b)
           /\ IsSeq(code) /\ Len(code) = TextSize(d)
           /\ IsSeq(FlattenSeq(Kept)) /\ Len(FlattenSeq(Kept)) = DataSize(b)
<1>1. /\ d \in Nat /\ b \in Nat /\ 1 < d /\ d < b /\ b <= Len(src) /\ Len(src) \in Nat
  BY AsmNumbers
<1>2. ~ (pos <= d)
  BY <1>1
<1> QED
  BY <1>2, FlattenLong DEF AsmAt, RecordsOK, CodeWritten, DataKept

LEMMA FoundAt ==
    ASSUME NEW h, NEW i \in DOMAIN h, NEW name,
           \A k \in DOMAIN h : h[k].name = name <=> k = i
    PROVE  (CHOOSE k \in DOMAIN h : h[k].name = name) = i
OBVIOUS

LEMMA WriteElfOK ==
    ASSUME AsmOK, WriteElf, obj'.is = "object"
    PROVE  ElfOK(obj')
<1>1. PICK d, b \in DOMAIN src : Sections(src, d, b) /\ AsmAt(d, b)
  BY DEF AsmOK
<1>2. src \in Seq(AsmLines) /\ scanLop = 2 /\ pos = Len(src) + 1
  BY DEF AsmOK, WriteElf
<1>3. /\ shdrTab = << TextHdr(d), DataHdr(d, b), BssHdr(d, b) >>
      /\ IsSeq(code) /\ Len(code) = TextSize(d)
      /\ IsSeq(FlattenSeq(Kept)) /\ Len(FlattenSeq(Kept)) = DataSize(b)
  BY <1>1, <1>2, AtTheEnd
<1>4. obj'.shdrs = Headers /\ obj'.text = code /\ obj'.data = FlattenSeq(Kept)
  <2>1. ~ (ShstrtabUsed > StrtabSize)
    BY DEF WriteElf
  <2> QED  BY <2>1 DEF WriteElf, Kept
<1> DEFINE h == Headers
<1>5. DOMAIN h = 1 .. 9
  <2>1. IsSeq(h) /\ Len(h) = 9
    BY <1>3, HeadersAre
  <2> QED  BY <2>1, SeqFacts
<1>6. h[1] = Hdr("", 0, 0) /\ h[2] = TextHdr(d) /\ h[3] = DataHdr(d, b) /\ h[4] = BssHdr(d, b)
  BY <1>3, HeadersAre
<1>7. \A k \in 1 .. 5 : h[4 + k] = TableHeaders[k]
  BY <1>3, HeadersAre
<1> HIDE DEF h
<1>8. /\ h[1].name = "" /\ h[2].name = ".text" /\ h[3].name = ".data" /\ h[4].name = ".bss"
      /\ h[5].name = ".shstrtab" /\ h[6].name = ".symtab" /\ h[7].name = ".strtab"
      /\ h[8].name = ".rel.text" /\ h[9].name = ".rel.data"
      /\ h[2].size = TextSize(d) /\ h[3].size = DataSize(b) /\ h[4].size = BssSize
  <2>1. /\ h[1].name = "" /\ h[2].name = ".text" /\ h[3].name = ".data" /\ h[4].name = ".bss"
        /\ h[2].size = TextSize(d) /\ h[3].size = DataSize(b) /\ h[4].size = BssSize
    <3>1. /\ Hdr("", 0, 0).name = ""
          /\ TextHdr(d).name = ".text" /\ TextHdr(d).size = TextSize(d)
          /\ DataHdr(d, b).name = ".data" /\ DataHdr(d, b).size = DataSize(b)
          /\ BssHdr(d, b).name = ".bss" /\ BssHdr(d, b).size = BssSize
      BY DEF TextHdr, DataHdr, BssHdr, Hdr
    <3> QED  BY <1>6, <3>1
  <2>2. /\ TableHeaders[1].name = ".shstrtab" /\ TableHeaders[2].name = ".symtab"
        /\ TableHeaders[3].name = ".strtab" /\ TableHeaders[4].name = ".rel.text"
        /\ TableHeaders[5].name = ".rel.data"
    BY DEF TableHeaders, Hdr
  <2>3. /\ h[5] = TableHeaders[1] /\ h[6] = TableHeaders[2] /\ h[7] = TableHeaders[3]
        /\ h[8] = TableHeaders[4] /\ h[9] = TableHeaders[5]
    <3>1. /\ h[4 + 1] = TableHeaders[1] /\ h[4 + 2] = TableHeaders[2] /\ h[4 + 3] = TableHeaders[3]
          /\ h[4 + 4] = TableHeaders[4] /\ h[4 + 5] = TableHeaders[5]
      BY <1>7
    <3> QED  BY <3>1
  <2> QED  BY <2>1, <2>2, <2>3
<1>9. \A k \in 1 .. 9 : /\ h[k].name = ".text" <=> k = 2
                        /\ h[k].name = ".data" <=> k = 3
                        /\ h[k].name = ".bss" <=> k = 4
  <2>1. \A k \in 1 .. 9 : k \in {1, 2, 3, 4, 5, 6, 7, 8, 9}
    OBVIOUS
  <2> QED  BY <1>8, <2>1
<1>10. /\ SizeOf(obj', ".text") = TextSize(d) /\ SizeOf(obj', ".data") = DataSize(b)
      /\ SizeOf(obj', ".bss") = BssSize
  <2>1. obj'.shdrs = h
    BY <1>4 DEF h
  <2>2. /\ (CHOOSE k \in DOMAIN h : h[k].name = ".text") = 2
        /\ (CHOOSE k \in DOMAIN h : h[k].name = ".data") = 3
        /\ (CHOOSE k \in DOMAIN h : h[k].name = ".bss") = 4
    BY <1>5, <1>9, FoundAt
  <2> QED  BY <1>8, <2>1, <2>2 DEF SizeOf, Sh
<1>11. TextSize(d) \in Nat /\ DataSize(b) \in Nat /\ BssSize \in Nat
  BY <1>1, <1>2, AsmNumbers
<1> QED
  BY <1>3, <1>4, <1>10, <1>11 DEF ElfOK

-----------------------------------------------------------------------------
(* The headers of an object file tell where its parts stand.                *)

LEMMA PartsAre ==
    ASSUME NEW data
    PROVE  /\ DOMAIN Parts(data) = 1 .. 11
           /\ Parts(data)[1] = << "ehdr", EhdrSize >> /\ Parts(data)[2] = << ".text", Len(code) >>
           /\ Parts(data)[3] = << "pad", Padding(".text", ".data") >>
           /\ Parts(data)[4] = << ".data", Len(data) >>
           /\ Parts(data)[5] = << "pad", Padding(".data", ".bss") >>
           /\ Parts(data)[6] = << ".shstrtab", ShstrtabSize >>
           /\ Parts(data)[7] = << "shdrs", Len(Headers) * ShdrSize >>
           /\ Parts(data)[8] = << ".symtab", Cardinality(Exported) * SymSize >>
           /\ Parts(data)[9] = << ".strtab", StrtabSize >>
           /\ Parts(data)[10] = << ".rel.text", Len(RelsOf(".text")) * RelSize >>
           /\ Parts(data)[11] = << ".rel.data", Len(RelsOf(".data")) * RelSize >>
BY DEF Parts

\* The first part that has a name in a list of three.
LEMMA IndexIn ==
    ASSUME NEW t, NEW u, NEW v, shdrTab = << t, u, v >>,
           t.name = ".text", u.name = ".data", v.name = ".bss"
    PROVE  SegIndex(".text") = 1 /\ SegIndex(".data") = 2 /\ SegIndex(".bss") = 3
<1>1. DOMAIN shdrTab = 1 .. 3 /\ Len(shdrTab) = 3
      /\ shdrTab[1] = t /\ shdrTab[2] = u /\ shdrTab[3] = v
  OBVIOUS
<1>2. \A i \in 1 .. 3 : Min({i} \cup {3 + 1}) = i
  <2> TAKE i \in 1 .. 3
  <2> DEFINE S == {i} \cup {3 + 1}
  <2>1. i \in S /\ \A y \in S : i <= y
    OBVIOUS
  <2>2. \A x \in S : (\A y \in S : x <= y) => x = i
    BY <2>1
  <2> QED  BY <2>1, <2>2 DEF Min
<1>3. ASSUME NEW i \in 1 .. 3
      PROVE  SegIndex(shdrTab[i].name) = i
  <2>1. i \in {1, 2, 3}
    OBVIOUS
  <2>2. {k \in DOMAIN shdrTab : shdrTab[k].name = shdrTab[i].name} = {i}
    <3>1. \A k \in 1 .. 3 : k \in {1, 2, 3}
      OBVIOUS
    <3> QED  BY <1>1, <2>1, <3>1
  <2> QED  BY <1>1, <1>2, <2>2 DEF SegIndex
<1>4. 1 \in 1 .. 3 /\ 2 \in 1 .. 3 /\ 3 \in 1 .. 3
  OBVIOUS
<1> QED
  BY <1>1, <1>3, <1>4

\* The padding goes from the end of each section to the start of the next.
LEMMA PaddingIs ==
    ASSUME NEW t, NEW u, NEW v, shdrTab = << t, u, v >>,
           t.name = ".text", u.name = ".data", v.name = ".bss",
           t.off \in Nat, u.off \in Nat, v.off \in Nat, t.size \in Nat, u.size \in Nat,
           t.off + t.size <= u.off, u.off + u.size <= v.off
    PROVE  /\ Padding(".text", ".data") = u.off - (t.off + t.size)
           /\ Padding(".data", ".bss") = v.off - (u.off + u.size)
<1>1. shdrTab[1] = t /\ shdrTab[2] = u /\ shdrTab[3] = v
  OBVIOUS
<1>2. SegIndex(".text") = 1 /\ SegIndex(".data") = 2 /\ SegIndex(".bss") = 3
  BY IndexIn
<1>3. \A m, n \in Nat : m <= n => n - m \in Nat /\ (~ (n - m > 0) => n - m = 0)
  OBVIOUS
<1>4. t.off + t.size \in Nat /\ u.off + u.size \in Nat
  OBVIOUS
<1> QED
  BY <1>1, <1>2, <1>3, <1>4 DEF Padding

\* The headers t, u and v of the three sections of an object file with these data.
SectionsFollow(t, u, v, data) ==
    /\ shdrTab = << t, u, v >>
    /\ t.name = ".text" /\ u.name = ".data" /\ v.name = ".bss"
    /\ t.off = EhdrSize /\ u.off \in Nat /\ v.off \in Nat /\ t.size \in Nat /\ u.size \in Nat
    /\ t.off + t.size <= u.off /\ u.off + u.size <= v.off /\ v.off = EhdrSize + dataLen
    /\ Len(code) = t.size /\ Len(data) = u.size

\* The part that the header of a table is about.
PartOf(k) == IF k = 1 THEN 6 ELSE 6 + k

At(data) == [k \in 1 .. 11 |-> PartAt(Parts(data), k, 0)]

PlacesRight(t, u, data) ==
    /\ At(data)[2] = t.off /\ At(data)[4] = u.off
    /\ \A k \in 1 .. 5 : At(data)[PartOf(k)] = TableHeaders[k].off

LEMMA PlacesOfParts ==
    ASSUME NEW t, NEW u, NEW v, NEW data, SectionsFollow(t, u, v, data)
    PROVE  PlacesRight(t, u, data)
<1> DEFINE p == Parts(data)
           at == At(data)
<1>0. /\ shdrTab = << t, u, v >>
      /\ t.name = ".text" /\ u.name = ".data" /\ v.name = ".bss"
      /\ t.off = EhdrSize /\ u.off \in Nat /\ v.off \in Nat /\ t.size \in Nat /\ u.size \in Nat
      /\ t.off + t.size <= u.off /\ u.off + u.size <= v.off /\ v.off = EhdrSize + dataLen
      /\ Len(code) = t.size /\ Len(data) = u.size
  BY DEF SectionsFollow
<1>1. at[1] = 0 /\ \A k \in 1 .. 10 : at[k + 1] = at[k] + p[k][2]
  <2>1. at[1] = 0
    BY PartAfter DEF At
  <2>2. ASSUME NEW k \in 1 .. 10  PROVE at[k + 1] = at[k] + p[k][2]
    <3>1. k \in Nat \ {0} /\ k \in 1 .. 11 /\ k + 1 \in 1 .. 11
      OBVIOUS
    <3>2. PartAt(p, k + 1, 0) = PartAt(p, k, 0) + p[k][2]
      BY <3>1, PartAfter
    <3> QED  BY <3>1, <3>2 DEF At
  <2> QED  BY <2>1, <2>2
<1> HIDE DEF at
<1>2. /\ p[1][2] = EhdrSize /\ p[2][2] = t.size /\ p[3][2] = u.off - (t.off + t.size)
      /\ p[4][2] = u.size /\ p[5][2] = v.off - (u.off + u.size) /\ p[6][2] = ShstrtabSize
      /\ p[7][2] = Len(Headers) * ShdrSize /\ p[8][2] = Cardinality(Exported) * SymSize
      /\ p[9][2] = StrtabSize /\ p[10][2] = Len(RelsOf(".text")) * RelSize
  <2>1. EhdrSize \in Nat
    BY DEF EhdrSize
  <2>2. Padding(".text", ".data") = u.off - (t.off + t.size)
        /\ Padding(".data", ".bss") = v.off - (u.off + u.size)
    BY <1>0, <2>1, PaddingIs
  <2>3. \A a, c : << a, c >>[2] = c
    OBVIOUS
  <2>4. /\ p[1] = << "ehdr", EhdrSize >> /\ p[2] = << ".text", Len(code) >>
        /\ p[3] = << "pad", Padding(".text", ".data") >> /\ p[4] = << ".data", Len(data) >>
        /\ p[5] = << "pad", Padding(".data", ".bss") >> /\ p[6] = << ".shstrtab", ShstrtabSize >>
        /\ p[7] = << "shdrs", Len(Headers) * ShdrSize >>
        /\ p[8] = << ".symtab", Cardinality(Exported) * SymSize >> /\ p[9] = << ".strtab", StrtabSize >>
        /\ p[10] = << ".rel.text", Len(RelsOf(".text")) * RelSize >>
    BY PartsAre
  <2> HIDE DEF p
  <2> QED  BY <1>0, <2>2, <2>3, <2>4
<1> HIDE DEF p
<1>3. at[2] = t.off /\ at[3] = t.off + t.size
  <2>1. at[1 + 1] = at[1] + p[1][2] /\ at[2 + 1] = at[2] + p[2][2]
    BY <1>1
  <2>2. EhdrSize \in Nat
    BY DEF EhdrSize
  <2> QED  BY <1>0, <1>1, <1>2, <2>1, <2>2
<1>4. at[4] = u.off /\ at[5] = u.off + u.size /\ at[6] = v.off
  <2>1. at[3 + 1] = at[3] + p[3][2] /\ at[4 + 1] = at[4] + p[4][2] /\ at[5 + 1] = at[5] + p[5][2]
    BY <1>1
  <2>2. \A m, n \in Nat : m + (n - m) = n
    OBVIOUS
  <2>3. EhdrSize \in Nat
    BY DEF EhdrSize
  <2>4. t.off + t.size \in Nat /\ u.off + u.size \in Nat
    <3>1. \A m, n \in Nat : m + n \in Nat
      OBVIOUS
    <3>2. t.off \in Nat /\ u.off \in Nat /\ t.size \in Nat /\ u.size \in Nat
      BY <1>0, <2>3
    <3> QED  BY <3>1, <3>2
  <2>5. at[4] = u.off
    <3>1. (t.off + t.size) + (u.off - (t.off + t.size)) = u.off
      BY <1>0, <2>2, <2>4
    <3>2. at[4] = at[3] + p[3][2]
      BY <2>1
    <3> QED  BY <1>2, <1>3, <3>1, <3>2
  <2>6. at[5] = u.off + u.size
    BY <1>0, <1>2, <2>1, <2>5
  <2> QED  BY <1>0, <1>2, <2>1, <2>2, <2>4, <2>5, <2>6
<1>5. /\ at[6 + 1] = at[6] + p[6][2] /\ at[7 + 1] = at[7] + p[7][2] /\ at[8 + 1] = at[8] + p[8][2]
      /\ at[9 + 1] = at[9] + p[9][2] /\ at[10 + 1] = at[10] + p[10][2]
  BY <1>1
<1>6. Len(Headers) = Reserved
  BY <1>0, HeadersAre DEF Reserved
<1> DEFINE tables == EhdrSize + dataLen
           shdrs == tables + ShstrtabSize
           symtab == shdrs + Reserved * ShdrSize
           strtab == symtab + Cardinality(Exported) * SymSize
           reltext == strtab + StrtabSize
           reldata == reltext + Len(RelsOf(".text")) * RelSize
<1>7. at[6] = tables /\ at[8] = symtab /\ at[9] = strtab /\ at[10] = reltext /\ at[11] = reldata
  <2>1. at[6] = tables
    BY <1>0, <1>4
  <2>2. at[7] = shdrs
    BY <1>2, <1>5, <2>1
  <2>3. at[8] = symtab
    BY <1>2, <1>5, <1>6, <2>2
  <2>4. at[9] = strtab
    BY <1>2, <1>5, <2>3
  <2>5. at[10] = reltext
    BY <1>2, <1>5, <2>4
  <2> QED  BY <1>2, <1>5, <2>1, <2>3, <2>4, <2>5
<1>8. /\ TableHeaders[1].off = tables /\ TableHeaders[2].off = symtab
      /\ TableHeaders[3].off = strtab /\ TableHeaders[4].off = reltext
      /\ TableHeaders[5].off = reldata
  BY DEF TableHeaders, Hdr
<1> HIDE DEF tables, shdrs, symtab, strtab, reltext, reldata
<1>9. ASSUME NEW k \in 1 .. 5
      PROVE  at[PartOf(k)] = TableHeaders[k].off
  <2>1. k \in {1, 2, 3, 4, 5}
    OBVIOUS
  <2> QED  BY <1>7, <1>8, <2>1 DEF PartOf
<1> QED
  BY <1>3, <1>4, <1>9 DEF PlacesRight, at

ObjectFits(o) == HeadersFit({h \in Range(o.shdrs) : h.name \notin {"", ".bss"}}, o.parts, 0)

LEMMA TablesNamed ==
    ASSUME NEW data, NEW k \in 1 .. 5
    PROVE  /\ PartOf(k) \in DOMAIN Parts(data)
           /\ Parts(data)[PartOf(k)][1] = TableHeaders[k].name
           /\ Parts(data)[PartOf(k)][2] = TableHeaders[k].size
<1> DEFINE p == Parts(data)
<1>1. k \in {1, 2, 3, 4, 5}
  OBVIOUS
<1>2. \A a, c : << a, c >>[1] = a /\ << a, c >>[2] = c
  OBVIOUS
<1>3. /\ DOMAIN p = 1 .. 11 /\ p[6] = << ".shstrtab", ShstrtabSize >>
      /\ p[8] = << ".symtab", Cardinality(Exported) * SymSize >> /\ p[9] = << ".strtab", StrtabSize >>
      /\ p[10] = << ".rel.text", Len(RelsOf(".text")) * RelSize >>
      /\ p[11] = << ".rel.data", Len(RelsOf(".data")) * RelSize >>
  BY PartsAre
<1> HIDE DEF p
<1>4. /\ p[6][1] = ".shstrtab" /\ p[6][2] = ShstrtabSize
      /\ p[8][1] = ".symtab" /\ p[8][2] = Cardinality(Exported) * SymSize
      /\ p[9][1] = ".strtab" /\ p[9][2] = StrtabSize
      /\ p[10][1] = ".rel.text" /\ p[10][2] = Len(RelsOf(".text")) * RelSize
      /\ p[11][1] = ".rel.data" /\ p[11][2] = Len(RelsOf(".data")) * RelSize
  BY <1>2, <1>3
<1>5. /\ TableHeaders[1].name = ".shstrtab" /\ TableHeaders[1].size = ShstrtabSize
      /\ TableHeaders[2].name = ".symtab" /\ TableHeaders[2].size = Cardinality(Exported) * SymSize
      /\ TableHeaders[3].name = ".strtab" /\ TableHeaders[3].size = StrtabSize
      /\ TableHeaders[4].name = ".rel.text" /\ TableHeaders[4].size = Len(RelsOf(".text")) * RelSize
      /\ TableHeaders[5].name = ".rel.data" /\ TableHeaders[5].size = Len(RelsOf(".data")) * RelSize
  BY DEF TableHeaders, Hdr
<1>6. /\ PartOf(1) = 6 /\ PartOf(2) = 8 /\ PartOf(3) = 9 /\ PartOf(4) = 10 /\ PartOf(5) = 11
  BY DEF PartOf
<1>7. PartOf(k) \in 1 .. 11
  BY <1>1, <1>6
<1>8. p[PartOf(k)][1] = TableHeaders[k].name /\ p[PartOf(k)][2] = TableHeaders[k].size
  BY <1>1, <1>4, <1>5, <1>6
<1> QED
  BY <1>3, <1>7, <1>8 DEF p

LEMMA WriteElfFits ==
    ASSUME AsmOK, WriteElf, obj'.is = "object"
    PROVE  ObjectFits(obj')
<1>1. PICK d, b \in DOMAIN src : Sections(src, d, b) /\ AsmAt(d, b)
  BY DEF AsmOK
<1>2. src \in Seq(AsmLines) /\ scanLop = 2 /\ pos = Len(src) + 1
  BY DEF AsmOK, WriteElf
<1> DEFINE t == TextHdr(d)
           u == DataHdr(d, b)
           v == BssHdr(d, b)
           data == FlattenSeq(Kept)
           h == Headers
           p == Parts(data)
<1>3. /\ shdrTab = << t, u, v >> /\ dataLen = BssStart(d, b)
      /\ Len(code) = TextSize(d) /\ Len(data) = DataSize(b)
  BY <1>1, <1>2, AtTheEnd
<1>4. obj'.shdrs = h /\ obj'.parts = p
  <2>1. ~ (ShstrtabUsed > StrtabSize)
    BY DEF WriteElf
  <2> QED  BY <2>1 DEF WriteElf, Kept
<1>5. /\ t.name = ".text" /\ t.off = EhdrSize /\ t.size = TextSize(d)
      /\ u.name = ".data" /\ u.off = EhdrSize + DataStart(d) /\ u.size = DataSize(b)
      /\ v.name = ".bss" /\ v.off = EhdrSize + BssStart(d, b)
      /\ Hdr("", 0, 0).name = ""
  BY DEF TextHdr, DataHdr, BssHdr, Hdr
<1>6. /\ TextSize(d) \in Nat /\ DataSize(b) \in Nat /\ DataStart(d) \in Nat /\ BssStart(d, b) \in Nat
      /\ TextSize(d) <= DataStart(d) /\ DataStart(d) + DataSize(b) <= BssStart(d, b)
  <2>1. TextSize(d) \in Nat /\ DataSize(b) \in Nat /\ DataStart(d) \in Nat /\ BssStart(d, b) \in Nat
    BY <1>1, <1>2, AsmNumbers
  <2>2. DataStart(d) + DataSize(b) \in Nat
    BY <2>1
  <2> QED  BY <2>1, <2>2, AlignedTo DEF DataStart, BssStart
<1>7. /\ u.off \in Nat /\ v.off \in Nat /\ t.size \in Nat /\ u.size \in Nat
      /\ t.off + t.size <= u.off /\ u.off + u.size <= v.off
  <2>1. EhdrSize \in Nat
    BY DEF EhdrSize
  <2>2. \A e, x, y, z : e \in Nat /\ x \in Nat /\ y \in Nat /\ z \in Nat /\ x + y <= z
            => (e + x) + y <= e + z /\ e + z \in Nat
    OBVIOUS
  <2>3. \A e, x, y : e \in Nat /\ x \in Nat /\ y \in Nat /\ x <= y => e + x <= e + y /\ e + y \in Nat
    OBVIOUS
  <2> HIDE DEF t, u, v
  <2> QED  BY <1>5, <1>6, <2>1, <2>2, <2>3
<1> HIDE DEF t, u, v, data, h
<1>8. /\ DOMAIN h = 1 .. 9 /\ h[1] = Hdr("", 0, 0) /\ h[2] = t /\ h[3] = u /\ h[4] = v
      /\ \A k \in 1 .. 5 : h[4 + k] = TableHeaders[k]
  <2>1. IsSeq(h) /\ Len(h) = 9
    BY <1>3, HeadersAre DEF h
  <2>2. DOMAIN h = 1 .. 9
    BY <2>1, SeqFacts
  <2> QED  BY <1>3, <2>2, HeadersAre DEF h
<1>9. PlacesRight(t, u, data)
  <2>1. SectionsFollow(t, u, v, data)
    BY <1>3, <1>5, <1>7 DEF SectionsFollow
  <2> QED  BY <2>1, PlacesOfParts
<1>10. /\ t.off = PartAt(p, 2, 0) /\ u.off = PartAt(p, 4, 0)
       /\ \A k \in 1 .. 5 : TableHeaders[k].off = PartAt(p, PartOf(k), 0)
  <2>1. \A k \in 1 .. 11 : At(data)[k] = PartAt(p, k, 0)
    BY DEF At
  <2>2. \A k \in 1 .. 5 : PartOf(k) \in 1 .. 11
    BY DEF PartOf
  <2>3. 2 \in 1 .. 11 /\ 4 \in 1 .. 11
    OBVIOUS
  <2> HIDE DEF p
  <2> QED  BY <1>9, <2>1, <2>2, <2>3 DEF PlacesRight
<1>11. /\ DOMAIN p = 1 .. 11 /\ p[2][1] = ".text" /\ p[2][2] = t.size
       /\ p[4][1] = ".data" /\ p[4][2] = u.size
  <2>1. \A a, c : << a, c >>[1] = a /\ << a, c >>[2] = c
    OBVIOUS
  <2>2. DOMAIN p = 1 .. 11 /\ p[2] = << ".text", Len(code) >> /\ p[4] = << ".data", Len(data) >>
    BY PartsAre
  <2>3. Len(code) = t.size /\ Len(data) = u.size
    BY <1>3, <1>5
  <2> HIDE DEF p
  <2> QED  BY <2>1, <2>2, <2>3
<1> HIDE DEF p
<1> DEFINE Told(x) == \E k \in DOMAIN p : p[k][1] = x.name /\ p[k][2] = x.size /\ x.off = PartAt(p, k, 0)
<1>12. Told(t) /\ Told(u)
  <2>1. 2 \in 1 .. 11 /\ 4 \in 1 .. 11
    OBVIOUS
  <2> QED  BY <1>5, <1>10, <1>11, <2>1
<1>13. ASSUME NEW k \in 1 .. 5  PROVE Told(TableHeaders[k])
  <2>1. /\ PartOf(k) \in DOMAIN p /\ p[PartOf(k)][1] = TableHeaders[k].name
        /\ p[PartOf(k)][2] = TableHeaders[k].size
    BY TablesNamed DEF p
  <2>2. TableHeaders[k].off = PartAt(p, PartOf(k), 0)
    BY <1>10
  <2> QED  BY <2>1, <2>2
<1> HIDE DEF Told
<1>14. ASSUME NEW x \in Range(h), x.name \notin {"", ".bss"}
       PROVE  Told(x)
  <2>1. PICK k \in 1 .. 9 : x = h[k]
    BY <1>8 DEF Range
  <2>2. k \in {1, 2, 3, 4} \/ \E j \in 1 .. 5 : k = 4 + j
    <3>1. k \in {1, 2, 3, 4} \/ (k - 4 \in 1 .. 5 /\ k = 4 + (k - 4))
      OBVIOUS
    <3> QED  BY <3>1
  <2> QED  BY <1>5, <1>8, <1>12, <1>13, <1>14, <2>1, <2>2
<1> QED
  BY <1>4, <1>14 DEF ObjectFits, HeadersFit, Told

-----------------------------------------------------------------------------
(* The symbol tables hold finitely many names that have a length.           *)

\* What holds at 0 and with every step holds up to n.
LEMMA UpTo ==
    ASSUME NEW n \in Nat, NEW S, 0 \in S, \A k \in 0 .. n - 1 : k \in S => k + 1 \in S
    PROVE  \A k \in 0 .. n : k \in S
<1> DEFINE T == {k \in Nat : k <= n => k \in S}
<1>1. 0 \in T
  OBVIOUS
<1>2. ASSUME NEW k \in T  PROVE k + 1 \in T
  <2>1. k \in Nat /\ (k <= n => k \in S)
    BY <1>2
  <2>2. k + 1 <= n => k \in 0 .. n - 1 /\ k <= n
    BY <2>1
  <2> QED  BY <2>1, <2>2
<1>3. T = Nat
  <2>1. T \in SUBSET Nat
    OBVIOUS
  <2> HIDE DEF T
  <2> QED  BY <1>1, <1>2, <2>1, Induction
<1> QED
  BY <1>3

LEMMA PartOfTable ==
    ASSUME NEW m, IsTable(m), NEW t, DOMAIN t \subseteq DOMAIN m
    PROVE  IsTable(t)
BY FS_Subset DEF IsTable

LEMMA AddedTable ==
    ASSUME NEW m, IsTable(m), NEW name \in Identifiers, NEW lb
    PROVE  IsTable(Added(m, name, lb))
BY UpdateTable DEF Added

\* The symbols among the values of a data definition become known.
LEMMA ValuesTable ==
    ASSUME IsTable(lb_map), NEW items \in Seq(Items)
    PROVE  IsTable(Values(items).m)
<1> DEFINE n == Len(items)
<1>1. n \in Nat /\ DOMAIN items = 1 .. n /\ \A k \in 1 .. n : items[k] \in Items
  OBVIOUS
<1> HIDE DEF n
<1>2. PICK r : Goes(r, "value", 0, NoValues, n, items, Values(items))
  BY <1>1, ValuesGo
<1>3. \A k \in 1 .. n : r[k] = Value(r[k - 1], items[k])
  <2>1. \A e, v, x : FoldStep("value", e, v, x) = Value(v, x)
    BY DEF FoldStep
  <2> QED  BY <1>2, <2>1 DEF Goes
<1> DEFINE S == {k \in 0 .. n : ValuesOK(r[k]) /\ IsTable(r[k].m)}
<1>4. 0 \in S
  <2>1. r[0] = NoValues /\ 0 \in 0 .. n
    BY <1>1, <1>2 DEF Goes
  <2>2. NoValues.m = lb_map /\ ValuesOK(NoValues)
    BY Tuples DEF NoValues, ValuesOK
  <2> QED  BY <2>1, <2>2
<1>5. ASSUME NEW k \in 0 .. n - 1, k \in S  PROVE k + 1 \in S
  <2>1. k + 1 \in 1 .. n /\ k + 1 \in 0 .. n /\ k + 1 - 1 = k
    BY <1>1
  <2>2. r[k + 1] = Value(r[k], items[k + 1]) /\ items[k + 1] \in Items
    BY <1>1, <1>3, <2>1
  <2> DEFINE c == r[k]
             item == items[k + 1]
  <2>3. ValuesOK(c) /\ IsTable(c.m)
    BY <1>5
  <2> HIDE DEF c, item, S
  <2>4. ValuesOK(Value(c, item))
    BY <2>2, <2>3, ValueStep DEF item
  <2>5. IsTable(Value(c, item).m)
    <3>1. item.is \in {"num", "str", "sym"} /\ (item.is = "sym" => item.name \in Identifiers)
      BY <2>2 DEF Items, item
    <3>2. CASE item.is = "sym"
      <4>1. Value(c, item).m = Known(c.m, item.name)
        BY <3>2 DEF Value
      <4> QED  BY <2>3, <3>1, <3>2, <4>1, KnownTable
    <3>3. CASE item.is # "sym"
      <4>1. Value(c, item).m = c.m
        BY <2>3, <3>1, <3>3 DEF Value, ValuesOK
      <4> QED  BY <2>3, <4>1
    <3> QED  BY <3>2, <3>3
  <2> QED  BY <2>1, <2>2, <2>4, <2>5 DEF S, c, item
<1>6. n \in S
  <2>1. n \in 0 .. n
    BY <1>1
  <2> HIDE DEF S
  <2> QED  BY <1>1, <1>4, <1>5, <2>1, UpTo
<1> QED
  BY <1>2, <1>6 DEF Goes

\* An instruction has finitely many of them.
LEMMA NamesFinite ==
    ASSUME NEW l \in AsmLines, l.is = "inst"
    PROVE  IsFiniteSet(Names(l)) /\ Names(l) \subseteq Identifiers
<1> DEFINE f == l.args
           J == {j \in DOMAIN f : f[j].is = "sym" \/ (f[j].is = "mem" /\ f[j].by = "sym")}
           T == {f[k].name : k \in J}
           g == [k \in J |-> f[k].name]
<1>1. f \in Seq(Operands)
  BY LineFields
<1> HIDE DEF f
<1>2. IsFiniteSet(J)
  <2>1. DOMAIN f = 1 .. Len(f) /\ Len(f) \in Nat
    BY <1>1
  <2>2. IsFiniteSet(1 .. Len(f))
    BY <2>1, FS_Interval
  <2> QED  BY <2>1, <2>2, FS_Subset
<1>3. g \in Surjection(J, T)
  BY DEF Surjection
<1>4. IsFiniteSet(T)
  <2> HIDE DEF J, T, g
  <2> QED  BY <1>2, <1>3, FS_Surjection
<1>5. T \subseteq Identifiers
  <2> SUFFICES ASSUME NEW k \in J  PROVE f[k].name \in Identifiers
    OBVIOUS
  <2> DEFINE o == f[k]
  <2>1. o \in Operands
    BY <1>1
  <2>2. o.is = "sym" \/ (o.is = "mem" /\ o.by = "sym")
    OBVIOUS
  <2> HIDE DEF o
  <2>3. o.name \in Identifiers
    BY <2>1, <2>2 DEF Operands
  <2> QED  BY <2>3 DEF o
<1>6. Names(l) = T
  BY DEF Names, f
<1> QED
  BY <1>4, <1>5, <1>6

LEMMA AsmTable ==
    ASSUME src \in Seq(AsmLines), IsTable(lb_map), AsmNext
    PROVE  IsTable(lb_map')
<1>1. pos \in DOMAIN src => Line \in AsmLines
  BY DEF Line
<1>2. CASE Section \/ Reopen \/ WriteElf
  BY <1>2 DEF Section, Reopen, WriteElf
<1>3. CASE Global
  <2>1. Line \in AsmLines /\ Line.is = "global"
    BY <1>1, <1>3 DEF Global, Reading
  <2>2. Line.name \in Identifiers
    BY <2>1 DEF AsmLines
  <2>3. IsTable(Known(lb_map, Line.name))
    BY <2>2, KnownTable
  <2>4. lb_map' = lb_map \/ DOMAIN lb_map' = DOMAIN Known(lb_map, Line.name)
    BY <1>3 DEF Global
  <2> QED  BY <2>3, <2>4, PartOfTable
<1>4. CASE Label \/ Equ
  <2>1. Line \in AsmLines /\ Line.is \in {"label", "equ"}
    BY <1>1, <1>4 DEF Label, Equ, Reading
  <2>2. Line.name \in Identifiers
    BY <2>1 DEF AsmLines
  <2>3. \E lb : lb_map' = Added(lb_map, Line.name, lb)
    BY <1>4 DEF Label, Equ
  <2> QED  BY <2>2, <2>3, AddedTable
<1>5. CASE Data
  <2>1. Line \in AsmLines /\ Line.is = "data"
    BY <1>1, <1>5 DEF Data, Reading
  <2>2. Line.name \in Identifiers /\ Line.items \in Seq(Items)
    BY <2>1 DEF AsmLines
  <2>3. lb_map' = Added(Values(Line.items).m, Line.name, Here)
    BY <1>5 DEF Data, Values, NoValues
  <2> QED  BY <2>2, <2>3, ValuesTable, AddedTable
<1>6. CASE Instruction
  <2>1. Line \in AsmLines /\ Line.is = "inst"
    BY <1>1, <1>6 DEF Instruction, Reading
  <2>2. IsFiniteSet(Names(Line)) /\ Names(Line) \subseteq Identifiers
    BY <2>1, NamesFinite
  <2>3. lb_map' = FoldSet(LAMBDA name, t : Known(t, name), lb_map, Names(Line))
    BY <1>6 DEF Instruction
  <2>4. IsTable(FoldSet(LAMBDA name, t : Known(t, name), lb_map, Names(Line)))
    BY <2>2, NamesKnown
  <2> QED  BY <2>3, <2>4
<1> QED
  BY <1>2, <1>3, <1>4, <1>5, <1>6 DEF AsmNext

LEMMA ObjectTable ==
    ASSUME IsTable(lb_map), WriteElf, obj'.is = "object"
    PROVE  IsTable(obj'.symTab)
<1>1. ~ (ShstrtabUsed > StrtabSize)
  BY DEF WriteElf
<1>2. DOMAIN obj'.symTab = Exported
  BY <1>1 DEF WriteElf
<1> QED
  BY <1>2, PartOfTable DEF Exported

-----------------------------------------------------------------------------
(* The file of the executable is as long as the sections' places say.       *)

LEMMA FillLong ==
    ASSUME NEW n \in Nat, NEW byte
    PROVE  IsSeq(Fill(n, byte)) /\ Len(Fill(n, byte)) = n
<1> DEFINE s == Fill(n, byte)
<1>1. s = [k \in 1 .. n |-> byte]
  BY DEF Fill
<1>2. s = [k \in 1 .. n |-> s[k]]
  BY <1>1
<1> HIDE DEF s
<1>3. IsSeq(s) /\ Len(s) = n
  BY <1>2, SeqMade
<1> QED
  BY <1>3 DEF s

\* What comes after a gap.
Gapped(v, from, to, t, byte) ==
    /\ IsSeq(v \o Fill(to - from, byte) \o t)
    /\ Len(v \o Fill(to - from, byte) \o t) = Len(v) + (to - from) + Len(t)

LEMMA GapThen ==
    ASSUME NEW v, IsSeq(v), NEW from \in Nat, NEW to \in Nat, from <= to, NEW t, IsSeq(t), NEW byte
    PROVE  Gapped(v, from, to, t, byte)
<1>1. to - from \in Nat
  OBVIOUS
<1> DEFINE g == Fill(to - from, byte)
<1>2. IsSeq(g) /\ Len(g) = to - from
  BY <1>1, FillLong
<1> HIDE DEF g
<1>3. IsSeq(v \o g) /\ Len(v \o g) = Len(v) + Len(g)
  BY <1>2, SeqConcat
<1> DEFINE w == v \o g
<1>4. IsSeq(w) /\ Len(w) = Len(v) + Len(g)
  BY <1>3
<1> HIDE DEF w
<1>5. IsSeq(w \o t) /\ Len(w \o t) = Len(w) + Len(t)
  BY <1>4, SeqConcat
<1>6. Len(w \o t) = Len(v) + (to - from) + Len(t)
  BY <1>2, <1>4, <1>5
<1> QED
  BY <1>5, <1>6 DEF w, g, Gapped

LEMMA JoinGoes ==
    ASSUME NEW s, NEW n \in Nat, DOMAIN s.blocks = 1 .. n
    PROVE  \E r : Goes(r, "join", 0, << >>, n, s.blocks, Joined(s))
<1>0. PICK e : e = << >>
  OBVIOUS
<1> DEFINE f == s.blocks
           Step(v, x) == v \o Fill(x.off - Len(v), 144) \o x.data
           P(g) == g = [u \in SUBSET (1 .. n) |-> IF u = {} THEN e
                           ELSE Step(g[u \ {Max(u)}], f[Max(u)])]
<1>1. \A v, x : FoldStep("join", 0, v, x) = Step(v, x)
  BY DEF FoldStep
<1>3. Joined(s) = (CHOOSE g : P(g))[1 .. n]
  BY <1>0 DEF Joined, FoldLeft, MapThenFoldSet
<1> HIDE DEF Step
<1>2. \A g : P(g) <=> IsFold(g, "join", 0, e, n, f)
  BY <1>1 DEF IsFold
<1> HIDE DEF P, f
<1>4. \E g : P(g)
  BY <1>2, FoldExists
<1>5. PICK g : P(g) /\ Joined(s) = g[1 .. n]
  BY <1>3, <1>4
<1>6. IsFold(g, "join", 0, e, n, f)
  BY <1>2, <1>5
<1>7. \E r : Goes(r, "join", 0, e, n, f, g[1 .. n])
  BY <1>6, FoldGoes
<1> QED
  BY <1>0, <1>5, <1>7 DEF f

\* exportElf: the blocks of a section with the gaps between them.
LEMMA JoinedLong ==
    ASSUME NEW s, NEW n \in Nat, NEW size, Chain(s.blocks, n, size)
    PROVE  IsSeq(Joined(s)) /\ Len(Joined(s)) = size
<1> DEFINE b == s.blocks
<1>1. /\ IsSeq(b) /\ Len(b) = n /\ size = BlockEnd(b, n) /\ \A j \in 1 .. n : BlockOK(b, j)
  BY DEF Chain
<1> HIDE DEF b
<1>2. DOMAIN b = 1 .. n
  BY <1>1, SeqFacts
<1>3. PICK r : Goes(r, "join", 0, << >>, n, b, Joined(s))
  BY <1>2, JoinGoes DEF b
<1>4. \A k \in 1 .. n : r[k] = r[k - 1] \o Fill(b[k].off - Len(r[k - 1]), 144) \o b[k].data
  <2>1. \A v, x : FoldStep("join", 0, v, x) = v \o Fill(x.off - Len(v), 144) \o x.data
    BY DEF FoldStep
  <2>2. \A k \in 1 .. n : r[k] = FoldStep("join", 0, r[k - 1], b[k])
    BY <1>3 DEF Goes
  <2>3. ASSUME NEW k \in 1 .. n
        PROVE  r[k] = r[k - 1] \o Fill(b[k].off - Len(r[k - 1]), 144) \o b[k].data
    <3> DEFINE v == r[k - 1]
               x == b[k]
    <3>1. r[k] = FoldStep("join", 0, v, x)
      BY <2>2
    <3> HIDE DEF v, x
    <3>2. r[k] = v \o Fill(x.off - Len(v), 144) \o x.data
      BY <2>1, <3>1
    <3> QED  BY <3>2 DEF v, x
  <2> QED  BY <2>3
<1> DEFINE S == {k \in 0 .. n : IsSeq(r[k]) /\ Len(r[k]) = BlockEnd(b, k)}
<1>5. 0 \in S
  <2>1. r[0] = << >> /\ 0 \in 0 .. n
    BY <1>3 DEF Goes
  <2> QED  BY <2>1, Tuples DEF BlockEnd
<1>6. ASSUME NEW k \in 0 .. n - 1, k \in S  PROVE k + 1 \in S
  <2> DEFINE j == k + 1
             v == r[k]
             x == b[j]
  <2>1. j \in 1 .. n /\ j \in 0 .. n /\ j - 1 = k /\ j # 0
    OBVIOUS
  <2>2. IsSeq(v) /\ Len(v) = BlockEnd(b, k)
    BY <1>6
  <2> HIDE DEF j, S
  <2>3. IsSeq(x.data) /\ x.off = Aligned(Len(v), 4)
    BY <1>1, <2>1, <2>2 DEF BlockOK
  <2>4. r[j] = v \o Fill(x.off - Len(v), 144) \o x.data
    BY <1>4, <2>1
  <2>5. BlockEnd(b, j) = x.off + Len(x.data)
    BY <2>1 DEF BlockEnd
  <2> HIDE DEF v, x
  <2>6. Len(v) \in Nat /\ Len(x.data) \in Nat
    BY <2>2, <2>3, SeqFacts
  <2>7. x.off \in Nat /\ Len(v) <= x.off
    BY <2>3, <2>6, AlignedTo
  <2>8. IsSeq(r[j]) /\ Len(r[j]) = Len(v) + (x.off - Len(v)) + Len(x.data)
    <3> DEFINE from == Len(v)
               to == x.off
               t == x.data
    <3>1. from \in Nat /\ to \in Nat /\ from <= to /\ IsSeq(v) /\ IsSeq(t)
      BY <2>2, <2>3, <2>6, <2>7
    <3> HIDE DEF from, to, t
    <3>2. /\ IsSeq(v \o Fill(to - from, 144) \o t)
          /\ Len(v \o Fill(to - from, 144) \o t) = Len(v) + (to - from) + Len(t)
      <4>1. Gapped(v, from, to, t, 144)
        BY <3>1, GapThen
      <4> QED  BY <4>1 DEF Gapped
    <3> QED  BY <2>4, <3>2 DEF from, to, t
  <2>9. Len(r[j]) = BlockEnd(b, j)
    <3>1. \A m, o, d \in Nat : m + (o - m) + d = o + d
      OBVIOUS
    <3>2. Len(v) + (x.off - Len(v)) + Len(x.data) = x.off + Len(x.data)
      BY <2>6, <2>7, <3>1
    <3> QED  BY <2>5, <2>8, <3>2
  <2>10. j \in S
    BY <2>1, <2>8, <2>9 DEF S
  <2> QED  BY <2>10 DEF j
<1>7. n \in S
  <2>1. n \in 0 .. n
    OBVIOUS
  <2> HIDE DEF S
  <2> QED  BY <1>5, <1>6, <2>1, UpTo
<1> QED
  BY <1>1, <1>3, <1>7 DEF Goes

\* .bss has no blocks.
LEMMA NothingJoined ==
    ASSUME NEW s, s.blocks = << >>
    PROVE  IsSeq(Joined(s)) /\ Len(Joined(s)) = 0
<1>1. PICK n \in Nat : n = 0
  OBVIOUS
<1>2. Chain(s.blocks, n, 0)
  BY <1>1, Tuples DEF Chain, BlockEnd
<1> QED
  BY <1>2, JoinedLong

\* The file with one more section.
FileWith(f, s) == f \o Fill(s.offset - s.begin, 0) \o Joined(s)

\* A section is added to the file that ends where it begins.
LEMMA SectionAdded ==
    ASSUME NEW s, NEW k \in Nat, NEW name, NEW base \in Nat, NEW off \in Nat, SegOK(s, k, name, base, off),
           NEW v, IsSeq(v), Len(v) = off
    PROVE  /\ IsSeq(FileWith(v, s))
           /\ Len(FileWith(v, s)) = s.offset + (IF name = ".bss" THEN 0 ELSE s.size)
<1> DEFINE to == s.offset
           t == Joined(s)
           more == IF name = ".bss" THEN 0 ELSE s.size
<1>1. s.begin = off /\ to = StartOf(name, off) /\ s.size \in Nat
  BY DEF SegOK
<1>2. to \in Nat /\ off <= to
  BY <1>1, AlignedTo DEF StartOf, DISC_ALIGN
<1>3. IsSeq(t) /\ Len(t) = more /\ more \in Nat
  <2>1. CASE name = ".bss"
    BY <2>1, NothingJoined DEF SegOK
  <2>2. CASE name # ".bss"
    <3>1. Chain(s.blocks, k, s.size)
      BY <2>2 DEF SegOK
    <3> QED  BY <1>1, <2>2, <3>1, JoinedLong
  <2> QED  BY <2>1, <2>2
<1> HIDE DEF to, t, more
<1>4. Gapped(v, off, to, t, 0)
  BY <1>2, <1>3, GapThen
<1>5. off + (to - off) + more = to + more
  BY <1>2, <1>3
<1>6. IsSeq(v \o Fill(to - off, 0) \o t) /\ Len(v \o Fill(to - off, 0) \o t) = to + more
  BY <1>3, <1>4, <1>5 DEF Gapped
<1> QED
  BY <1>1, <1>6 DEF to, t, more, FileWith

\* The file that AssemExe makes.
TheFile == FoldLeft(LAMBDA f, n : f \o Fill(segLists[n].offset - segLists[n].begin, 0)
                                    \o Joined(segLists[n]), Fill(HeaderSize, 0), segNames)

LEMMA FileGoes ==
    \E r : /\ r[0] = Fill(HeaderSize, 0) /\ r[3] = TheFile
           /\ r[1] = FileWith(r[0], segLists[".text"]) /\ r[2] = FileWith(r[1], segLists[".data"])
           /\ r[3] = FileWith(r[2], segLists[".bss"])
<1> DEFINE base == Fill(HeaderSize, 0)
           More(v, x) == FileWith(v, segLists[x])
           P(g) == g = [u \in SUBSET (1 .. 3) |-> IF u = {} THEN base
                           ELSE More(g[u \ {Max(u)}], segNames[Max(u)])]
<1>1. \A v, x : FoldStep("file", segLists, v, x) = More(v, x)
  BY DEF FoldStep, FileWith
<1>2. TheFile = (CHOOSE g : P(g))[1 .. 3]
  <2>1. DOMAIN segNames = 1 .. 3
    BY DEF segNames
  <2> QED  BY <2>1 DEF TheFile, FoldLeft, MapThenFoldSet, FileWith
<1> HIDE DEF base, More
<1>3. \A g : P(g) <=> IsFold(g, "file", segLists, base, 3, segNames)
  BY <1>1 DEF IsFold
<1> HIDE DEF P
<1>4. \E g : P(g)
  BY <1>3, FoldExists
<1>5. PICK g : P(g) /\ TheFile = g[1 .. 3]
  BY <1>2, <1>4
<1>6. PICK r : Goes(r, "file", segLists, base, 3, segNames, g[1 .. 3])
  BY <1>3, <1>5, FoldGoes
<1>7. r[0] = base /\ r[3] = TheFile
      /\ \A k \in 1 .. 3 : r[k] = FoldStep("file", segLists, r[k - 1], segNames[k])
  BY <1>5, <1>6 DEF Goes
<1>8. /\ r[1] = FoldStep("file", segLists, r[0], segNames[1])
      /\ r[2] = FoldStep("file", segLists, r[1], segNames[2])
      /\ r[3] = FoldStep("file", segLists, r[2], segNames[3])
  BY <1>7
<1>9. segNames[1] = ".text" /\ segNames[2] = ".data" /\ segNames[3] = ".bss"
  BY DEF segNames
<1> QED
  BY <1>1, <1>7, <1>8, <1>9 DEF base, More

\* The tables begin where the file ends.
LEMMA FileLong ==
    ASSUME LinkOK, step = "relocate"
    PROVE  Len(TheFile) = segLists[".bss"].offset
<1> DEFINE t == segLists[".text"]
           d == segLists[".data"]
           b == segLists[".bss"]
           te == t.offset + t.size
           de == d.offset + d.size
<1>1. /\ SegOK(t, Len(elfs), ".text", BASE_ADDR, HeaderSize)
      /\ SegOK(d, Len(elfs), ".data", t.base + t.size, te)
      /\ SegOK(b, Len(elfs), ".bss", d.base + d.size, de)
  BY DEF LinkOK, TextPlaced, DataPlaced, BssPlaced, SegAt, MemEnd, FileEnd
<1>2. Len(elfs) \in Nat
  BY SeqFacts DEF LinkOK
<1>3. t.base + t.size \in Nat /\ te \in Nat
  BY <1>1, SegEnds, HeaderIsNat
<1>4. d.base + d.size \in Nat /\ de \in Nat
  <2> HIDE DEF te
  <2> QED  BY <1>1, <1>3, SegEnds
<1>5. PICK r : /\ r[0] = Fill(HeaderSize, 0) /\ r[3] = TheFile
               /\ r[1] = FileWith(r[0], segLists[".text"]) /\ r[2] = FileWith(r[1], segLists[".data"])
               /\ r[3] = FileWith(r[2], segLists[".bss"])
  BY FileGoes
<1>6. IsSeq(r[0]) /\ Len(r[0]) = HeaderSize
  BY <1>5, FillLong, HeaderIsNat
<1>7. r[1] = FileWith(r[0], t) /\ r[2] = FileWith(r[1], d) /\ r[3] = FileWith(r[2], b)
  BY <1>5
<1> HIDE DEF t, d, b
<1>8. IsSeq(r[1]) /\ Len(r[1]) = te
  BY <1>1, <1>2, <1>6, <1>7, SectionAdded, HeaderIsNat
<1>9. IsSeq(r[2]) /\ Len(r[2]) = de
  <2> HIDE DEF te
  <2> QED  BY <1>1, <1>2, <1>3, <1>7, <1>8, SectionAdded
<1>10. Len(r[3]) = b.offset
  <2>1. Len(r[3]) = b.offset + 0
    <3> HIDE DEF de
    <3> QED  BY <1>1, <1>2, <1>4, <1>7, <1>9, SectionAdded
  <2>2. b.offset \in Nat
    <3> HIDE DEF de
    <3> QED  BY <1>1, <1>4, SegEnds
  <2> QED  BY <2>1, <2>2
<1> QED
  BY <1>5, <1>10 DEF b

-----------------------------------------------------------------------------
(* The tables of the executable.                                            *)

\* References to symbols <<file, name>>, with names that have a length.
AreRefs(refs) == IsSeq(refs) /\ \A k \in DOMAIN refs : refs[k][2] \in Identifiers

LEMMA StringsIsNat ==
    ASSUME AreRefs(symDef)
    PROVE  StringsSize \in Nat
<1> DEFINE n == Len(symDef)
           names == [k \in DOMAIN symDef |-> symDef[k][2]]
           f == [k \in DOMAIN names |-> NameLen[names[k]] + 1]
<1>1. n \in Nat /\ DOMAIN symDef = 1 .. n
  BY SeqFacts DEF AreRefs
<1> HIDE DEF n
<1>2. DOMAIN f = 1 .. n /\ \A k \in 1 .. n : f[k] \in Nat
  <2>1. DOMAIN f = 1 .. n
    BY <1>1
  <2>2. ASSUME NEW k \in 1 .. n  PROVE f[k] \in Nat
    <3>1. symDef[k][2] \in Identifiers
      BY <1>1 DEF AreRefs
    <3>2. NameLen[symDef[k][2]] \in Nat
      BY <3>1, NameLenAssumption DEF Identifiers
    <3>3. f[k] = NameLen[symDef[k][2]] + 1
      BY <1>1
    <3> QED  BY <3>2, <3>3
  <2> QED  BY <2>1, <2>2
<1>3. StringsSize = Sum(f)
  BY DEF StringsSize, NamesSize
<1> HIDE DEF f, names
<1>4. PICK r : r[0] = 0 /\ (\A k \in 1 .. n : r[k] = r[k - 1] + f[k]) /\ r[n] = Sum(f)
  BY <1>1, <1>2, SumIs
<1> DEFINE S == {k \in 0 .. n : r[k] \in Nat}
<1>5. 0 \in S
  BY <1>1, <1>4
<1>6. ASSUME NEW k \in 0 .. n - 1, k \in S  PROVE k + 1 \in S
  <2>1. k + 1 \in 1 .. n /\ k + 1 \in 0 .. n /\ k + 1 - 1 = k
    BY <1>1
  <2>2. r[k + 1] = r[k] + f[k + 1] /\ f[k + 1] \in Nat /\ r[k] \in Nat
    BY <1>2, <1>4, <1>6, <2>1
  <2> QED  BY <2>1, <2>2
<1>7. n \in S
  <2>1. n \in 0 .. n
    BY <1>1
  <2> HIDE DEF S
  <2> QED  BY <1>1, <1>5, <1>6, <2>1, UpTo
<1> QED
  BY <1>3, <1>4, <1>7

\* Each table stands where its header says; names of symbols are cut at 256.
TablesFit(tables, end) ==
    HeadersFit({h \in Range(tables.hdrs) : h.name # ".strtab" \/ h.size < 256}, tables.parts, end)

LEMMA TablesRight ==
    ASSUME NEW off, AreRefs(symDef)
    PROVE  TablesFit(Tables(off), off)
<1> DEFINE p == Tables(off).parts
           h == Tables(off).hdrs
           shdrs == off + SectionNames
           symtab == shdrs + SectionCount * ShdrSize
           strtab == symtab + SymbolsSize
<1>1. /\ DOMAIN p = 1 .. 4 /\ p[1] = << ".shstrtab", SectionNames >>
      /\ p[2] = << "shdrs", SectionCount * ShdrSize >> /\ p[3] = << ".symtab", SymbolsSize >>
      /\ p[4] = << ".strtab", StringsSize % 256 >>
  BY DEF Tables
<1>2. /\ DOMAIN h = 1 .. 3 /\ h[1] = Hdr(".shstrtab", off, SectionNames)
      /\ h[2] = Hdr(".symtab", symtab, SymbolsSize) /\ h[3] = Hdr(".strtab", strtab, StringsSize)
  BY DEF Tables
<1>3. /\ Hdr(".shstrtab", off, SectionNames) = [name |-> ".shstrtab", off |-> off, size |-> SectionNames]
      /\ Hdr(".symtab", symtab, SymbolsSize) = [name |-> ".symtab", off |-> symtab, size |-> SymbolsSize]
      /\ Hdr(".strtab", strtab, StringsSize) = [name |-> ".strtab", off |-> strtab, size |-> StringsSize]
  BY DEF Hdr
<1> HIDE DEF p, h
<1>4. /\ p[1][1] = ".shstrtab" /\ p[1][2] = SectionNames /\ p[2][2] = SectionCount * ShdrSize
      /\ p[3][1] = ".symtab" /\ p[3][2] = SymbolsSize
      /\ p[4][1] = ".strtab" /\ p[4][2] = StringsSize % 256
  <2>1. \A a, c : << a, c >>[1] = a /\ << a, c >>[2] = c
    OBVIOUS
  <2> QED  BY <1>1, <2>1
<1>5. PartAt(p, 1, off) = off /\ PartAt(p, 3, off) = symtab /\ PartAt(p, 4, off) = strtab
  <2>1. PartAt(p, 1, off) = off
        /\ \A k \in Nat \ {0} : PartAt(p, k + 1, off) = PartAt(p, k, off) + p[k][2]
    BY PartAfter
  <2>2. /\ PartAt(p, 1 + 1, off) = PartAt(p, 1, off) + p[1][2]
        /\ PartAt(p, 2 + 1, off) = PartAt(p, 2, off) + p[2][2]
        /\ PartAt(p, 3 + 1, off) = PartAt(p, 3, off) + p[3][2]
    BY <2>1
  <2>3. 1 + 1 = 2 /\ 2 + 1 = 3 /\ 3 + 1 = 4
    OBVIOUS
  <2>4. PartAt(p, 2, off) = shdrs
    BY <1>4, <2>1, <2>2, <2>3
  <2>5. PartAt(p, 3, off) = symtab
    BY <1>4, <2>2, <2>3, <2>4
  <2> QED  BY <1>4, <2>1, <2>2, <2>3, <2>5
<1> HIDE DEF shdrs, symtab, strtab
<1> DEFINE Told(x) == \E k \in DOMAIN p : p[k][1] = x.name /\ p[k][2] = x.size /\ x.off = PartAt(p, k, off)
<1>6. Told(h[1]) /\ Told(h[2])
  <2>1. /\ h[1].name = ".shstrtab" /\ h[1].off = off /\ h[1].size = SectionNames
        /\ h[2].name = ".symtab" /\ h[2].off = symtab /\ h[2].size = SymbolsSize
    BY <1>2, <1>3
  <2>2. 1 \in DOMAIN p /\ 3 \in DOMAIN p
    BY <1>1
  <2> QED  BY <1>4, <1>5, <2>1, <2>2
<1>7. h[3].name = ".strtab" /\ (h[3].size < 256 => Told(h[3]))
  <2>1. h[3].name = ".strtab" /\ h[3].off = strtab /\ h[3].size = StringsSize
    BY <1>2, <1>3
  <2>2. 4 \in DOMAIN p
    BY <1>1
  <2>3. StringsSize < 256 => StringsSize % 256 = StringsSize
    <3>1. \A n \in Nat : n < 256 => n % 256 = n
      OBVIOUS
    <3> QED  BY <3>1, StringsIsNat
  <2> QED  BY <1>4, <1>5, <2>1, <2>2, <2>3
<1> HIDE DEF Told
<1>8. ASSUME NEW x \in Range(h), x.name # ".strtab" \/ x.size < 256
      PROVE  Told(x)
  <2>1. PICK k \in 1 .. 3 : x = h[k]
    BY <1>2 DEF Range
  <2>2. k \in {1, 2, 3}
    OBVIOUS
  <2> QED  BY <1>6, <1>7, <1>8, <2>1, <2>2
<1> QED
  BY <1>8 DEF TablesFit, HeadersFit, Told, p, h

\* What is put together from references is made of them.
LEMMA RefsJoined ==
    ASSUME NEW ss, IsSeq(ss), \A k \in DOMAIN ss : AreRefs(ss[k])
    PROVE  AreRefs(FlattenSeq(ss))
<1> DEFINE n == Len(ss)
<1>1. n \in Nat /\ DOMAIN ss = 1 .. n /\ AllSeqs(ss)
  BY SeqFacts DEF AllSeqs, AreRefs
<1>2. PICK r : FlatTo(ss, r)
  BY <1>1, FlattenGoes
<1>3. r[0] = << >> /\ r[n] = FlattenSeq(ss) /\ \A k \in 1 .. n : r[k] = r[k - 1] \o ss[k]
  BY <1>2 DEF FlatTo
<1> HIDE DEF n
<1> DEFINE S == {k \in 0 .. n : AreRefs(r[k])}
<1>4. 0 \in S
  <2>1. IsSeq(r[0]) /\ DOMAIN r[0] = {}
    BY <1>3, Tuples
  <2> QED  BY <1>1, <2>1 DEF AreRefs
<1>5. ASSUME NEW k \in 0 .. n - 1, k \in S  PROVE k + 1 \in S
  <2> DEFINE j == k + 1
             s == r[k]
             t == ss[j]
  <2>1. j \in 1 .. n /\ j \in 0 .. n /\ j - 1 = k
    BY <1>1
  <2>2. AreRefs(s) /\ AreRefs(t)
    BY <1>1, <1>5, <2>1
  <2> HIDE DEF j, S
  <2>3. r[j] = s \o t
    BY <1>3, <2>1
  <2> HIDE DEF s, t
  <2>4. AreRefs(s \o t)
    <3> DEFINE w == s \o t
    <3>1. /\ IsSeq(w) /\ Len(w) = Len(s) + Len(t)
          /\ \A i \in 1 .. Len(s) : w[i] = s[i]
          /\ \A i \in 1 .. Len(t) : w[Len(s) + i] = t[i]
      BY <2>2, SeqConcat DEF AreRefs
    <3> HIDE DEF w
    <3>2. /\ Len(s) \in Nat /\ Len(t) \in Nat /\ DOMAIN s = 1 .. Len(s) /\ DOMAIN t = 1 .. Len(t)
          /\ DOMAIN w = 1 .. Len(w)
      BY <2>2, <3>1, SeqFacts DEF AreRefs
    <3>3. ASSUME NEW i \in DOMAIN w  PROVE w[i][2] \in Identifiers
      <4>1. \/ i \in 1 .. Len(s)
            \/ i - Len(s) \in 1 .. Len(t) /\ Len(s) + (i - Len(s)) = i
        BY <3>1, <3>2
      <4>2. CASE i \in 1 .. Len(s)
        BY <2>2, <3>1, <3>2, <4>2 DEF AreRefs
      <4>3. CASE i - Len(s) \in 1 .. Len(t) /\ Len(s) + (i - Len(s)) = i
        <5>1. PICK m \in 1 .. Len(t) : Len(s) + m = i
          BY <4>3
        <5>2. w[i] = t[m]
          BY <3>1, <5>1
        <5> QED  BY <2>2, <3>2, <5>1, <5>2 DEF AreRefs
      <4> QED  BY <4>1, <4>2, <4>3
    <3> QED  BY <3>1, <3>3 DEF AreRefs, w
  <2>5. j \in S
    BY <2>1, <2>3, <2>4 DEF S
  <2> QED  BY <2>5 DEF j
<1>6. n \in S
  <2>1. n \in 0 .. n
    BY <1>1
  <2> HIDE DEF S
  <2> QED  BY <1>1, <1>4, <1>5, <2>1, UpTo
<1> QED
  BY <1>3, <1>6

LEMMA SymbolRefs ==
    ASSUME NEW m, IsTable(m), NEW S, S \subseteq DOMAIN m, NEW k
    PROVE  AreRefs(InSomeOrder({<< k, name >> : name \in S}))
<1> DEFINE T == {<< k, name >> : name \in S}
           g == [name \in S |-> << k, name >>]
<1>1. IsFiniteSet(S) /\ S \subseteq Identifiers
  BY FS_Subset DEF IsTable
<1>2. g \in Surjection(S, T)
  BY DEF Surjection
<1>3. \A t \in T : t[2] \in Identifiers
  BY <1>1
<1> HIDE DEF T, g
<1>4. IsFiniteSet(T)
  BY <1>1, <1>2, FS_Surjection
<1> DEFINE s == InSomeOrder(T)
<1>5. s \in Seq(T)
  BY <1>4, OrderIsSeq
<1> HIDE DEF s
<1>6. AreRefs(s)
  BY <1>3, <1>5 DEF AreRefs, IsSeq
<1> QED
  BY <1>6 DEF s, T

\* collectInfo: the definitions are symbols of the tables of the object files.
LEMMA CollectRefs ==
    ASSUME CollectInfo, IsSeq(elfs), \A k \in DOMAIN elfs : IsTable(elfs[k].symTab)
    PROVE  AreRefs(symDef')
<1> DEFINE S(k) == {n \in DOMAIN elfs[k].symTab : (elfs[k].symTab[n].shndx = "undef") = FALSE}
           ss == [k \in DOMAIN elfs |-> InSomeOrder({<< k, name >> : name \in S(k)})]
<1>1. symDef' = FlattenSeq(ss)
  BY DEF CollectInfo
<1>2. \A k \in DOMAIN elfs : AreRefs(ss[k])
  <2> SUFFICES ASSUME NEW k \in DOMAIN elfs  PROVE AreRefs(ss[k])
    OBVIOUS
  <2>1. ss[k] = InSomeOrder({<< k, name >> : name \in S(k)})
    OBVIOUS
  <2>2. S(k) \subseteq DOMAIN elfs[k].symTab
    OBVIOUS
  <2> HIDE DEF ss, S
  <2> QED  BY <2>1, <2>2, SymbolRefs
<1>3. IsSeq(ss) /\ DOMAIN ss = DOMAIN elfs
  <2> DEFINE n == Len(elfs)
  <2>1. n \in Nat /\ DOMAIN elfs = 1 .. n
    BY SeqFacts
  <2>2. DOMAIN ss = DOMAIN elfs
    OBVIOUS
  <2>3. ss = [k \in 1 .. n |-> ss[k]]
    BY <2>1
  <2> HIDE DEF n, ss
  <2> QED  BY <2>1, <2>2, <2>3, SeqMade
<1> HIDE DEF ss
<1> QED
  BY <1>1, <1>2, <1>3, RefsJoined

-----------------------------------------------------------------------------
(* The whole build. *)

ObjectOK == obj.is = "object" => ElfOK(obj)

ToolOK == files \in Inputs /\ AsmOK /\ LinkOK /\ ObjectOK

LEMMA BuildFiles ==
    ASSUME NEW build \in Inputs
    PROVE  /\ Len(build) \in Nat \ {0} /\ DOMAIN build = 1 .. Len(build)
           /\ \A k \in DOMAIN build : IsFile(build[k])
<1>1. build # << >> /\ IsSeq(build) /\ \A k \in DOMAIN build : IsFile(build[k])
  BY InputsAssumption DEF IsSeq
<1>2. Len(build) \in Nat /\ DOMAIN build = 1 .. Len(build)
  BY <1>1, SeqFacts
<1>3. Len(build) # 0
  BY <1>1 DEF IsSeq
<1> QED
  BY <1>1, <1>2, <1>3

LEMMA ToolStarts == Init => ToolOK
<1> SUFFICES ASSUME Init  PROVE ToolOK
  OBVIOUS
<1>1. files \in Inputs /\ Idle /\ Fresh(files[1])
  BY DEF Init
<1>2. IsFile(files[1])
  BY <1>1, BuildFiles
<1>3. AsmOK /\ LinkOK
  BY <1>1, <1>2, FreshOK, IdleOK
<1>4. ObjectOK
  BY <1>1 DEF Fresh, NoObject, ObjectOK
<1> QED
  BY <1>1, <1>3, <1>4 DEF ToolOK

LEMMA AssembleOK ==
    ASSUME ToolOK, Assemble
    PROVE  ToolOK'
<1>1. AsmNext /\ files' = files /\ UNCHANGED linkVars
  BY DEF Assemble
<1>2. AsmOK' /\ LinkOK'
  BY <1>1, AsmSteps, LinkUnchanged DEF ToolOK
<1>3. ObjectOK'
  <2>1. CASE WriteElf
    BY <2>1, WriteElfOK DEF ToolOK, ObjectOK
  <2>2. CASE ~ WriteElf
    <3>1. obj' = obj
      BY <1>1, <2>2 DEF AsmNext, Section, Reopen, Global, Label, Equ, Data, Instruction
    <3> QED  BY <3>1 DEF ToolOK, ObjectOK, ElfOK, SizeOf, Sh
  <2> QED  BY <2>1, <2>2
<1> QED
  BY <1>1, <1>2, <1>3 DEF ToolOK

LEMMA CollectOK ==
    ASSUME ToolOK, Collect
    PROVE  ToolOK'
<1>1. obj.is = "object" /\ AddElf(obj) /\ files' = files
  BY DEF Collect
<1>2. LinkOK'
  BY <1>1, AddElfOK DEF ToolOK, ObjectOK
<1>3. AsmOK' /\ obj' = NoObject
  <2>1. CASE Len(elfs) + 1 < Len(files)
    <3>1. Restarted(files[Len(elfs) + 2])
      BY <2>1 DEF Collect
    <3>2. Len(elfs) + 2 \in DOMAIN files
      <4>1. Len(elfs) \in Nat
        BY SeqFacts DEF ToolOK, LinkOK
      <4>2. Len(files) \in Nat /\ DOMAIN files = 1 .. Len(files)
        BY BuildFiles DEF ToolOK
      <4> QED  BY <2>1, <4>1, <4>2
    <3>3. IsFile(files[Len(elfs) + 2])
      BY <3>2, BuildFiles DEF ToolOK
    <3> QED  BY <3>1, <3>3, RestartedOK DEF Restarted
  <2>2. CASE ~ (Len(elfs) + 1 < Len(files))
    <3>1. obj' = NoObject /\ UNCHANGED <<scanVars, placeVars, lb_map, defLbs, relLb, relTab, code>>
      BY <2>2 DEF Collect
    <3> QED  BY <3>1, AsmUnchanged DEF ToolOK, scanVars, placeVars
  <2> QED  BY <2>1, <2>2
<1>4. ObjectOK'
  BY <1>3 DEF ObjectOK, NoObject
<1> QED
  BY <1>1, <1>2, <1>3, <1>4 DEF ToolOK

LEMMA AsmVarsUnchanged ==
    ASSUME AsmOK, ObjectOK, UNCHANGED asmVars
    PROVE  AsmOK' /\ ObjectOK'
<1>1. UNCHANGED <<scanVars, placeVars>> /\ code' = code /\ defLbs' = defLbs /\ obj' = obj
  BY DEF asmVars
<1>2. AsmOK'
  BY <1>1, AsmUnchanged DEF scanVars, placeVars
<1>3. ObjectOK'
  BY <1>1 DEF ObjectOK, ElfOK, SizeOf, Sh
<1> QED
  BY <1>2, <1>3

\* The invariant of the toolchain: the first pass of the assembler has counted
\* what the second writes, the headers of an object file tell the sizes of its
\* sections, and the linker's segments follow one another.
THEOREM ToolchainInvariant == Spec => []ToolOK
<1>1. Init => ToolOK
  BY ToolStarts
<1>2. ToolOK /\ [Next]_toolVars => ToolOK'
  <2> SUFFICES ASSUME ToolOK, [Next]_toolVars  PROVE ToolOK'
    OBVIOUS
  <2>1. CASE Assemble
    BY <2>1, AssembleOK
  <2>2. CASE Collect
    BY <2>2, CollectOK
  <2>3. CASE Link
    <3>1. LinkNext /\ files' = files /\ UNCHANGED asmVars
      BY <2>3 DEF Link
    <3> QED  BY <3>1, LinkSteps, AsmVarsUnchanged DEF ToolOK
  <2>4. CASE UNCHANGED toolVars
    <3>1. files' = files /\ UNCHANGED asmVars /\ UNCHANGED linkVars
      BY <2>4 DEF toolVars
    <3> QED  BY <3>1, LinkUnchanged, AsmVarsUnchanged DEF ToolOK
  <2> QED  BY <2>1, <2>2, <2>3, <2>4 DEF Next
<1> QED
  BY <1>1, <1>2, PTL DEF Spec

\* SegmentsApart: the segments of every executable can be loaded.
THEOREM SegmentsAreApart == Spec => []SegmentsApart
<1>1. ToolOK => SegmentsApart
  BY LinkedApart DEF ToolOK
<1> QED
  BY <1>1, ToolchainInvariant, PTL

\* Every symbol table is one; the definitions of the link are symbols of them.
TablesOK ==
    /\ IsTable(lb_map) /\ (obj.is = "object" => IsTable(obj.symTab))
    /\ \A k \in DOMAIN elfs : IsTable(elfs[k].symTab)
    /\ step # "read" => AreRefs(symDef)

ObjectFit == obj.is = "object" => ObjectFits(obj)
ExeFit == step = "linked" => TablesFit(exe.tables, Len(exe.file))

LEMMA NoTable == IsTable(<< >>)
BY FS_EmptySet, Tuples DEF IsTable

LEMMA HeadersStart == Init => TablesOK /\ ObjectFit /\ ExeFit
<1> SUFFICES ASSUME Init  PROVE TablesOK /\ ObjectFit /\ ExeFit
  OBVIOUS
<1>1. lb_map = << >> /\ obj.is = "none" /\ elfs = << >> /\ step = "read"
  BY DEF Init, Idle, Fresh, NoObject
<1>2. DOMAIN elfs = {}
  BY <1>1, Tuples
<1>3. IsTable(lb_map)
  BY <1>1, NoTable
<1> QED
  BY <1>1, <1>2, <1>3 DEF TablesOK, ObjectFit, ExeFit

LEMMA AssembleFits ==
    ASSUME ToolOK, TablesOK, ObjectFit, ExeFit, Assemble
    PROVE  TablesOK' /\ ObjectFit' /\ ExeFit'
<1>1. AsmNext /\ elfs' = elfs /\ step' = step /\ symDef' = symDef /\ exe' = exe
  BY DEF Assemble, linkVars
<1>2. IsTable(lb_map')
  BY <1>1, AsmTable DEF TablesOK, ToolOK, AsmOK
<1>3. (obj'.is = "object" => IsTable(obj'.symTab)) /\ (obj'.is = "object" => ObjectFits(obj'))
  <2>1. CASE WriteElf
    BY <2>1, WriteElfFits, ObjectTable DEF ToolOK, TablesOK
  <2>2. CASE ~ WriteElf
    <3>1. obj' = obj
      BY <1>1, <2>2 DEF AsmNext, Section, Reopen, Global, Label, Equ, Data, Instruction
    <3> QED  BY <3>1 DEF TablesOK, ObjectFit
  <2> QED  BY <2>1, <2>2
<1>4. TablesOK'
  BY <1>1, <1>2, <1>3 DEF TablesOK
<1>5. ObjectFit' /\ ExeFit'
  BY <1>1, <1>3 DEF ObjectFit, ExeFit
<1> QED
  BY <1>4, <1>5

LEMMA CollectFits ==
    ASSUME ToolOK, TablesOK, Collect
    PROVE  TablesOK' /\ ObjectFit' /\ ExeFit'
<1>1. /\ obj.is = "object" /\ step = "read" /\ elfs' = Append(elfs, obj)
      /\ step' = step
  BY DEF Collect, AddElf
<1>2. obj' = NoObject /\ (lb_map' = lb_map \/ lb_map' = << >>)
  BY DEF Collect, Restarted
<1>3. IsTable(lb_map')
  BY <1>2, NoTable DEF TablesOK
<1>4. \A k \in DOMAIN elfs' : IsTable(elfs'[k].symTab)
  <2> DEFINE n == Len(elfs)
             s == Append(elfs, obj)
  <2>1. IsSeq(elfs)
    BY DEF ToolOK, LinkOK
  <2>2. /\ n \in Nat /\ DOMAIN elfs = 1 .. n /\ IsSeq(s) /\ Len(s) = n + 1
        /\ s[n + 1] = obj /\ \A k \in 1 .. n : s[k] = elfs[k]
    BY <2>1, SeqFacts, SeqAppend
  <2>3. IsTable(obj.symTab) /\ \A k \in 1 .. n : IsTable(elfs[k].symTab)
    BY <1>1, <2>2 DEF TablesOK
  <2>4. elfs' = s
    BY <1>1
  <2> HIDE DEF n, s
  <2>5. DOMAIN s = 1 .. n + 1
    BY <2>2, SeqFacts
  <2>6. \A k \in 1 .. n + 1 : k \in 1 .. n \/ k = n + 1
    BY <2>2
  <2> QED  BY <2>2, <2>3, <2>4, <2>5, <2>6
<1>5. obj'.is # "object"
  BY <1>2 DEF NoObject
<1> QED
  BY <1>1, <1>3, <1>4, <1>5 DEF TablesOK, ObjectFit, ExeFit

LEMMA LinkFits ==
    ASSUME ToolOK, TablesOK, ObjectFit, Link
    PROVE  TablesOK' /\ ObjectFit' /\ ExeFit'
<1>1. LinkNext /\ lb_map' = lb_map /\ obj' = obj
  BY DEF Link, asmVars
<1>2. elfs' = elfs
  BY <1>1 DEF LinkNext, CollectInfo, Validate, AllocAddr, SymParser, Relocate, AssemExe
<1>3. step' # "read" => AreRefs(symDef')
  <2>1. CASE CollectInfo
    BY <2>1, CollectRefs DEF ToolOK, LinkOK, TablesOK
  <2>2. CASE ~ CollectInfo
    <3>1. symDef' = symDef /\ step # "read"
      BY <1>1, <2>2 DEF LinkNext, Validate, AllocAddr, SymParser, Relocate, AssemExe
    <3> QED  BY <3>1 DEF TablesOK
  <2> QED  BY <2>1, <2>2
<1>4. TablesOK' /\ ObjectFit'
  BY <1>1, <1>2, <1>3 DEF TablesOK, ObjectFit
<1>5. ExeFit'
  <2>1. CASE AssemExe
    <3> DEFINE off == segLists[".bss"].offset
    <3>1. step = "relocate" /\ step # "read" /\ exe'.tables = Tables(off) /\ exe'.file = TheFile
      BY <2>1 DEF AssemExe, TheFile
    <3>2. Len(TheFile) = off
      BY <3>1, FileLong DEF ToolOK
    <3>3. AreRefs(symDef)
      BY <3>1 DEF TablesOK
    <3> HIDE DEF off
    <3>4. TablesFit(Tables(off), off)
      BY <3>3, TablesRight
    <3>5. TablesFit(exe'.tables, Len(exe'.file))
      BY <3>1, <3>2, <3>4
    <3> QED  BY <3>5 DEF ExeFit
  <2>2. CASE ~ AssemExe
    <3>1. step' # "linked"
      <4>1. step = "allocate" => step' \in {"parse", step}
        BY <1>1, <2>2 DEF LinkNext, CollectInfo, Validate, AllocAddr, SymParser, Relocate
      <4>2. step # "allocate" => step' \in {"validate", "allocate", "refused", "relocate"}
        BY <1>1, <2>2 DEF LinkNext, CollectInfo, Validate, AllocAddr, SymParser, Relocate
      <4> QED  BY <4>1, <4>2
    <3> QED  BY <3>1 DEF ExeFit
  <2> QED  BY <2>1, <2>2
<1> QED
  BY <1>4, <1>5

\* HeadersTellTheTruth: the places that the assembler and the linker compute
\* for the parts of their files are where the parts are written.
THEOREM HeadersAreTrue == Spec => []HeadersTellTheTruth
<1> DEFINE Inv == TablesOK /\ ObjectFit /\ ExeFit
<1>1. Init => Inv
  BY HeadersStart
<1>2. ToolOK /\ Inv /\ [Next]_toolVars => Inv'
  <2> SUFFICES ASSUME ToolOK, Inv, [Next]_toolVars  PROVE Inv'
    OBVIOUS
  <2>1. CASE Assemble
    BY <2>1, AssembleFits
  <2>2. CASE Collect
    BY <2>2, CollectFits
  <2>3. CASE Link
    BY <2>3, LinkFits
  <2>4. CASE UNCHANGED toolVars
    <3>1. /\ lb_map' = lb_map /\ obj' = obj /\ elfs' = elfs /\ step' = step
          /\ symDef' = symDef /\ exe' = exe
      BY <2>4 DEF toolVars, asmVars, linkVars
    <3> QED  BY <3>1 DEF TablesOK, ObjectFit, ExeFit
  <2> QED  BY <2>1, <2>2, <2>3, <2>4 DEF Next
<1>3. Inv => HeadersTellTheTruth
  BY DEF ObjectFit, ExeFit, ObjectFits, TablesFit, HeadersTellTheTruth
<1> QED
  <2> HIDE DEF Inv
  <2> QED  BY <1>1, <1>2, <1>3, ToolchainInvariant, PTL DEF Spec
-----------------------------------------------------------------------------
(* What an instruction is encoded to: bytes, and a field for its symbol.    *)

Octets == Seq(0 .. 255)

LEMMA BytesAreOctets ==
    ASSUME NEW n \in Int, NEW k \in Nat
    PROVE  Bytes(n, k) \in Octets
<1>1. \A j \in 1 .. k : 256^(j - 1) \in Int
  OBVIOUS
<1>2. \A x \in Int : (n \div x) % 256 \in 0 .. 255
  OBVIOUS
<1>3. \A j \in 1 .. k : (n \div 256^(j - 1)) % 256 \in 0 .. 255
  BY <1>1, <1>2
<1>4. [j \in 1 .. k |-> (n \div 256^(j - 1)) % 256] \in Seq(0 .. 255)
  <2> DEFINE f == [j \in 1 .. k |-> (n \div 256^(j - 1)) % 256]
  <2>1. \A j \in 1 .. k : f[j] \in 0 .. 255
    BY <1>3
  <2>2. f = [j \in 1 .. k |-> f[j]]
    OBVIOUS
  <2> HIDE DEF f
  <2>3. f \in [1 .. k -> 0 .. 255]
    BY <2>1, <2>2
  <2> QED  BY <2>3
<1> QED
  BY <1>4 DEF Octets, Bytes

\* What has been parsed of an instruction is of these types.
Parsed(p) ==
    /\ DOMAIN p = ParseFields
    /\ p.mod \in {-1, 0, 1, 2, 3} /\ p.reg \in 0 .. 7 /\ p.rm \in 0 .. 7
    /\ p.sib \in Octets /\ p.disp \in Octets /\ p.imm \in Int /\ p.len \in {0, 1, 2, 4}

\* A symbol of the instruction, or none, is noted.
Noted(p, i) == p.sym = NoSym \/ p.sym \in Names(i)

LEMMA FieldsAreOctets ==
    ASSUME NEW a \in 0 .. 3, NEW b \in 0 .. 7, NEW c \in 0 .. 7
    PROVE  Fields(a, b, c) \in Octets
<1>1. a * 64 + b * 8 + c \in 0 .. 255
  OBVIOUS
<1> QED
  BY <1>1 DEF Fields, Octets

\* The part of an instruction that a memory operand gives.
MemoryIs(q, p, o) ==
    /\ Parsed(q) /\ q.mod \in {0, 1, 2}
    /\ q.reg = p.reg /\ q.len = p.len /\ q.regs = p.regs /\ q.kinds = p.kinds /\ q.imm = p.imm
    /\ o.by = "sym" => q.mod = 0 /\ q.rm = EBP /\ Len(q.disp) = 4 /\ q.sym = o.name
    /\ o.by # "sym" => q.sym = p.sym

LEMMA MemoryParsed ==
    ASSUME NEW p, Parsed(p), NEW o \in Operands, o.is = "mem", NEW adr,
           o.by = "sym" => adr[o.name] \in Int
    PROVE  MemoryIs(Memory(p, o, adr), p, o)
<1>1. \A n \in Int : Bytes(n, 4) \in Octets /\ Bytes(n, 1) \in Octets /\ Len(Bytes(n, 4)) = 4
  BY BytesAreOctets, BytesLong
<1>2. Fields(0, ESP, ESP) \in Octets
  BY FieldsAreOctets DEF ESP
<1>3. /\ o.by \in {"sym", "num", "reg", "disp", "index"}
      /\ o.by \in {"num", "disp"} => o.n \in Int
      /\ o.by \in {"reg", "disp", "index"} => o.code \in 0 .. 7
      /\ o.by = "index" => o.index \in 0 .. 7
  BY DEF Operands
<1> USE DEF Parsed, ParseFields, MemoryIs
<1>4. CASE o.by = "sym"
  <2> DEFINE name == o.name
             a == Bytes(adr[name], 4)
  <2>1. a \in Octets /\ Len(a) = 4
    BY <1>1, <1>4
  <2>2. Memory(p, o, adr) = [p EXCEPT !.mod = 0, !.rm = EBP, !.disp = a, !.sym = name]
    BY <1>4 DEF Memory
  <2> HIDE DEF a
  <2> QED  BY <1>4, <2>1, <2>2 DEF EBP
<1>5. CASE o.by = "num"
  <2> DEFINE a == Bytes(o.n, 4)
  <2>1. a \in Octets
    BY <1>1, <1>3, <1>5
  <2>2. Memory(p, o, adr) = [p EXCEPT !.mod = 0, !.rm = EBP, !.disp = a]
    BY <1>5 DEF Memory
  <2> HIDE DEF a
  <2> QED  BY <1>5, <2>1, <2>2 DEF EBP
<1> DEFINE s == IF o.code = ESP THEN Fields(0, ESP, ESP) ELSE p.sib
<1>6. \A mod : Based(p, mod, o.code) = [p EXCEPT !.mod = mod, !.rm = o.code, !.sib = s]
  BY DEF Based
<1>7. s \in Octets
  BY <1>2
<1> HIDE DEF s
<1>8. CASE o.by = "reg" /\ o.code = EBP
  <2> DEFINE a == Bytes(0, 1)
  <2>1. a \in Octets
    BY <1>1
  <2>2. Memory(p, o, adr) = [Based(p, 1, o.code) EXCEPT !.disp = a]
    BY <1>8 DEF Memory
  <2> HIDE DEF a
  <2>3. Memory(p, o, adr) = [p EXCEPT !.mod = 1, !.rm = o.code, !.sib = s, !.disp = a]
    BY <1>6, <2>2
  <2> QED  BY <1>3, <1>7, <1>8, <2>1, <2>3
<1>9. CASE o.by = "reg" /\ o.code # EBP
  <2>1. Memory(p, o, adr) = [p EXCEPT !.mod = 0, !.rm = o.code, !.sib = s]
    BY <1>6, <1>9 DEF Memory
  <2> QED  BY <1>3, <1>7, <1>9, <2>1
<1>10. CASE o.by = "disp"
  <2> DEFINE a == Bytes(o.n, IF IsDisp8(o.n) THEN 1 ELSE 4)
             mod == IF IsDisp8(o.n) THEN 1 ELSE 2
  <2>1. a \in Octets /\ mod \in {1, 2}
    BY <1>1, <1>3, <1>10
  <2>2. Memory(p, o, adr) = [Based(p, mod, o.code) EXCEPT !.disp = a]
    BY <1>10 DEF Memory
  <2> HIDE DEF a, mod
  <2>3. Memory(p, o, adr) = [p EXCEPT !.mod = mod, !.rm = o.code, !.sib = s, !.disp = a]
    BY <1>6, <2>2
  <2> QED  BY <1>3, <1>7, <1>10, <2>1, <2>3
<1>11. CASE o.by = "index"
  <2> DEFINE f == Fields(0, o.index, o.code)
  <2>1. f \in Octets
    BY <1>3, <1>11, FieldsAreOctets
  <2>2. Memory(p, o, adr) = [p EXCEPT !.mod = 0, !.rm = ESP, !.sib = f]
    BY <1>11 DEF Memory
  <2> HIDE DEF f
  <2> QED  BY <1>3, <1>11, <2>1, <2>2 DEF ESP
<1> QED
  BY <1>3, <1>4, <1>5, <1>8, <1>9, <1>10, <1>11

\* One operand more.
KindOf(o) == IF o.is = "mem" THEN InMemory ELSE IF o.is = "reg" THEN Register ELSE Immediate

OperandIs(q, p, o) ==
    /\ Parsed(q) /\ q.kinds = Append(p.kinds, KindOf(o))
    /\ o.is \in {"imm", "sym"} =>
          q.mod = p.mod /\ q.rm = p.rm /\ q.disp = p.disp /\ q.len = p.len /\ q.regs = p.regs
          /\ (o.is = "imm" => q.sym = p.sym) /\ (o.is = "sym" => q.sym = o.name)
    /\ o.is = "reg" =>
          q.sym = p.sym /\ q.disp = p.disp /\ q.len = o.size /\ q.regs = p.regs + 1
          /\ (p.regs = 0 => q.mod = p.mod /\ q.rm = p.rm) /\ (p.regs # 0 => q.mod = 3)
    /\ o.is = "mem" =>
          q.mod \in {0, 1, 2} /\ q.len = p.len /\ q.regs = p.regs
          /\ (o.by = "sym" => q.mod = 0 /\ q.rm = EBP /\ Len(q.disp) = 4 /\ q.sym = o.name)
          /\ (o.by # "sym" => q.sym = p.sym)

LEMMA OperandParsed ==
    ASSUME NEW p, Parsed(p), NEW o \in Operands, NEW adr,
           o.is = "sym" \/ (o.is = "mem" /\ o.by = "sym") => adr[o.name] \in Int
    PROVE  OperandIs(Operand(p, o, adr), p, o)
<1>1. /\ o.is \in {"reg", "imm", "sym", "mem"}
      /\ o.is = "reg" => o.size \in {1, 2, 4} /\ o.code \in 0 .. 7
      /\ o.is = "imm" => o.n \in Int
  BY DEF Operands
<1>2. CASE o.is = "mem"
  <2> DEFINE q == Memory(p, o, adr)
  <2>1. MemoryIs(q, p, o)
    BY <1>2, MemoryParsed
  <2>2. Operand(p, o, adr) = [q EXCEPT !.kinds = Append(@, InMemory)]
    BY <1>2 DEF Operand
  <2> HIDE DEF q
  <2> QED  BY <1>2, <2>1, <2>2 DEF MemoryIs, OperandIs, Parsed, ParseFields, KindOf
<1>3. CASE o.is = "imm"
  BY <1>1, <1>3 DEF Operand, OperandIs, Parsed, ParseFields, KindOf
<1>4. CASE o.is = "sym"
  BY <1>1, <1>4 DEF Operand, OperandIs, Parsed, ParseFields, KindOf
<1>5. CASE o.is = "reg"
  BY <1>1, <1>5 DEF Operand, OperandIs, Parsed, ParseFields, KindOf
<1> QED
  BY <1>1, <1>2, <1>3, <1>4, <1>5

\* The addresses of the symbols that an instruction has are known.
Known4(i, adr) == \A name \in Names(i) : adr[name] \in Int

LEMMA OperandOf ==
    ASSUME NEW i, NEW k \in DOMAIN i.args,
           i.args[k].is = "sym" \/ (i.args[k].is = "mem" /\ i.args[k].by = "sym")
    PROVE  i.args[k].name \in Names(i)
BY DEF Names

LEMMA AllParsed ==
    ASSUME NEW i, i.args \in Seq(Operands), NEW adr, Known4(i, adr)
    PROVE  Parsed(Parse(i, adr)) /\ Noted(Parse(i, adr), i)
<1> DEFINE n == Len(i.args)
<1>1. n \in Nat /\ DOMAIN i.args = 1 .. n /\ \A k \in 1 .. n : i.args[k] \in Operands
  OBVIOUS
<1> HIDE DEF n
<1>2. PICK r : Goes(r, "parse", adr, Blank, n, i.args, Parse(i, adr))
  BY <1>1, ParseGoes
<1>3. \A k \in 1 .. n : r[k] = Operand(r[k - 1], i.args[k], adr)
  <2>1. \A e, v, x : FoldStep("parse", e, v, x) = Operand(v, x, e)
    BY DEF FoldStep
  <2> QED  BY <1>2, <2>1 DEF Goes
<1> DEFINE S == {k \in 0 .. n : Parsed(r[k]) /\ Noted(r[k], i)}
<1>4. 0 \in S
  <2>1. r[0] = Blank /\ 0 \in 0 .. n
    BY <1>1, <1>2 DEF Goes
  <2>2. << >> \in Octets
    BY DEF Octets
  <2>3. Parsed(Blank) /\ Blank.sym = NoSym
    BY <2>2 DEF Blank, Parsed, ParseFields
  <2> QED  BY <2>1, <2>3 DEF Noted
<1>5. ASSUME NEW k \in 0 .. n - 1, k \in S  PROVE k + 1 \in S
  <2>1. k + 1 \in 1 .. n /\ k + 1 \in 0 .. n /\ k + 1 - 1 = k
    BY <1>1
  <2> DEFINE p == r[k]
             o == i.args[k + 1]
             q == Operand(p, o, adr)
  <2>2. r[k + 1] = q /\ o \in Operands
    BY <1>1, <1>3, <2>1
  <2>3. Parsed(p) /\ Noted(p, i)
    BY <1>5
  <2>4. o.is = "sym" \/ (o.is = "mem" /\ o.by = "sym") => o.name \in Names(i) /\ adr[o.name] \in Int
    BY <1>1, <2>1, OperandOf DEF Known4
  <2> HIDE DEF p, o, S
  <2>5. OperandIs(q, p, o)
    BY <2>2, <2>3, <2>4, OperandParsed
  <2>6. Parsed(q) /\ (q.sym = p.sym \/ q.sym \in Names(i))
    <3>1. o.is \in {"reg", "imm", "sym", "mem"}
      BY <2>2 DEF Operands
    <3> HIDE DEF q
    <3> QED  BY <2>4, <2>5, <3>1 DEF OperandIs
  <2> HIDE DEF q
  <2>7. Noted(q, i)
    BY <2>3, <2>6 DEF Noted
  <2> QED  BY <2>1, <2>2, <2>6, <2>7 DEF S
<1>6. n \in S
  <2>1. n \in 0 .. n
    BY <1>1
  <2> HIDE DEF S
  <2> QED  BY <1>1, <1>4, <1>5, <2>1, UpTo
<1> QED
  BY <1>2, <1>6 DEF Goes

\* Two operands, the first a register or in memory: the forms gen2op tells apart.
TwoParsed(p, i) ==
    /\ p.kinds = << KindOf(i.args[1]), KindOf(i.args[2]) >>
    /\ p.mod = -1 => i.args[2].is \in {"imm", "sym"} /\ p.len = i.args[1].size
                     /\ (p.sym # NoSym => i.args[2].is = "sym")
    /\ p.mod \in {0, 1, 2} => (p.sym # NoSym => p.mod = 0 /\ p.rm = EBP /\ Len(p.disp) = 4)
    /\ p.mod = 3 => p.sym = NoSym

LEMMA TwoOperands ==
    ASSUME NEW i, i.args \in Seq(Operands), Len(i.args) = 2, i.args[1].is \in {"reg", "mem"},
           i.args[1].is = "mem" => i.args[2].is \in {"reg", "imm"}, NEW adr, Known4(i, adr)
    PROVE  TwoParsed(Parse(i, adr), i)
<1> DEFINE x == i.args[1]
           y == i.args[2]
           p == Operand(Blank, x, adr)
           q == Operand(p, y, adr)
<1>1. DOMAIN i.args = 1 .. 2 /\ x \in Operands /\ y \in Operands /\ 1 \in 1 .. 2 /\ 2 \in 1 .. 2
  OBVIOUS
<1>2. Parse(i, adr) = q
  <2>1. PICK r : Goes(r, "parse", adr, Blank, 2, i.args, Parse(i, adr))
    BY <1>1, ParseGoes
  <2>2. \A e, v, z : FoldStep("parse", e, v, z) = Operand(v, z, e)
    BY DEF FoldStep
  <2>3. r[0] = Blank /\ r[1] = Operand(r[0], i.args[1], adr) /\ r[2] = Operand(r[1], i.args[2], adr)
        /\ r[2] = Parse(i, adr)
    <3>1. \A k \in 1 .. 2 : r[k] = Operand(r[k - 1], i.args[k], adr)
      BY <2>1, <2>2 DEF Goes
    <3>2. 1 - 1 = 0 /\ 2 - 1 = 1
      OBVIOUS
    <3> QED  BY <1>1, <2>1, <3>1, <3>2 DEF Goes
  <2> QED  BY <2>3
<1>3. /\ x.is = "sym" \/ (x.is = "mem" /\ x.by = "sym") => adr[x.name] \in Int
      /\ y.is = "sym" \/ (y.is = "mem" /\ y.by = "sym") => adr[y.name] \in Int
  BY <1>1, OperandOf DEF Known4
<1>4. /\ Parsed(Blank) /\ Blank.sym = NoSym /\ Blank.mod = -1 /\ Blank.regs = 0 /\ Blank.kinds = << >>
  <2>1. << >> \in Octets
    BY DEF Octets
  <2> QED  BY <2>1 DEF Blank, Parsed, ParseFields
<1>5. x.is \in {"reg", "mem"} /\ (x.is = "mem" => y.is \in {"reg", "imm"})
  OBVIOUS
<1>6. y.is \in {"reg", "imm", "sym", "mem"}
  BY <1>1 DEF Operands
<1> HIDE DEF x, y
<1>7. OperandIs(p, Blank, x)
  BY <1>1, <1>3, <1>4, OperandParsed
<1>8. OperandIs(q, p, y)
  <2>1. Parsed(p)
    BY <1>7 DEF OperandIs
  <2> HIDE DEF p
  <2> QED  BY <1>1, <1>3, <2>1, OperandParsed
<1> HIDE DEF p, q
<1>9. q.kinds = << KindOf(x), KindOf(y) >>
  <2>1. q.kinds = Append(p.kinds, KindOf(y)) /\ p.kinds = Append(<< >>, KindOf(x))
    BY <1>4, <1>7, <1>8 DEF OperandIs
  <2>2. \A a : Append(<< >>, a) = << a >>
    OBVIOUS
  <2> QED  BY <2>1, <2>2, TupleAppend
<1> DEFINE Shape == /\ q.mod = -1 => y.is \in {"imm", "sym"} /\ q.len = x.size
                                     /\ (q.sym # NoSym => y.is = "sym")
                    /\ q.mod \in {0, 1, 2} => (q.sym # NoSym => q.mod = 0 /\ q.rm = EBP /\ Len(q.disp) = 4)
                    /\ q.mod = 3 => q.sym = NoSym
<1>10. Shape
  <2>1. CASE x.is = "reg"
    <3>1. p.mod = -1 /\ p.sym = NoSym /\ p.len = x.size /\ p.regs = 1
      BY <1>4, <1>7, <2>1 DEF OperandIs
    <3>2. CASE y.is \in {"imm", "sym"}
      BY <1>8, <3>1, <3>2 DEF OperandIs
    <3>3. CASE y.is = "reg"
      BY <1>8, <3>1, <3>3 DEF OperandIs
    <3>4. CASE y.is = "mem"
      BY <1>8, <3>1, <3>4 DEF OperandIs
    <3> QED  BY <1>6, <3>2, <3>3, <3>4
  <2>2. CASE x.is = "mem"
    <3>1. p.mod \in {0, 1, 2} /\ p.regs = 0
          /\ (p.sym # NoSym => p.mod = 0 /\ p.rm = EBP /\ Len(p.disp) = 4)
      BY <1>4, <1>7, <2>2 DEF OperandIs
    <3>2. y.is = "imm" => q.mod = p.mod /\ q.rm = p.rm /\ q.disp = p.disp /\ q.sym = p.sym
      BY <1>8 DEF OperandIs
    <3>3. y.is = "reg" => q.mod = p.mod /\ q.rm = p.rm /\ q.disp = p.disp /\ q.sym = p.sym
      BY <1>8, <3>1 DEF OperandIs
    <3>4. q.mod = p.mod /\ q.rm = p.rm /\ q.disp = p.disp /\ q.sym = p.sym
      BY <1>5, <2>2, <3>2, <3>3
    <3> QED  BY <3>1, <3>4
  <2> QED  BY <1>5, <2>1, <2>2
<1> HIDE DEF Shape
<1>11. TwoParsed(q, i)
  BY <1>9, <1>10 DEF TwoParsed, Shape, x, y
<1> QED
  BY <1>2, <1>11

\* Bytes, and four of them for a symbol that may have to be relocated.
CodeFits(c, p) ==
    /\ c.head \in Octets /\ c.field \in Octets /\ c.kind \in {"none", "abs", "pc"}
    /\ c.kind = "none" => p.sym = NoSym
    /\ c.kind = "abs" /\ p.sym # NoSym => Len(c.field) = 4
    /\ c.kind = "pc" => Len(c.field) = 4

LEMMA OctetsJoin ==
    /\ << >> \in Octets
    /\ \A a \in 0 .. 255 : << a >> \in Octets
    /\ \A a \in 0 .. 255, b \in 0 .. 255 : << a, b >> \in Octets
    /\ \A s, t : s \in Octets /\ t \in Octets => s \o t \in Octets
<1>1. << >> \in Octets
  BY DEF Octets
<1>2. \A a \in 0 .. 255 : << a >> \in Octets
  BY DEF Octets
<1>3. \A a \in 0 .. 255, b \in 0 .. 255 : << a, b >> \in Octets
  BY DEF Octets
<1>4. \A s, t : s \in Octets /\ t \in Octets => s \o t \in Octets
  BY DEF Octets
<1> QED
  BY <1>1, <1>2, <1>3, <1>4

LEMMA PrefixFits == \A len : Prefix(len) \in Octets
<1>1. 102 \in 0 .. 255
  OBVIOUS
<1>2. << 102 >> \in Octets /\ << >> \in Octets
  BY <1>1, OctetsJoin
<1> QED
  BY <1>2 DEF Prefix

\* The opcodes of gen2op are bytes; a register is added to two of them.
LEMMA Opcode2 ==
    ASSUME NEW op \in DOMAIN Opcodes, NEW k \in 1 .. 8
    PROVE  Opcodes[op][k] \in 0 .. 255 /\ (op = "mov" /\ k \in {4, 8} => Opcodes[op][k] + 7 \in 0 .. 255)
<1>1. k \in {1, 2, 3, 4, 5, 6, 7, 8}
  OBVIOUS
<1>2. op \in {"mov", "cmp", "sub", "add", "and", "or", "lea"}
  BY DEF Opcodes
<1>3. CASE op = "mov"
  BY <1>1, <1>3 DEF Opcodes
<1>4. CASE op = "cmp"
  BY <1>1, <1>4 DEF Opcodes
<1>5. CASE op = "sub"
  BY <1>1, <1>5 DEF Opcodes
<1>6. CASE op = "add"
  BY <1>1, <1>6 DEF Opcodes
<1>7. CASE op = "and"
  BY <1>1, <1>7 DEF Opcodes
<1>8. CASE op = "or"
  BY <1>1, <1>8 DEF Opcodes
<1>9. CASE op = "lea"
  BY <1>1, <1>9 DEF Opcodes
<1> QED
  BY <1>2, <1>3, <1>4, <1>5, <1>6, <1>7, <1>8, <1>9

LEMMA Gen2opFits ==
    ASSUME NEW i, i.op \in DOMAIN Opcodes, HasRoom(i), i.is = "inst", NEW p, Parsed(p), TwoParsed(p, i)
    PROVE  CodeFits(Gen2op(i.op, p), p)
<1> DEFINE op == i.op
           form == IF p.kinds[2] = Immediate THEN 4 ELSE (p.kinds[1] - 2) * 2 + p.kinds[2] - 1
           k == (1 - (p.len % 2)) * 4 + form
           opcode == Opcodes[op][k]
           start == Prefix(p.len) \o << opcode >>
           imm == Bytes(p.imm, p.len)
           mov == Prefix(p.len) \o << opcode + p.reg >>
           rest == start \o Fields(3, RegCode[op], p.reg)
           mem == start \o ModRM(p)
           sib == mem \o p.sib
<1>1. Gen2op(op, p) = CASE p.mod = -1 /\ op = "mov" -> Code(mov, "abs", imm)
                        [] p.mod = -1 /\ op # "mov" -> Code(rest, "abs", imm)
                        [] p.mod = 0 /\ p.rm = EBP -> Code(mem, "abs", p.disp)
                        [] p.mod = 0 /\ p.rm # EBP -> Plain(sib)
                        [] p.mod \in {1, 2} -> Plain(sib \o p.disp)
                        [] p.mod = 3 -> Plain(mem)
  BY DEF Gen2op
<1>2. /\ i.args[1].is \in {"reg", "mem"}
      /\ op = "lea" => i.args[2].is = "mem"
      /\ i.args[2].is = "sym" => i.args[1].size = 4
  BY DEF HasRoom
<1>3. /\ p.mod \in {-1, 0, 1, 2, 3} /\ p.reg \in 0 .. 7 /\ p.rm \in 0 .. 7
      /\ p.sib \in Octets /\ p.disp \in Octets /\ p.imm \in Int /\ p.len \in {0, 1, 2, 4}
  BY DEF Parsed
<1>4. /\ p.kinds = << KindOf(i.args[1]), KindOf(i.args[2]) >>
      /\ p.mod = -1 => i.args[2].is \in {"imm", "sym"} /\ p.len = i.args[1].size
                       /\ (p.sym # NoSym => i.args[2].is = "sym")
      /\ p.mod \in {0, 1, 2} => (p.sym # NoSym => p.mod = 0 /\ p.rm = EBP /\ Len(p.disp) = 4)
      /\ p.mod = 3 => p.sym = NoSym
  BY DEF TwoParsed
<1>5. p.kinds[1] \in {2, 3} /\ p.kinds[2] \in {1, 2, 3}
  <2>1. p.kinds[1] = KindOf(i.args[1]) /\ p.kinds[2] = KindOf(i.args[2])
    BY <1>4
  <2> QED  BY <1>2, <2>1 DEF KindOf, Immediate, Register, InMemory
<1>6. form \in 1 .. 4
  BY <1>5 DEF Immediate
<1>7. k \in 1 .. 8 /\ (form = 4 => k \in {4, 8})
  <2>1. p.len % 2 \in {0, 1}
    BY <1>3
  <2> HIDE DEF form
  <2> QED  BY <1>6, <2>1
<1>8. opcode \in 0 .. 255 /\ (op = "mov" /\ form = 4 => opcode + 7 \in 0 .. 255)
  <2> HIDE DEF k, form
  <2> QED  BY <1>7, Opcode2
<1>9. p.mod = -1 => form = 4
  <2>1. p.kinds[2] = KindOf(i.args[2])
    BY <1>4
  <2> QED  BY <1>4, <2>1 DEF KindOf, Immediate
<1> HIDE DEF form, k, opcode
<1>10. Prefix(p.len) \in Octets
  BY PrefixFits
<1>11. start \in Octets
  BY <1>8, <1>10, OctetsJoin
<1> HIDE DEF start
<1>12. p.mod = -1 /\ op = "mov" => mov \in Octets
  <2>1. p.mod = -1 /\ op = "mov" => opcode + p.reg \in 0 .. 255
    BY <1>3, <1>8, <1>9
  <2> QED  BY <1>10, <2>1, OctetsJoin
<1>13. p.mod = -1 /\ op # "mov" => rest \in Octets
  <2>1. op \in {"mov", "cmp", "sub", "add", "and", "or", "lea"}
    BY DEF Opcodes
  <2>2. p.mod = -1 => op # "lea"
    BY <1>2, <1>4
  <2>3. op \in {"cmp", "sub", "add", "and", "or"} => RegCode[op] \in 0 .. 7
    BY DEF RegCode
  <2>4. p.mod = -1 /\ op # "mov" => Fields(3, RegCode[op], p.reg) \in Octets
    BY <1>3, <2>1, <2>2, <2>3, FieldsAreOctets
  <2> QED  BY <1>11, <2>4, OctetsJoin
<1>14. p.mod # -1 => mem \in Octets /\ sib \in Octets /\ sib \o p.disp \in Octets
  <2>1. p.mod # -1 => ModRM(p) \in Octets
    BY <1>3, FieldsAreOctets DEF ModRM
  <2> QED  BY <1>3, <1>11, <2>1, OctetsJoin
<1>15. imm \in Octets /\ (p.mod = -1 /\ p.sym # NoSym => Len(imm) = 4)
  <2>1. p.len \in Nat
    BY <1>3
  <2>2. p.mod = -1 /\ p.sym # NoSym => p.len = 4
    BY <1>2, <1>4
  <2> QED  BY <1>3, <2>1, <2>2, BytesAreOctets, BytesLong
<1>16. << >> \in Octets
  BY OctetsJoin
<1> HIDE DEF op, imm, mov, rest, mem, sib
<1> USE DEF CodeFits, Code, Plain
<1>17. CASE p.mod = -1 /\ op = "mov"
  BY <1>1, <1>12, <1>15, <1>17 DEF op
<1>18. CASE p.mod = -1 /\ op # "mov"
  BY <1>1, <1>13, <1>15, <1>18 DEF op
<1>19. CASE p.mod = 0 /\ p.rm = EBP
  BY <1>1, <1>3, <1>4, <1>14, <1>19 DEF op
<1>20. CASE p.mod = 0 /\ p.rm # EBP
  BY <1>1, <1>4, <1>14, <1>16, <1>20 DEF op
<1>21. CASE p.mod \in {1, 2}
  BY <1>1, <1>4, <1>14, <1>16, <1>21 DEF op
<1>22. CASE p.mod = 3
  BY <1>1, <1>4, <1>14, <1>16, <1>22 DEF op
<1> QED
  BY <1>3, <1>17, <1>18, <1>19, <1>20, <1>21, <1>22

LEMMA Gen1opFits ==
    ASSUME NEW op \in Operations \ DOMAIN Opcodes, NEW p, Parsed(p),
           op \in DOMAIN Jumps \cup {"call", "jmp"} \/ p.sym = NoSym
    PROVE  CodeFits(Gen1op(op, p), p)
<1> DEFINE pre == Prefix(p.len)
           Others == {"call", "jmp", "int", "push", "pop", "inc", "dec", "neg", "imul", "idiv", "ret"}
<1>1. p.reg \in 0 .. 7 /\ p.imm \in Int
  BY DEF Parsed
<1>2. pre \in Octets
  BY PrefixFits
<1>3. Bytes(0, 4) \in Octets /\ Len(Bytes(0, 4)) = 4 /\ Bytes(p.imm, 1) \in Octets /\ Bytes(p.imm, 4) \in Octets
  <2>1. 0 \in Int /\ 4 \in Nat /\ 1 \in Nat
    OBVIOUS
  <2> QED  BY <1>1, <2>1, BytesAreOctets, BytesLong
<1>4. \A head \in Octets : p.sym = NoSym => CodeFits(Plain(head), p)
  BY OctetsJoin DEF CodeFits, Plain, Code
<1>5. \A head \in Octets : CodeFits(Code(head, "pc", Bytes(0, 4)), p)
  BY <1>3 DEF CodeFits, Code
<1>6. op \in Others \/ op \in DOMAIN Jumps \/ op \in DOMAIN Sets
  BY DEF Operations
<1>7. \A j \in DOMAIN Jumps : j \notin Others \cup DOMAIN Sets
  BY DEF Jumps, Sets
<1>8. \A j \in DOMAIN Sets : j \notin Others
  BY DEF Sets
<1>9. CASE op \in {"call", "jmp"}
  <2>1. << 232 >> \in Octets /\ << 233 >> \in Octets
    <3>1. 232 \in 0 .. 255 /\ 233 \in 0 .. 255
      OBVIOUS
    <3> QED  BY <3>1, OctetsJoin
  <2>2. op \notin DOMAIN Jumps /\ op \notin DOMAIN Sets
    BY <1>7, <1>8, <1>9
  <2>3. CASE op = "call"
    <3>1. Gen1op(op, p) = Code(<< 232 >>, "pc", Bytes(0, 4))
      BY <2>2, <2>3 DEF Gen1op
    <3> QED  BY <1>5, <2>1, <3>1
  <2>4. CASE op = "jmp"
    <3>1. Gen1op(op, p) = Code(<< 233 >>, "pc", Bytes(0, 4))
      BY <2>2, <2>4 DEF Gen1op
    <3> QED  BY <1>5, <2>1, <3>1
  <2> QED  BY <1>9, <2>3, <2>4
<1>10. CASE op \in DOMAIN Jumps
  <2> DEFINE head == << 15, 128 + Condition[Jumps[op]] >>
  <2>1. op \notin Others /\ op \notin DOMAIN Sets
    BY <1>7, <1>10
  <2>2. Gen1op(op, p) = Code(<< 15, 128 + Condition[Jumps[op]] >>, "pc", Bytes(0, 4))
    BY <1>10, <2>1 DEF Gen1op
  <2>3. Condition[Jumps[op]] \in 0 .. 15
    BY <1>10 DEF Jumps, Condition
  <2>4. << 15, 128 + Condition[Jumps[op]] >> \in Octets
    <3>1. 128 + Condition[Jumps[op]] \in 0 .. 255 /\ 15 \in 0 .. 255
      BY <2>3
    <3> QED  BY <3>1, OctetsJoin
  <2> QED  BY <1>5, <2>2, <2>4
<1>11. op \notin {"call", "jmp"} /\ op \notin DOMAIN Jumps => p.sym = NoSym
  OBVIOUS
<1>12. CASE op \in DOMAIN Sets
  <2>1. op \notin Others /\ op \notin DOMAIN Jumps
    BY <1>7, <1>8, <1>12
  <2>2. Gen1op(op, p) = Plain(<< 15, 144 + Condition[Sets[op]] >> \o Fields(3, 0, p.reg))
    BY <1>12, <2>1 DEF Gen1op
  <2>3. Condition[Sets[op]] \in 0 .. 15
    BY <1>12 DEF Sets, Condition
  <2>4. << 15, 144 + Condition[Sets[op]] >> \in Octets
    <3>1. 144 + Condition[Sets[op]] \in 0 .. 255 /\ 15 \in 0 .. 255
      BY <2>3
    <3> QED  BY <3>1, OctetsJoin
  <2>5. Fields(3, 0, p.reg) \in Octets
    BY <1>1, FieldsAreOctets
  <2> QED  BY <1>4, <1>11, <2>1, <2>2, <2>4, <2>5, OctetsJoin
<1>13. CASE op \in Others \ {"call", "jmp"}
  <2>0. op \notin {"call", "jmp"} \cup DOMAIN Jumps \cup DOMAIN Sets /\ p.sym = NoSym
    BY <1>7, <1>8, <1>11, <1>13
  <2>1. \A head \in Octets : CodeFits(Plain(head), p)
    BY <1>4, <2>0
  <2>2. \A s, t : s \in Octets /\ t \in Octets => s \o t \in Octets
    BY OctetsJoin
  <2>3. \A a \in 0 .. 248 : << a + p.reg >> \in Octets
    <3>1. \A a \in 0 .. 248 : a + p.reg \in 0 .. 255
      BY <1>1
    <3> QED  BY <3>1, OctetsJoin
  <2>4. \A a \in 0 .. 255, b \in 0 .. 248 : << a, b + p.reg >> \in Octets
    <3>1. \A b \in 0 .. 248 : b + p.reg \in 0 .. 255
      BY <1>1
    <3> QED  BY <3>1, OctetsJoin
  <2>5. << 205 >> \in Octets /\ << 104 >> \in Octets /\ << 195 >> \in Octets
    <3>1. 205 \in 0 .. 255 /\ 104 \in 0 .. 255 /\ 195 \in 0 .. 255
      OBVIOUS
    <3> QED  BY <3>1, OctetsJoin
  <2>6. \A a \in 0 .. 248 : pre \o << a + p.reg >> \in Octets
    BY <1>2, <2>2, <2>3
  <2>7. \A a \in 0 .. 255, b \in 0 .. 248 : pre \o << a, b + p.reg >> \in Octets
    BY <1>2, <2>2, <2>4
  <2> HIDE DEF pre
  <2>8. \A b \in 0 .. 248 : pre \o << 247, b + p.reg >> \in Octets
    <3>1. 247 \in 0 .. 255
      OBVIOUS
    <3> QED  BY <2>7, <3>1
  <2>9. \E head \in Octets : Gen1op(op, p) = Plain(head)
    <3>1. CASE op = "int"
      <4>1. Gen1op(op, p) = Plain(<< 205 >> \o Bytes(p.imm, 1))
        BY <2>0, <3>1 DEF Gen1op
      <4> QED  BY <1>3, <2>2, <2>5, <4>1
    <3>2. CASE op = "push" /\ p.kinds[1] = Immediate
      <4>1. Gen1op(op, p) = Plain(<< 104 >> \o Bytes(p.imm, 4))
        BY <2>0, <3>2 DEF Gen1op
      <4> QED  BY <1>3, <2>2, <2>5, <4>1
    <3>3. CASE op = "push" /\ p.kinds[1] # Immediate
      <4>1. Gen1op(op, p) = Plain(pre \o << 80 + p.reg >>)
        BY <2>0, <3>3 DEF Gen1op, pre
      <4> QED  BY <2>6, <4>1
    <3>4. CASE op = "pop"
      <4>1. Gen1op(op, p) = Plain(pre \o << 88 + p.reg >>)
        BY <2>0, <3>4 DEF Gen1op, pre
      <4> QED  BY <2>6, <4>1
    <3>5. CASE op = "inc"
      <4>1. Gen1op(op, p) = Plain(IF p.len = 1 THEN << 254, 192 + p.reg >> ELSE pre \o << 64 + p.reg >>)
        BY <2>0, <3>5 DEF Gen1op, pre
      <4>2. 254 \in 0 .. 255 /\ 64 \in 0 .. 248 /\ 192 \in 0 .. 248
        OBVIOUS
      <4>3. << 254, 192 + p.reg >> \in Octets /\ pre \o << 64 + p.reg >> \in Octets
        BY <2>4, <2>6, <4>2
      <4> QED  BY <4>1, <4>3
    <3>6. CASE op = "dec"
      <4>1. Gen1op(op, p) = Plain(IF p.len = 1 THEN << 254, 200 + p.reg >> ELSE pre \o << 72 + p.reg >>)
        BY <2>0, <3>6 DEF Gen1op, pre
      <4>2. 254 \in 0 .. 255 /\ 72 \in 0 .. 248 /\ 200 \in 0 .. 248
        OBVIOUS
      <4>3. << 254, 200 + p.reg >> \in Octets /\ pre \o << 72 + p.reg >> \in Octets
        BY <2>4, <2>6, <4>2
      <4> QED  BY <4>1, <4>3
    <3>7. CASE op = "neg"
      <4> DEFINE opcode == IF p.len = 1 THEN 246 ELSE 247
      <4>1. Gen1op(op, p) = Plain(pre \o << opcode, 216 + p.reg >>)
        BY <2>0, <3>7 DEF Gen1op, pre
      <4>2. opcode \in 0 .. 255 /\ 216 \in 0 .. 248
        OBVIOUS
      <4> HIDE DEF opcode
      <4>3. pre \o << opcode, 216 + p.reg >> \in Octets
        BY <2>7, <4>2
      <4> QED  BY <4>1, <4>3
    <3>8. CASE op = "imul"
      <4>1. Gen1op(op, p) = Plain(pre \o << 247, 232 + p.reg >>)
        BY <2>0, <3>8 DEF Gen1op, pre
      <4>2. 232 \in 0 .. 248
        OBVIOUS
      <4>3. pre \o << 247, 232 + p.reg >> \in Octets
        BY <2>8, <4>2
      <4> QED  BY <4>1, <4>3
    <3>9. CASE op = "idiv"
      <4>1. Gen1op(op, p) = Plain(pre \o << 247, 248 + p.reg >>)
        BY <2>0, <3>9 DEF Gen1op, pre
      <4>2. 248 \in 0 .. 248
        OBVIOUS
      <4>3. pre \o << 247, 248 + p.reg >> \in Octets
        BY <2>8, <4>2
      <4> QED  BY <4>1, <4>3
    <3>10. CASE op = "ret"
      <4>1. Gen1op(op, p) = Plain(<< 195 >>)
        BY <2>0, <3>10 DEF Gen1op
      <4> QED  BY <2>5, <4>1
    <3> QED  BY <1>13, <3>1, <3>2, <3>3, <3>4, <3>5, <3>6, <3>7, <3>8, <3>9, <3>10
  <2> QED  BY <2>1, <2>9
<1> QED
  BY <1>6, <1>9, <1>10, <1>12, <1>13

\* The code of a line that has room for its symbols.
LEMMA InstFits ==
    ASSUME NEW i \in AsmLines, i.is = "inst", HasRoom(i), NEW adr, Known4(i, adr)
    PROVE  LET p == Parse(i, adr) IN CodeFits(Generate(i, p), p) /\ Noted(p, i)
<1> DEFINE p == Parse(i, adr)
<1>1. i.args \in Seq(Operands) /\ i.op \in Operations
  BY LineFields
<1>2. Parsed(p) /\ Noted(p, i)
  BY <1>1, AllParsed
<1>3. CASE i.op \in DOMAIN Opcodes
  <2>1. Len(i.args) = 2 /\ i.args[1].is \in {"reg", "mem"}
        /\ (i.args[1].is = "mem" => i.args[2].is \in {"reg", "imm"})
    BY <1>3 DEF HasRoom
  <2>2. TwoParsed(p, i)
    BY <1>1, <2>1, TwoOperands
  <2> HIDE DEF p
  <2>3. CodeFits(Gen2op(i.op, p), p)
    BY <1>2, <1>3, <2>2, Gen2opFits
  <2> QED  BY <1>2, <1>3, <2>3 DEF Generate, p
<1>4. CASE i.op \notin DOMAIN Opcodes
  <2>1. i.op \in DOMAIN Jumps \cup {"call", "jmp"} \/ p.sym = NoSym
    BY <1>2, <1>4 DEF HasRoom, Noted
  <2> HIDE DEF p
  <2>2. CodeFits(Gen1op(i.op, p), p)
    BY <1>1, <1>2, <1>4, <2>1, Gen1opFits
  <2> QED  BY <1>2, <1>4, <2>2 DEF Generate, p
<1> QED
  BY <1>3, <1>4
-----------------------------------------------------------------------------
(* The symbols: a name that is only used stands for nothing yet.            *)

Places == {"", ".text", ".data", ".bss"} \cup Identifiers

Entries ==
    {e \in [seg : Places, addr : Int, externed : BOOLEAN, isEqu : BOOLEAN, global : BOOLEAN] :
        e.externed => ~ e.isEqu /\ e.addr = 0}

TableFits(m) == IsTable(m) /\ \A n \in DOMAIN m : m[n] \in Entries
Grown(m, t) == TableFits(t) /\ DOMAIN m \subseteq DOMAIN t

LEMMA UpdateFits ==
    ASSUME NEW m, TableFits(m), NEW name \in Identifiers, NEW y \in Entries
    PROVE  Grown(m, Update(m, name, y)) /\ name \in DOMAIN Update(m, name, y)
<1> DEFINE t == Update(m, name, y)
<1>1. IsTable(t)
  BY UpdateTable DEF TableFits
<1>2. DOMAIN t = DOMAIN m \cup {name}
  BY DEF Update
<1>3. ASSUME NEW n \in DOMAIN t  PROVE t[n] \in Entries
  <2>1. n \in DOMAIN m \cup {name}
    BY <1>2
  <2>2. t[n] = IF n = name THEN y ELSE m[n]
    BY <2>1 DEF Update
  <2> HIDE DEF t
  <2> QED  BY <2>1, <2>2 DEF TableFits
<1> HIDE DEF t
<1> QED
  BY <1>1, <1>2, <1>3 DEF TableFits, Grown, t

LEMMA EntryFits ==
    ASSUME NEW s \in Places, NEW a \in Int, NEW x \in BOOLEAN, NEW q \in BOOLEAN, NEW g \in BOOLEAN,
           x => ~ q /\ a = 0
    PROVE  [seg |-> s, addr |-> a, externed |-> x, isEqu |-> q, global |-> g] \in Entries
<1> DEFINE e == [seg |-> s, addr |-> a, externed |-> x, isEqu |-> q, global |-> g]
<1>1. e \in [seg : Places, addr : Int, externed : BOOLEAN, isEqu : BOOLEAN, global : BOOLEAN]
  OBVIOUS
<1>2. e.externed = x /\ e.isEqu = q /\ e.addr = a
  OBVIOUS
<1> HIDE DEF e
<1>3. e \in Entries
  BY <1>1, <1>2 DEF Entries
<1> QED
  BY <1>3 DEF e

LEMMA ExternalFits == External \in Entries
<1>1. "" \in Places /\ 0 \in Int /\ TRUE \in BOOLEAN /\ FALSE \in BOOLEAN
  BY DEF Places
<1> QED
  BY <1>1, EntryFits DEF External

LEMMA KnownFits ==
    ASSUME NEW m, TableFits(m), NEW name \in Identifiers
    PROVE  Grown(m, Known(m, name)) /\ name \in DOMAIN Known(m, name)
<1>1. CASE name \in DOMAIN m
  BY <1>1 DEF Known, Grown
<1>2. CASE name \notin DOMAIN m
  <2>1. Known(m, name) = Update(m, name, External)
    BY <1>2 DEF Known
  <2> QED  BY <2>1, UpdateFits, ExternalFits
<1> QED
  BY <1>1, <1>2

LEMMA AddedFits ==
    ASSUME NEW m, TableFits(m), NEW name \in Identifiers, NEW lb \in Entries
    PROVE  Grown(m, Added(m, name, lb))
<1>1. Added(m, name, lb) = m \/ Added(m, name, lb) = Update(m, name, lb)
  BY DEF Added
<1>2. Grown(m, m)
  BY DEF Grown
<1> QED
  BY <1>1, <1>2, UpdateFits

\* The names of an instruction are in the table.
LEMMA NamesFit ==
    ASSUME NEW S, IsFiniteSet(S), S \subseteq Identifiers, NEW m, TableFits(m)
    PROVE  Grown(m, FoldSet(LAMBDA name, t : Known(t, name), m, S))
           /\ S \subseteq DOMAIN FoldSet(LAMBDA name, t : Known(t, name), m, S)
<1> DEFINE P(g) == g = [s \in SUBSET S |-> IF s = {} THEN m
                            ELSE Known(g[s \ {CHOOSE x \in s : TRUE}], CHOOSE x \in s : TRUE)]
           Good(s, v) == Grown(m, v) /\ s \subseteq DOMAIN v
<1>1. \E g : P(g)
  <2>1. \A g : P(g) <=> IsSetFold(g, SUBSET S, "known", m)
    <3>1. \A x, v : SetStep("known", x, v) = Known(v, x)
      BY DEF SetStep
    <3> QED  BY <3>1, SMTT(20) DEF IsSetFold
  <2>2. \E g : IsSetFold(g, SUBSET S, "known", m)
    BY SetFoldExists
  <2> HIDE DEF P
  <2> QED  BY <2>1, <2>2
<1>2. FoldSet(LAMBDA name, t : Known(t, name), m, S) = (CHOOSE g : P(g))[S]
  BY DEF FoldSet, MapThenFoldSet
<1>3. PICK g : P(g) /\ FoldSet(LAMBDA name, t : Known(t, name), m, S) = g[S]
  <2> HIDE DEF P
  <2> QED  BY <1>1, <1>2
<1>4. \A s \in SUBSET S : g[s] = IF s = {} THEN m
                                 ELSE Known(g[s \ {CHOOSE x \in s : TRUE}], CHOOSE x \in s : TRUE)
  BY <1>3
<1> HIDE DEF P
<1> DEFINE T == {k \in Nat : \A s \in Small(S, k) : Good(s, g[s])}
<1>5. 0 \in T
  <2>1. g[{}] = m
    BY <1>4
  <2>2. Small(S, 0) = {{}}
    BY SmallSets
  <2>3. Good({}, m)
    BY DEF Grown
  <2> QED  BY <2>1, <2>2, <2>3
<1>6. ASSUME NEW s, NEW x \in S, x \in s, NEW v, Good(s \ {x}, v)
      PROVE  Good(s, Known(v, x))
  <2> DEFINE w == Known(v, x)
  <2>1. TableFits(v) /\ DOMAIN m \subseteq DOMAIN v /\ s \ {x} \subseteq DOMAIN v
    BY <1>6 DEF Grown
  <2>2. Grown(v, w) /\ x \in DOMAIN w
    BY <2>1, KnownFits
  <2> HIDE DEF w
  <2>3. Grown(m, w)
    BY <2>1, <2>2 DEF Grown
  <2>4. s \subseteq DOMAIN w
    BY <2>1, <2>2 DEF Grown
  <2> QED  BY <2>3, <2>4 DEF w
<1>7. ASSUME NEW k \in T  PROVE k + 1 \in T
  <2>1. k \in Nat /\ k + 1 \in Nat /\ \A s \in Small(S, k) : Good(s, g[s])
    BY <1>7
  <2>2. ASSUME NEW s \in Small(S, k + 1)  PROVE Good(s, g[s])
    <3>1. s \in SUBSET S
      BY DEF Small
    <3>2. CASE s = {}
      <4>1. Good({}, m)
        BY DEF Grown
      <4> QED  BY <1>4, <3>1, <3>2, <4>1
    <3>3. CASE s # {}
      <4> DEFINE y == CHOOSE x \in s : TRUE
      <4>1. y \in s /\ s \ {y} \in Small(S, k)
        BY <2>1, <3>3, OneLess
      <4>2. g[s] = Known(g[s \ {y}], y)
        BY <1>4, <3>1, <3>3
      <4> HIDE DEF y, Good
      <4>3. Good(s \ {y}, g[s \ {y}])
        BY <2>1, <4>1
      <4>4. y \in S
        BY <3>1, <4>1
      <4> QED  BY <1>6, <4>1, <4>2, <4>3, <4>4
    <3> QED  BY <3>2, <3>3
  <2> QED  BY <2>1, <2>2
<1>8. T = Nat
  <2>1. T \in SUBSET Nat
    OBVIOUS
  <2> HIDE DEF T
  <2> QED  BY <1>5, <1>7, <2>1, Induction
<1>9. Cardinality(S) \in T /\ S \in Small(S, Cardinality(S))
  BY <1>8, SmallSets
<1>10. Good(S, g[S])
  BY <1>9
<1> QED
  BY <1>3, <1>10
-----------------------------------------------------------------------------
(* The places to relocate lie in their section.                             *)

SegNames == {".text", ".data", ".bss"}

Relocations(names) == [seg : SegNames, off : Nat, name : names, type : {"abs", "pc"}]

SegSize(seg, d, b) ==
    IF seg = ".text" THEN TextSize(d) ELSE IF seg = ".data" THEN DataSize(b) ELSE BssSize

FitRels(names, d, b) == {r \in Relocations(names) : r.off + 4 <= SegSize(r.seg, d, b)}

LEMMA RelsMore ==
    ASSUME NEW S, NEW T, S \subseteq T, NEW s \in Seq(S)
    PROVE  s \in Seq(T)
OBVIOUS

LEMMA RelFits ==
    ASSUME curSeg \in SegNames, NEW site \in Nat, NEW names, NEW name \in names, NEW type \in {"abs", "pc"}
    PROVE  /\ Rel(site, name, type) \in Relocations(names)
           /\ Rel(site, name, type).seg = curSeg /\ Rel(site, name, type).off = site
BY DEF Rel, Relocations

\* Within a section the places do not go back.
LEMMA AfterGrows ==
    ASSUME src \in Seq(AsmLines), NEW n \in 0 .. Len(src), NEW m \in n .. Len(src),
           \A j \in n + 1 .. m : src[j].is # "section"
    PROVE  After(src)[n] <= After(src)[m]
<1> DEFINE a == After(src)
           S == {k \in 0 .. m - n : a[n] <= a[n + k]}
<1>1. /\ Len(src) \in Nat /\ (\A j \in 0 .. Len(src) : a[j] \in Nat)
      /\ \A j \in 1 .. Len(src) : a[j] = PlaceAfter(src[j], a[j - 1])
  BY AfterIs DEF IsAfter
<1>2. n \in Nat /\ m \in Nat /\ n <= m /\ m <= Len(src) /\ m - n \in Nat /\ n + 0 = n /\ n + (m - n) = m
  BY <1>1
<1>3. 0 \in S
  BY <1>1, <1>2
<1>4. ASSUME NEW k \in 0 .. m - n - 1, k \in S  PROVE k + 1 \in S
  <2>1. /\ n + k + 1 \in 1 .. Len(src) /\ n + k + 1 \in n + 1 .. m /\ k + 1 \in 0 .. m - n
        /\ n + k \in 0 .. Len(src) /\ n + k + 1 - 1 = n + k /\ n + (k + 1) = n + k + 1 /\ n \in 0 .. Len(src)
    BY <1>1, <1>2
  <2>2. a[n + k + 1] = a[n + k] + LineSize(src[n + k + 1])
    BY <1>1, <2>1 DEF PlaceAfter
  <2>3. LineSize(src[n + k + 1]) \in Nat
    <3>1. src[n + k + 1] \in AsmLines
      BY <2>1
    <3> QED  BY <3>1, LineSizeIsNat
  <2>4. a[n] \in Nat /\ a[n + k] \in Nat /\ a[n] <= a[n + k]
    BY <1>1, <1>4, <2>1
  <2> HIDE DEF a
  <2>5. a[n] <= a[n + k + 1]
    BY <2>2, <2>3, <2>4
  <2> QED  BY <2>1, <2>5
<1>5. m - n \in S
  <2>1. m - n \in 0 .. m - n
    BY <1>2
  <2> HIDE DEF S
  <2> QED  BY <1>2, <1>3, <1>4, <2>1, UpTo
<1> QED
  BY <1>2, <1>5

\* The section a line is read in is at least as long as the place after it.
LEMMA WithinSection ==
    ASSUME src \in Seq(AsmLines), NEW d \in DOMAIN src, NEW b \in DOMAIN src, Sections(src, d, b),
           SegmentOK(d, b), pos \in DOMAIN src, Line.is # "section"
    PROVE  curSeg \in SegNames /\ After(src)[pos] <= SegSize(curSeg, d, b)
<1>1. /\ Len(src) \in Nat /\ DOMAIN src = 1 .. Len(src)
      /\ d \in Nat /\ b \in Nat /\ 1 < d /\ d < b /\ b <= Len(src)
  BY AsmNumbers
<1>2. pos \in Nat /\ pos \in 1 .. Len(src)
  BY <1>1
<1>3. pos \notin {1, d, b} /\ \A j \in 1 .. Len(src) : j \notin {1, d, b} => src[j].is # "section"
  BY <1>1 DEF Sections, Opens, Line
<1>4. 1 < pos
  BY <1>2, <1>3
<1>5. CASE pos < d
  <2>1. curSeg = ".text" /\ SegSize(curSeg, d, b) = After(src)[d - 1]
    <3>1. pos <= d
      BY <1>1, <1>2, <1>5
    <3>2. curSeg = ".text"
      BY <1>4, <3>1 DEF SegmentOK
    <3> QED  BY <3>2 DEF SegSize, TextSize
  <2>2. pos \in 0 .. Len(src) /\ d - 1 \in pos .. Len(src)
        /\ \A j \in pos + 1 .. d - 1 : j \in 1 .. Len(src) /\ j \notin {1, d, b}
    BY <1>1, <1>2, <1>4, <1>5
  <2>3. After(src)[pos] <= After(src)[d - 1]
    BY <1>3, <2>2, AfterGrows
  <2> QED  BY <2>1, <2>3 DEF SegNames
<1>6. CASE d < pos /\ pos < b
  <2>1. curSeg = ".data" /\ SegSize(curSeg, d, b) = After(src)[b - 1]
    <3>1. ~ (pos <= d) /\ pos <= b
      BY <1>1, <1>2, <1>6
    <3>2. curSeg = ".data"
      BY <1>4, <3>1 DEF SegmentOK
    <3> QED  BY <3>2 DEF SegSize, DataSize
  <2>2. pos \in 0 .. Len(src) /\ b - 1 \in pos .. Len(src)
        /\ \A j \in pos + 1 .. b - 1 : j \in 1 .. Len(src) /\ j \notin {1, d, b}
    BY <1>1, <1>2, <1>4, <1>6
  <2>3. After(src)[pos] <= After(src)[b - 1]
    BY <1>3, <2>2, AfterGrows
  <2> QED  BY <2>1, <2>3 DEF SegNames
<1>7. CASE b < pos
  <2>1. curSeg = ".bss" /\ SegSize(curSeg, d, b) = After(src)[Len(src)]
    <3>1. ~ (pos <= d) /\ ~ (pos <= b)
      BY <1>1, <1>2, <1>7
    <3>2. curSeg = ".bss"
      BY <1>4, <3>1 DEF SegmentOK
    <3> QED  BY <3>2 DEF SegSize, BssSize
  <2>2. pos \in 0 .. Len(src) /\ Len(src) \in pos .. Len(src)
        /\ \A j \in pos + 1 .. Len(src) : j \in 1 .. Len(src) /\ j \notin {1, d, b}
    BY <1>1, <1>2, <1>4, <1>7
  <2>3. After(src)[pos] <= After(src)[Len(src)]
    BY <1>3, <2>2, AfterGrows
  <2> QED  BY <2>1, <2>3 DEF SegNames
<1> QED
  BY <1>1, <1>2, <1>3, <1>5, <1>6, <1>7

\* What the values of a data definition add to the relocations.
HasSym(items) == \E k \in DOMAIN items : items[k].is = "sym"

ValueEnd(c) == curAddr + Len(c.cont) * Line.len

ValueRels(c) == {r \in Relocations(DOMAIN c.m) : r.seg = curSeg /\ r.off + 4 <= ValueEnd(c)}

ValuesFit(c, items) ==
    /\ ValuesOK(c) /\ Grown(lb_map, c.m) /\ c.rels \in Seq(ValueRels(c))
    /\ ~ (scanLop = 2 /\ HasSym(items)) => c.rels = << >>

LEMMA EndsGrow ==
    ASSUME curAddr \in Nat, Line.len \in {1, 2, 4}, NEW c, NEW e, ValuesOK(c), ValuesOK(e),
           Len(c.cont) <= Len(e.cont), DOMAIN c.m \subseteq DOMAIN e.m
    PROVE  ValueRels(c) \subseteq ValueRels(e) /\ ValueEnd(c) \in Nat
<1>1. Len(c.cont) \in Nat /\ Len(e.cont) \in Nat
  BY SeqFacts DEF ValuesOK
<1>2. \A a, x, y \in Nat : \A n \in {1, 2, 4} : x <= y => a + x * n \in Nat /\ a + x * n <= a + y * n /\ a + y * n \in Nat
  OBVIOUS
<1>3. ValueEnd(c) \in Nat /\ ValueEnd(e) \in Nat /\ ValueEnd(c) <= ValueEnd(e)
  BY <1>1, <1>2 DEF ValueEnd
<1>4. ASSUME NEW r \in Relocations(DOMAIN c.m), r.off + 4 <= ValueEnd(c)
      PROVE  r \in Relocations(DOMAIN e.m) /\ r.off + 4 <= ValueEnd(e)
  <2>1. r \in Relocations(DOMAIN e.m) /\ r.off \in Nat
    BY DEF Relocations
  <2> QED  BY <1>3, <1>4, <2>1
<1> QED
  BY <1>3, <1>4 DEF ValueRels

LEMMA ValueFits ==
    ASSUME curAddr \in Nat, curSeg \in SegNames, Line.len \in {1, 2, 4},
           NEW items, NEW c, ValuesFit(c, items), NEW item \in Items,
           item.is = "sym" => HasSym(items) /\ Line.len = 4
    PROVE  ValuesFit(Value(c, item), items)
<1> DEFINE e == Value(c, item)
<1>1. item.is \in {"num", "str", "sym"} /\ (item.is = "sym" => item.name \in Identifiers)
      /\ (item.is = "str" => item.bytes \in Seq(0 .. 255))
  BY DEF Items
<1>2. /\ ValuesOK(c) /\ Grown(lb_map, c.m) /\ c.rels \in Seq(ValueRels(c))
      /\ (~ (scanLop = 2 /\ HasSym(items)) => c.rels = << >>)
  BY DEF ValuesFit
<1>3. ValuesOK(e) /\ Len(e.cont) = Len(c.cont) + ItemLen(item)
  BY <1>2, ValueStep
<1>4. ItemLen(item) \in Nat /\ Len(c.cont) \in Nat /\ (item.is = "sym" => ItemLen(item) = 1)
  BY <1>1, <1>2, SeqFacts DEF ItemLen, ValuesOK
<1>5. Len(c.cont) <= Len(e.cont)
  BY <1>3, <1>4
<1>6. CASE item.is # "sym"
  <2>1. e.m = c.m /\ e.rels = c.rels
    BY <1>1, <1>2, <1>6 DEF Value, ValuesOK
  <2> HIDE DEF e
  <2>2. ValueRels(c) \subseteq ValueRels(e)
    BY <1>2, <1>3, <1>5, <2>1, EndsGrow
  <2>3. e.rels \in Seq(ValueRels(e))
    BY <1>2, <2>1, <2>2, RelsMore
  <2> QED  BY <1>2, <1>3, <2>1, <2>3 DEF ValuesFit, e
<1>7. CASE item.is = "sym"
  <2> DEFINE m == Known(c.m, item.name)
             site == curAddr + Len(c.cont) * Line.len
             rel == Rel(site, item.name, "abs")
             rels == IF scanLop = 2 /\ ~ m[item.name].isEqu THEN Append(c.rels, rel) ELSE c.rels
  <2>1. e.m = m /\ e.rels = rels
    BY <1>7 DEF Value
  <2>2. Grown(c.m, m) /\ item.name \in DOMAIN m
    BY <1>1, <1>2, <1>7, KnownFits DEF Grown
  <2> HIDE DEF e, m, rels
  <2>3. ValueRels(c) \subseteq ValueRels(e) /\ ValueEnd(c) \in Nat
    BY <1>2, <1>3, <1>5, <2>1, <2>2, EndsGrow DEF Grown
  <2>4. Grown(lb_map, e.m)
    BY <1>2, <2>1, <2>2 DEF Grown
  <2>5. site \in Nat /\ site + 4 = ValueEnd(e)
    <3>1. Len(e.cont) = Len(c.cont) + 1 /\ Line.len = 4
      BY <1>3, <1>4, <1>7
    <3>2. \A a, x \in Nat : a + x * 4 \in Nat /\ a + x * 4 + 4 = a + (x + 1) * 4
      OBVIOUS
    <3> QED  BY <1>4, <3>1, <3>2 DEF ValueEnd
  <2> HIDE DEF site
  <2>6. rel \in ValueRels(e)
    <3>1. rel \in Relocations(DOMAIN m) /\ rel.seg = curSeg /\ rel.off = site
      BY <2>2, <2>5, RelFits
    <3>2. site + 4 <= ValueEnd(e)
      <4>1. \A x \in Nat : x + 4 <= x + 4
        OBVIOUS
      <4> QED  BY <2>5, <4>1
    <3> HIDE DEF rel
    <3> QED  BY <2>1, <3>1, <3>2 DEF ValueRels
  <2> HIDE DEF rel
  <2>7. c.rels \in Seq(ValueRels(e))
    BY <1>2, <2>3, RelsMore
  <2>8. rels \in Seq(ValueRels(e))
    <3>1. Append(c.rels, rel) \in Seq(ValueRels(e))
      BY <2>6, <2>7
    <3> QED  BY <2>7, <3>1 DEF rels
  <2>9. ~ (scanLop = 2 /\ HasSym(items)) => e.rels = << >>
    BY <1>2, <1>7, <2>1 DEF rels
  <2> QED  BY <1>3, <2>1, <2>4, <2>8, <2>9 DEF ValuesFit, e
<1> QED
  BY <1>6, <1>7

LEMMA AllValuesFit ==
    ASSUME curAddr \in Nat, curSeg \in SegNames, Line.len \in {1, 2, 4}, TableFits(lb_map),
           NEW items \in Seq(Items), HasSym(items) => Line.len = 4
    PROVE  ValuesFit(Values(items), items)
<1> DEFINE n == Len(items)
<1>1. n \in Nat /\ DOMAIN items = 1 .. n /\ \A k \in 1 .. n : items[k] \in Items
  OBVIOUS
<1> HIDE DEF n
<1>2. PICK r : Goes(r, "value", 0, NoValues, n, items, Values(items))
  BY <1>1, ValuesGo
<1>3. \A k \in 1 .. n : r[k] = Value(r[k - 1], items[k])
  <2>1. \A e, v, x : FoldStep("value", e, v, x) = Value(v, x)
    BY DEF FoldStep
  <2> QED  BY <1>2, <2>1 DEF Goes
<1> DEFINE S == {k \in 0 .. n : ValuesFit(r[k], items)}
<1>4. 0 \in S
  <2>1. r[0] = NoValues /\ 0 \in 0 .. n
    BY <1>1, <1>2 DEF Goes
  <2>2. NoValues.m = lb_map /\ NoValues.rels = << >> /\ ValuesOK(NoValues)
    BY Tuples DEF NoValues, ValuesOK
  <2>3. << >> \in Seq(ValueRels(NoValues)) /\ Grown(lb_map, lb_map)
    BY DEF Grown
  <2>4. ValuesFit(NoValues, items)
    BY <2>2, <2>3 DEF ValuesFit
  <2> QED  BY <2>1, <2>4
<1>5. ASSUME NEW k \in 0 .. n - 1, k \in S  PROVE k + 1 \in S
  <2>1. k + 1 \in 1 .. n /\ k + 1 \in 0 .. n /\ k + 1 - 1 = k
    BY <1>1
  <2>2. r[k + 1] = Value(r[k], items[k + 1]) /\ items[k + 1] \in Items
    BY <1>1, <1>3, <2>1
  <2>3. items[k + 1].is = "sym" => HasSym(items) /\ Line.len = 4
    BY <1>1, <2>1 DEF HasSym
  <2>4. ValuesFit(r[k], items)
    BY <1>5
  <2>5. ValuesFit(Value(r[k], items[k + 1]), items)
    BY <2>2, <2>3, <2>4, ValueFits
  <2> QED  BY <2>1, <2>2, <2>5
<1>6. n \in S
  <2>1. n \in 0 .. n
    BY <1>1
  <2> HIDE DEF S
  <2> QED  BY <1>1, <1>4, <1>5, <2>1, UpTo
<1> QED
  BY <1>2, <1>6 DEF Goes
-----------------------------------------------------------------------------
(* The types of the assembler's variables.                                  *)

RoomOK == \A j \in DOMAIN src : HasRoom(src[j])

SymbolsOK ==
    /\ RoomOK /\ curSeg \in Places /\ TableFits(lb_map) /\ relLb = NoSym /\ code \in Octets

RelsAt(d, b) ==
    /\ relTab \in Seq(FitRels(DOMAIN lb_map, d, b))
    /\ scanLop = 1 => relTab = << >>

TypesOK == SymbolsOK /\ \A d, b \in DOMAIN src : Sections(src, d, b) => RelsAt(d, b)

LEMMA OneLayout ==
    ASSUME NEW f, NEW d \in DOMAIN f, NEW b \in DOMAIN f, NEW e \in DOMAIN f, NEW c \in DOMAIN f,
           Sections(f, d, b), Sections(f, e, c)
    PROVE  d = e /\ b = c
<1>1. /\ f[1].name = ".text" /\ f[d].name = ".data" /\ f[e].name = ".data"
      /\ f[b].name = ".bss" /\ f[c].name = ".bss"
      /\ f[d].is = "section" /\ f[b].is = "section"
      /\ \A j \in DOMAIN f : f[j].is = "section" => j \in {1, e, c}
  BY DEF Sections, Opens
<1> QED
  BY <1>1

LEMMA EveryLayout ==
    ASSUME AsmOK, NEW d \in DOMAIN src, NEW b \in DOMAIN src, Sections(src, d, b)
    PROVE  AsmAt(d, b)
<1>1. PICK e, c \in DOMAIN src : Sections(src, e, c) /\ AsmAt(e, c)
  BY DEF AsmOK
<1>2. d = e /\ b = c
  BY <1>1, OneLayout
<1> QED
  BY <1>1, <1>2

LEMMA SameFit ==
    ASSUME src' = src, NEW d, NEW b
    PROVE  FitRels(DOMAIN lb_map, d, b)' = FitRels(DOMAIN lb_map', d, b)
<1>1. TextSize(d)' = TextSize(d) /\ DataSize(b)' = DataSize(b) /\ BssSize' = BssSize
  BY DEF TextSize, DataSize, BssSize
<1> QED
  BY <1>1 DEF FitRels, SegSize

LEMMA FitMore ==
    ASSUME NEW S, NEW T, S \subseteq T, NEW d, NEW b
    PROVE  FitRels(S, d, b) \subseteq FitRels(T, d, b)
<1>1. Relocations(S) \subseteq Relocations(T)
  BY DEF Relocations
<1> QED
  BY <1>1 DEF FitRels

\* Nothing is added to the relocations.
LEMMA RelsStay ==
    ASSUME TypesOK, SymbolsOK', src' = src, relTab' = relTab, DOMAIN lb_map \subseteq DOMAIN lb_map',
           scanLop' = 1 => scanLop = 1
    PROVE  TypesOK'
<1>1. ASSUME NEW d \in DOMAIN src, NEW b \in DOMAIN src, Sections(src, d, b)
      PROVE  RelsAt(d, b)'
  <2> DEFINE S == FitRels(DOMAIN lb_map, d, b)
             T == FitRels(DOMAIN lb_map', d, b)
  <2>1. relTab \in Seq(S) /\ (scanLop = 1 => relTab = << >>)
    BY <1>1 DEF TypesOK, RelsAt
  <2>2. S \subseteq T /\ S' = T
    BY FitMore, SameFit
  <2> HIDE DEF S, T
  <2>3. relTab' \in Seq(S')
    BY <2>1, <2>2, RelsMore
  <2> QED  BY <2>1, <2>3 DEF RelsAt, S
<1>2. \A d, b \in DOMAIN src' : Sections(src', d, b) => RelsAt(d, b)'
  BY <1>1
<1> QED
  BY <1>2 DEF TypesOK

LEMMA PlaceIsNat == AsmOK => curAddr \in Nat /\ Len(src) \in Nat /\ DOMAIN src = 1 .. Len(src)
<1> SUFFICES ASSUME AsmOK  PROVE curAddr \in Nat /\ Len(src) \in Nat /\ DOMAIN src = 1 .. Len(src)
  OBVIOUS
<1>1. PICK d, b \in DOMAIN src : Sections(src, d, b) /\ AsmAt(d, b)
  BY DEF AsmOK
<1>2. src \in Seq(AsmLines) /\ PlaceOK
  BY <1>1 DEF AsmOK, AsmAt
<1>3. Len(src) \in Nat /\ DOMAIN src = 1 .. Len(src) /\ \A j \in 0 .. Len(src) : After(src)[j] \in Nat
  BY <1>1, <1>2, AsmNumbers
<1>4. pos - 1 \in 0 .. Len(src)
  BY <1>2, <1>3 DEF PlaceOK
<1> QED
  BY <1>2, <1>3, <1>4 DEF PlaceOK

\* Sections open and close.
LEMMA SectionTypes ==
    ASSUME AsmOK, TypesOK, Section \/ Reopen
    PROVE  TypesOK'
<1>1. /\ src' = src /\ lb_map' = lb_map /\ relLb' = relLb /\ relTab' = relTab /\ code' = code
      /\ scanLop' = 1 => scanLop = 1
  BY DEF Section, Reopen, Advance
<1>2. Len(src) \in Nat /\ DOMAIN src = 1 .. Len(src) /\ src \in Seq(AsmLines)
  BY PlaceIsNat DEF AsmOK
<1>3. PICK j \in DOMAIN src : curSeg' = src[j].name /\ src[j].is # "inst"
  <2>1. CASE Section
    BY <2>1 DEF Section, Reading, SwitchSeg, Line
  <2>2. CASE Reopen
    <3>1. PICK d, b \in DOMAIN src : Sections(src, d, b)
      BY DEF AsmOK
    <3>2. d \in Nat /\ 1 < d /\ d < b /\ b <= Len(src)
      BY <1>2, <3>1 DEF Sections
    <3>3. Len(src) \in DOMAIN src /\ ~ (Len(src) < d)
      BY <1>2, <3>1, <3>2
    <3>4. src[Len(src)].is # "inst"
      BY <3>1, <3>3 DEF Sections
    <3> QED  BY <2>2, <3>3, <3>4 DEF Reopen, SwitchSeg
  <2> QED  BY <2>1, <2>2
<1>4. curSeg' \in Places
  <2> DEFINE l == src[j]
  <2>1. l \in AsmLines /\ l.is # "inst"
    BY <1>2, <1>3
  <2> HIDE DEF l
  <2>2. l.name \in SegNames \cup Identifiers
    BY <2>1 DEF AsmLines, SegNames
  <2> QED  BY <1>3, <2>2 DEF Places, SegNames, l
<1>5. TableFits(lb_map)' /\ RoomOK'
  <2>1. TableFits(lb_map) /\ RoomOK
    BY DEF TypesOK, SymbolsOK
  <2> QED  BY <1>1, <2>1 DEF TableFits, IsTable, RoomOK
<1>6. SymbolsOK'
  BY <1>1, <1>4, <1>5 DEF TypesOK, SymbolsOK
<1> QED
  BY <1>1, <1>6, RelsStay

\* The object file is written, or nothing happens.
LEMMA SameTypes ==
    ASSUME TypesOK, src' = src, curSeg' = curSeg, lb_map' = lb_map, relLb' = relLb, relTab' = relTab,
           code' = code, scanLop' = 1 => scanLop = 1
    PROVE  TypesOK'
<1>1. TableFits(lb_map)' /\ RoomOK'
  <2>1. TableFits(lb_map) /\ RoomOK
    BY DEF TypesOK, SymbolsOK
  <2> QED  BY <2>1 DEF TableFits, IsTable, RoomOK
<1>2. SymbolsOK'
  BY <1>1 DEF TypesOK, SymbolsOK
<1> QED
  BY <1>2, RelsStay

\* A name is declared or defined.
LEMMA EntryChanged ==
    ASSUME NEW e \in Entries, NEW g \in BOOLEAN, NEW n \in Int, NEW q \in BOOLEAN
    PROVE  [e EXCEPT !.global = g] \in Entries
           /\ (~ e.externed => [e EXCEPT !.addr = n, !.isEqu = q] \in Entries)
<1> DEFINE R == [seg : Places, addr : Int, externed : BOOLEAN, isEqu : BOOLEAN, global : BOOLEAN]
           x == [e EXCEPT !.global = g]
           y == [e EXCEPT !.addr = n, !.isEqu = q]
<1>1. e \in R /\ (e.externed => ~ e.isEqu /\ e.addr = 0)
  BY DEF Entries
<1>2. x \in R
  BY <1>1
<1>3. y \in R
  BY <1>1
<1>4. x.externed = e.externed /\ x.isEqu = e.isEqu /\ x.addr = e.addr
  BY <1>1
<1>5. y.externed = e.externed
  BY <1>1
<1> HIDE DEF x, y
<1>6. x \in Entries
  BY <1>1, <1>2, <1>4 DEF Entries
<1>7. ~ e.externed => y \in Entries
  BY <1>1, <1>3, <1>5 DEF Entries
<1> QED
  BY <1>6, <1>7 DEF x, y

LEMMA GlobalFits ==
    ASSUME NEW m, TableFits(m), NEW name \in DOMAIN m
    PROVE  Grown(m, [m EXCEPT ![name].global = TRUE])
<1> DEFINE t == [m EXCEPT ![name].global = TRUE]
           e == m[name]
<1>1. DOMAIN t = DOMAIN m /\ \A n \in DOMAIN m : t[n] = IF n = name THEN [e EXCEPT !.global = TRUE] ELSE m[n]
  OBVIOUS
<1>2. e \in Entries
  BY DEF TableFits
<1> HIDE DEF e
<1>3. [e EXCEPT !.global = TRUE] \in Entries
  <2>1. TRUE \in BOOLEAN /\ 0 \in Int
    OBVIOUS
  <2> QED  BY <1>2, <2>1, EntryChanged
<1>4. \A n \in DOMAIN t : t[n] \in Entries
  BY <1>1, <1>3 DEF TableFits
<1> HIDE DEF t
<1> QED
  BY <1>1, <1>4 DEF TableFits, IsTable, Grown, t

LEMMA HereFits ==
    ASSUME curSeg \in Places, curAddr \in Nat, NEW n \in Int
    PROVE  Here \in Entries /\ [Here EXCEPT !.addr = n, !.isEqu = TRUE] \in Entries
<1>1. TRUE \in BOOLEAN /\ FALSE \in BOOLEAN /\ curAddr \in Int
  OBVIOUS
<1>2. Here \in Entries
  BY <1>1, EntryFits DEF Here
<1>3. ~ Here.externed
  BY DEF Here
<1> QED
  BY <1>1, <1>2, <1>3, EntryChanged

LEMMA NameTypes ==
    ASSUME AsmOK, TypesOK, Global \/ Label \/ Equ
    PROVE  TypesOK'
<1>1. /\ pos \in DOMAIN src /\ Line.is \in {"global", "label", "equ"}
      /\ src' = src /\ curSeg' = curSeg /\ relLb' = relLb /\ relTab' = relTab /\ code' = code
      /\ scanLop' = scanLop
  BY DEF Global, Label, Equ, Reading, Advance, placeVars
<1>2. TableFits(lb_map) /\ curSeg \in Places /\ curAddr \in Nat
  BY PlaceIsNat DEF TypesOK, SymbolsOK
<1>3. Line \in AsmLines
  BY <1>1 DEF AsmOK, Line
<1>4. Line.name \in Identifiers /\ (Line.is = "equ" => Line.n \in Int)
  BY <1>1, <1>3 DEF AsmLines
<1>5. Grown(lb_map, lb_map')
  <2>1. CASE Global
    <3> DEFINE m == Known(lb_map, Line.name)
               t == [m EXCEPT ![Line.name].global = TRUE]
    <3>1. lb_map' = lb_map \/ lb_map' = t
      BY <2>1 DEF Global
    <3>2. Grown(lb_map, m) /\ Line.name \in DOMAIN m
      BY <1>2, <1>4, KnownFits
    <3> HIDE DEF m
    <3>3. Grown(m, t)
      BY <3>2, GlobalFits DEF Grown
    <3> HIDE DEF t
    <3> QED  BY <1>2, <3>1, <3>2, <3>3 DEF Grown
  <2>2. CASE Label
    <3>1. lb_map' = Added(lb_map, Line.name, Here)
      BY <2>2 DEF Label
    <3>2. Here \in Entries
      <4>1. 0 \in Int
        OBVIOUS
      <4> QED  BY <1>2, <4>1, HereFits
    <3> QED  BY <1>2, <1>4, <3>1, <3>2, AddedFits
  <2>3. CASE Equ
    <3> DEFINE e == [Here EXCEPT !.addr = Line.n, !.isEqu = TRUE]
    <3>1. lb_map' = Added(lb_map, Line.name, e) /\ Line.is = "equ"
      BY <2>3 DEF Equ, Reading
    <3>2. e \in Entries
      BY <1>2, <1>4, <3>1, HereFits
    <3> HIDE DEF e
    <3> QED  BY <1>2, <1>4, <3>1, <3>2, AddedFits
  <2> QED  BY <2>1, <2>2, <2>3
<1>6. SymbolsOK'
  <2>1. TableFits(lb_map')
    BY <1>5 DEF Grown
  <2>2. TableFits(lb_map)' <=> TableFits(lb_map')
    BY DEF TableFits, IsTable
  <2> QED  BY <1>1, <2>1, <2>2 DEF TypesOK, SymbolsOK, RoomOK
<1> QED
  BY <1>1, <1>5, <1>6, RelsStay DEF Grown

\* The place that the next line reaches is within the section.
LEMMA NextWithin ==
    ASSUME AsmOK, AsmNext, NEW d \in DOMAIN src, NEW b \in DOMAIN src, Sections(src, d, b),
           src' = src, pos' = pos + 1, pos \in DOMAIN src, Line.is \in {"data", "inst"},
           Data \/ Instruction
    PROVE  curSeg \in SegNames /\ curAddr' \in Nat /\ curAddr' <= SegSize(curSeg, d, b)
<1>1. src \in Seq(AsmLines)
  BY DEF AsmOK
<1>2. AsmAt(d, b)
  BY EveryLayout
<1>3. AsmAt(d, b)'
  BY <1>1, <1>2, DataLineStep, InstStep
<1>4. DOMAIN src = 1 .. Len(src) /\ Len(src) \in Nat /\ \A j \in 0 .. Len(src) : After(src)[j] \in Nat
  BY <1>1, AsmNumbers
<1>5. pos + 1 - 1 = pos /\ pos \in 0 .. Len(src)
  BY <1>4
<1>6. curAddr' = After(src)[pos]
  BY <1>3, <1>5 DEF AsmAt, PlaceOK
<1>7. curSeg \in SegNames /\ After(src)[pos] <= SegSize(curSeg, d, b)
  BY <1>1, <1>2, WithinSection DEF AsmAt
<1> QED
  BY <1>4, <1>5, <1>6, <1>7

\* Relocations are added.
LEMMA RelsAdded ==
    ASSUME TypesOK, SymbolsOK', src' = src, DOMAIN lb_map \subseteq DOMAIN lb_map', NEW more,
           relTab' = relTab \o more, scanLop' = scanLop, scanLop = 1 => more = << >>,
           \A d, b \in DOMAIN src : Sections(src, d, b) => more \in Seq(FitRels(DOMAIN lb_map', d, b))
    PROVE  TypesOK'
<1>1. ASSUME NEW d \in DOMAIN src, NEW b \in DOMAIN src, Sections(src, d, b)
      PROVE  RelsAt(d, b)'
  <2> DEFINE S == FitRels(DOMAIN lb_map, d, b)
             T == FitRels(DOMAIN lb_map', d, b)
  <2>1. relTab \in Seq(S) /\ (scanLop = 1 => relTab = << >>)
    BY <1>1 DEF TypesOK, RelsAt
  <2>2. S \subseteq T /\ S' = T
    BY FitMore, SameFit
  <2>3. more \in Seq(T)
    BY <1>1
  <2> HIDE DEF S, T
  <2>4. relTab \in Seq(T)
    BY <2>1, <2>2, RelsMore
  <2>5. relTab' \in Seq(S')
    BY <2>2, <2>3, <2>4
  <2>6. scanLop' = 1 => relTab' = << >>
    <3>1. << >> \o << >> = << >>
      OBVIOUS
    <3> QED  BY <2>1, <3>1
  <2> QED  BY <2>5, <2>6 DEF RelsAt, S
<1>2. \A d, b \in DOMAIN src' : Sections(src', d, b) => RelsAt(d, b)'
  BY <1>1
<1> QED
  BY <1>2 DEF TypesOK

LEMMA DataTypes ==
    ASSUME AsmOK, TypesOK, Data
    PROVE  TypesOK'
<1> DEFINE l == Line
           c == Values(l.items)
<1>1. /\ scanLop \in {1, 2} /\ pos \in DOMAIN src /\ l.is = "data"
      /\ pos' = pos + 1 /\ src' = src /\ scanLop' = scanLop
      /\ curSeg' = curSeg /\ relLb' = relLb /\ code' = code
  BY DEF Data, Reading, Advance
<1>2. /\ lb_map' = Added(c.m, l.name, Here) /\ relTab' = relTab \o c.rels
      /\ curAddr' = curAddr + l.times * l.len * Len(c.cont)
  <2>1. c = FoldLeft(Value, [m |-> lb_map, cont |-> << >>, rels |-> << >>], l.items)
    BY DEF Values, NoValues
  <2> HIDE DEF c
  <2> QED  BY <2>1 DEF Data
<1>3. l \in AsmLines /\ HasRoom(l)
  <2>1. src \in Seq(AsmLines) /\ \A j \in DOMAIN src : HasRoom(src[j])
    BY DEF AsmOK, TypesOK, SymbolsOK, RoomOK
  <2>2. l = src[pos]
    BY DEF Line
  <2> HIDE DEF l
  <2> QED  BY <1>1, <2>1, <2>2
<1> HIDE DEF c
<1>4. l.times \in Nat /\ l.len \in {1, 2, 4} /\ l.items \in Seq(Items) /\ l.name \in Identifiers
  <2> HIDE DEF l
  <2>1. l.name \in Identifiers
    BY <1>1, <1>3 DEF AsmLines
  <2> QED  BY <1>1, <1>3, <2>1, LineFields
<1>5. HasSym(l.items) => l.len = 4 /\ l.times # 0
  BY <1>1, <1>3 DEF HasRoom, HasSym
<1>6. ASSUME NEW d \in DOMAIN src, NEW b \in DOMAIN src, Sections(src, d, b)
      PROVE  curSeg \in SegNames /\ curAddr' \in Nat /\ curAddr' <= SegSize(curSeg, d, b)
  <2>1. AsmNext
    BY DEF AsmNext
  <2> QED  BY <1>1, <1>6, <2>1, NextWithin
<1>7. TableFits(lb_map) /\ curSeg \in Places /\ curAddr \in Nat /\ curSeg \in SegNames
  <2>1. curSeg \in SegNames
    BY <1>6 DEF AsmOK
  <2> QED  BY <2>1, PlaceIsNat DEF TypesOK, SymbolsOK
<1>8. ValuesFit(c, l.items)
  BY <1>4, <1>5, <1>7, AllValuesFit DEF c
<1>9. /\ ValuesOK(c) /\ Grown(lb_map, c.m) /\ c.rels \in Seq(ValueRels(c))
      /\ (~ (scanLop = 2 /\ HasSym(l.items)) => c.rels = << >>)
  BY <1>8 DEF ValuesFit
<1>10. Grown(c.m, lb_map')
  <2>1. Here \in Entries
    <3>1. 0 \in Int
      OBVIOUS
    <3> QED  BY <1>7, <3>1, HereFits
  <2> QED  BY <1>2, <1>4, <1>9, <2>1, AddedFits DEF Grown
<1>11. Grown(lb_map, lb_map')
  BY <1>9, <1>10 DEF Grown
<1>12. SymbolsOK'
  <2>1. TableFits(lb_map)' <=> TableFits(lb_map')
    BY DEF TableFits, IsTable
  <2> QED  BY <1>1, <1>11, <2>1 DEF TypesOK, SymbolsOK, RoomOK, Grown
<1>13. ASSUME NEW d \in DOMAIN src, NEW b \in DOMAIN src, Sections(src, d, b)
       PROVE  c.rels \in Seq(FitRels(DOMAIN lb_map', d, b))
  <2>1. CASE ~ HasSym(l.items)
    <3>1. c.rels = << >>
      BY <1>9, <2>1
    <3> QED  BY <3>1
  <2>2. CASE HasSym(l.items)
    <3>1. ValueEnd(c) \in Nat /\ ValueEnd(c) <= curAddr'
      <4>1. \A a, x \in Nat, t \in Nat \ {0} : a + x * 4 \in Nat /\ a + x * 4 <= a + t * 4 * x
        <5>1. \A a, y \in Nat, t \in Nat \ {0} : a + y \in Nat /\ a + y <= a + t * y
          <6>1. \A y \in Nat, t \in Nat \ {0} : y <= t * y /\ t * y \in Nat
            OBVIOUS
          <6>2. \A a, y, z \in Nat : y <= z => a + y \in Nat /\ a + y <= a + z
            OBVIOUS
          <6> QED  BY <6>1, <6>2
        <5>2. \A x \in Nat, t \in Nat \ {0} : t * 4 * x = t * (x * 4) /\ x * 4 \in Nat
          OBVIOUS
        <5> QED  BY <5>1, <5>2
      <4>2. Len(c.cont) \in Nat /\ l.times \in Nat \ {0} /\ l.len = 4
        BY <1>4, <1>5, <1>9, <2>2, SeqFacts DEF ValuesOK
      <4> QED  BY <1>2, <1>7, <4>1, <4>2 DEF ValueEnd
    <3>2. curAddr' \in Nat /\ curAddr' <= SegSize(curSeg, d, b)
      BY <1>6, <1>13
    <3>3. ASSUME NEW r \in ValueRels(c)  PROVE r \in FitRels(DOMAIN lb_map', d, b)
      <4>1. r \in Relocations(DOMAIN c.m) /\ r.seg = curSeg /\ r.off + 4 <= ValueEnd(c)
        BY <3>3 DEF ValueRels
      <4>2. r \in Relocations(DOMAIN lb_map') /\ r.off \in Nat
        BY <1>10, <4>1 DEF Relocations, Grown
      <4>3. SegSize(curSeg, d, b) \in Nat
        BY <1>7, <1>13, AsmNumbers DEF AsmOK, SegSize
      <4>4. r.off + 4 <= SegSize(r.seg, d, b)
        BY <3>1, <3>2, <4>1, <4>2, <4>3
      <4> QED  BY <4>2, <4>4 DEF FitRels
    <3> QED  BY <1>9, <3>3, RelsMore
  <2> QED  BY <2>1, <2>2
<1>14. \A d, b \in DOMAIN src : Sections(src, d, b) => c.rels \in Seq(FitRels(DOMAIN lb_map', d, b))
  BY <1>13
<1>15. DOMAIN lb_map \subseteq DOMAIN lb_map' /\ (scanLop = 1 => c.rels = << >>)
  BY <1>9, <1>11 DEF Grown
<1> DEFINE more == c.rels
<1>16. relTab' = relTab \o more
  BY <1>2
<1> HIDE DEF l
<1> QED
  BY <1>1, <1>12, <1>14, <1>15, <1>16, RelsAdded

LEMMA InstTypes ==
    ASSUME AsmOK, TypesOK, Instruction
    PROVE  TypesOK'
<1> DEFINE l == Line
           m == FoldSet(LAMBDA name, t : Known(t, name), lb_map, Names(l))
           p == Parse(l, Addresses(m))
           c == Generate(l, p)
           lr == IF scanLop = 2 /\ p.sym # NoSym /\ ~m[p.sym].isEqu THEN p.sym ELSE relLb
           site == curAddr + Len(c.head)
           relocated == /\ scanLop = 2 /\ lr # NoSym
                        /\ c.kind = "abs" \/ (c.kind = "pc" /\ m[lr].externed)
           to == IF relocated THEN site ELSE p.imm
           field == IF c.kind = "pc" THEN Bytes(to - (site + 4), 4) ELSE c.field
           rel == Rel(site, lr, c.kind)
           more == IF relocated THEN << rel >> ELSE << >>
<1>1. /\ scanLop \in {1, 2} /\ pos \in DOMAIN src /\ l.is = "inst"
      /\ pos' = pos + 1 /\ src' = src /\ scanLop' = scanLop /\ curSeg' = curSeg
  BY DEF Instruction, Reading, Advance
<1>2. /\ lb_map' = m
      /\ relTab' = IF relocated THEN Append(relTab, rel) ELSE relTab
      /\ relLb' = IF c.kind = "none" THEN lr ELSE NoSym
      /\ curAddr' = site + Len(field)
      /\ code' = IF scanLop = 2 THEN code \o c.head \o field ELSE code
  BY DEF Instruction
<1>3. l \in AsmLines /\ HasRoom(l)
  <2>1. src \in Seq(AsmLines) /\ \A j \in DOMAIN src : HasRoom(src[j])
    BY DEF AsmOK, TypesOK, SymbolsOK, RoomOK
  <2>2. l = src[pos]
    BY DEF Line
  <2> HIDE DEF l
  <2> QED  BY <1>1, <2>1, <2>2
<1>4. ASSUME NEW d \in DOMAIN src, NEW b \in DOMAIN src, Sections(src, d, b)
      PROVE  curSeg \in SegNames /\ curAddr' \in Nat /\ curAddr' <= SegSize(curSeg, d, b)
  <2>1. AsmNext
    BY DEF AsmNext
  <2> QED  BY <1>1, <1>4, <2>1, NextWithin
<1>5. TableFits(lb_map) /\ curAddr \in Nat /\ curSeg \in SegNames /\ relLb = NoSym /\ code \in Octets
  <2>1. curSeg \in SegNames
    BY <1>4 DEF AsmOK
  <2> QED  BY <2>1, PlaceIsNat DEF TypesOK, SymbolsOK
<1> HIDE DEF l
<1>6. Grown(lb_map, m) /\ Names(l) \subseteq DOMAIN m
  <2>1. IsFiniteSet(Names(l)) /\ Names(l) \subseteq Identifiers
    BY <1>1, <1>3, NamesFinite
  <2> QED  BY <1>5, <2>1, NamesFit
<1> HIDE DEF m
<1>7. Known4(l, Addresses(m))
  <2>1. \A name \in DOMAIN m : m[name].addr \in Int
    BY <1>6 DEF Grown, TableFits, Entries
  <2> QED  BY <1>6, <2>1 DEF Known4, Addresses
<1>8. CodeFits(c, p) /\ Noted(p, l)
  BY <1>1, <1>3, <1>7, InstFits
<1>9. Parsed(p)
  BY <1>1, <1>3, <1>7, LineFields, AllParsed
<1> HIDE DEF p, c
<1>10. /\ c.head \in Octets /\ c.field \in Octets /\ c.kind \in {"none", "abs", "pc"}
       /\ (c.kind = "none" => p.sym = NoSym)
       /\ (c.kind = "abs" /\ p.sym # NoSym => Len(c.field) = 4)
       /\ p.imm \in Int
  BY <1>8, <1>9 DEF CodeFits, Parsed
<1>11. lr = NoSym \/ (lr = p.sym /\ p.sym # NoSym /\ lr \in DOMAIN m)
  BY <1>5, <1>6, <1>8 DEF Noted
<1>12. c.kind = "none" => lr = NoSym
  BY <1>5, <1>10
<1>13. site \in Nat
  <2>1. Len(c.head) \in Nat
    BY <1>10 DEF Octets
  <2> QED  BY <1>5, <2>1
<1> HIDE DEF lr
<1>14. to \in Int
  BY <1>10, <1>13
<1> HIDE DEF to, site
<1>15. field \in Octets /\ (c.kind = "pc" => Len(field) = 4)
       /\ (c.kind = "abs" /\ p.sym # NoSym => Len(field) = 4)
  <2>1. to - (site + 4) \in Int /\ 4 \in Nat
    BY <1>13, <1>14
  <2>2. Bytes(to - (site + 4), 4) \in Octets /\ Len(Bytes(to - (site + 4), 4)) = 4
    BY <2>1, BytesAreOctets, BytesLong
  <2> QED  BY <1>10, <2>2
<1> HIDE DEF field
<1>16. relocated => Len(field) = 4 /\ lr \in DOMAIN m /\ c.kind \in {"abs", "pc"} /\ scanLop = 2
  BY <1>11, <1>15
<1> HIDE DEF relocated
<1>17. SymbolsOK'
  <2>1. TableFits(lb_map') /\ relLb' = NoSym
    BY <1>2, <1>6, <1>12 DEF Grown
  <2>2. TableFits(lb_map)' <=> TableFits(lb_map')
    BY DEF TableFits, IsTable
  <2>3. code' \in Octets
    <3>1. code \o c.head \in Octets
      BY <1>5, <1>10, OctetsJoin
    <3>2. (code \o c.head) \o field \in Octets
      BY <1>15, <3>1, OctetsJoin
    <3> QED  BY <1>2, <1>5, <3>2
  <2> QED  BY <1>1, <2>1, <2>2, <2>3 DEF TypesOK, SymbolsOK, RoomOK
<1>18. ASSUME NEW d \in DOMAIN src, NEW b \in DOMAIN src, Sections(src, d, b)
       PROVE  more \in Seq(FitRels(DOMAIN lb_map', d, b))
  <2>1. CASE ~ relocated
    BY <2>1
  <2>2. CASE relocated
    <3>1. rel \in Relocations(DOMAIN m) /\ rel.seg = curSeg /\ rel.off = site
      BY <1>5, <1>13, <1>16, <2>2, RelFits
    <3>2. site + 4 <= SegSize(curSeg, d, b)
      BY <1>2, <1>4, <1>16, <1>18, <2>2
    <3> HIDE DEF rel
    <3>3. rel \in FitRels(DOMAIN lb_map', d, b)
      BY <1>2, <3>1, <3>2 DEF FitRels
    <3> QED  BY <2>2, <3>3
  <2> QED  BY <2>1, <2>2
<1>19. relTab' = relTab \o more
  <2>1. IsSeq(relTab)
    BY DEF AsmOK, TypesOK, RelsAt, IsSeq
  <2> HIDE DEF rel
  <2>2. \A x : Append(relTab, x) = relTab \o << x >>
    BY <2>1 DEF IsSeq
  <2>3. relTab \o << >> = relTab
    BY <2>1 DEF IsSeq
  <2> QED  BY <1>2, <2>2, <2>3
<1>20. scanLop = 1 => more = << >>
  BY <1>16
<1> HIDE DEF more
<1>21. \A d, b \in DOMAIN src : Sections(src, d, b) => more \in Seq(FitRels(DOMAIN lb_map', d, b))
  BY <1>18
<1>22. DOMAIN lb_map \subseteq DOMAIN lb_map'
  BY <1>2, <1>6 DEF Grown
<1> QED
  BY <1>1, <1>17, <1>19, <1>20, <1>21, <1>22, RelsAdded

LEMMA AsmTypes ==
    ASSUME AsmOK, TypesOK, AsmNext
    PROVE  TypesOK'
<1>1. CASE WriteElf
  <2>1. /\ src' = src /\ curSeg' = curSeg /\ lb_map' = lb_map /\ relLb' = relLb /\ relTab' = relTab
        /\ code' = code /\ scanLop' # 1
    BY <1>1 DEF WriteElf, placeVars
  <2> QED  BY <2>1, SameTypes
<1> QED
  BY <1>1, SectionTypes, NameTypes, DataTypes, InstTypes DEF AsmNext

\* A file is started on.
LEMMA NothingFits == TableFits(<< >>) /\ << >> \in Octets /\ "" \in Places
<1>1. DOMAIN << >> = {}
  BY Tuples
<1> QED
  BY <1>1, NoTable, OctetsJoin DEF TableFits, Places

LEMMA FreshTypes ==
    ASSUME NEW f, \A j \in DOMAIN f : HasRoom(f[j]), Fresh(f)
    PROVE  TypesOK
<1>1. /\ src = f /\ scanLop = 1 /\ curSeg = "" /\ lb_map = << >> /\ relLb = NoSym
      /\ relTab = << >> /\ code = << >>
  BY DEF Fresh
<1>2. SymbolsOK
  BY <1>1, NothingFits DEF SymbolsOK, RoomOK
<1>3. ASSUME NEW d, NEW b  PROVE RelsAt(d, b)
  <2>1. \A S : << >> \in Seq(S)
    OBVIOUS
  <2> QED  BY <1>1, <2>1 DEF RelsAt
<1> QED
  BY <1>2, <1>3 DEF TypesOK

LEMMA RestartedTypes ==
    ASSUME NEW f, \A j \in DOMAIN f : HasRoom(f[j]), Restarted(f)
    PROVE  TypesOK'
<1>1. /\ src' = f /\ scanLop' = 1 /\ curSeg' = "" /\ lb_map' = << >> /\ relLb' = NoSym
      /\ relTab' = << >> /\ code' = << >>
  BY DEF Restarted
<1>2. SymbolsOK'
  <2>1. TableFits(lb_map)' <=> TableFits(lb_map')
    BY DEF TableFits, IsTable
  <2> QED  BY <1>1, <2>1, NothingFits DEF SymbolsOK, RoomOK
<1>3. ASSUME NEW d, NEW b  PROVE RelsAt(d, b)'
  <2>1. \A S : << >> \in Seq(S)
    OBVIOUS
  <2> QED  BY <1>1, <2>1 DEF RelsAt
<1> QED
  BY <1>2, <1>3 DEF TypesOK

LEMMA BuildRooms ==
    ASSUME NEW build \in Inputs, NEW k \in DOMAIN build
    PROVE  \A j \in DOMAIN build[k] : HasRoom(build[k][j])
BY RoomAssumption

LEMMA TypesStart == Init => TypesOK
<1> SUFFICES ASSUME Init  PROVE TypesOK
  OBVIOUS
<1>1. files \in Inputs /\ Fresh(files[1])
  BY DEF Init
<1>2. 1 \in DOMAIN files
  <2>1. Len(files) \in Nat \ {0} /\ DOMAIN files = 1 .. Len(files)
    BY <1>1, BuildFiles
  <2> QED  BY <2>1
<1> QED
  BY <1>1, <1>2, BuildRooms, FreshTypes

LEMMA CollectTypes ==
    ASSUME ToolOK, TypesOK, Collect
    PROVE  TypesOK'
<1>1. CASE Len(elfs) + 1 < Len(files)
  <2>1. Restarted(files[Len(elfs) + 2])
    BY <1>1 DEF Collect
  <2>2. Len(elfs) + 2 \in DOMAIN files /\ files \in Inputs
    <3>1. Len(elfs) \in Nat
      BY SeqFacts DEF ToolOK, LinkOK
    <3>2. Len(files) \in Nat /\ DOMAIN files = 1 .. Len(files)
      BY BuildFiles DEF ToolOK
    <3> QED  BY <1>1, <3>1, <3>2 DEF ToolOK
  <2> QED  BY <2>1, <2>2, BuildRooms, RestartedTypes
<1>2. CASE ~ (Len(elfs) + 1 < Len(files))
  <2>1. UNCHANGED <<scanVars, placeVars, lb_map, defLbs, relLb, relTab, code>>
    BY <1>2 DEF Collect
  <2>2. /\ src' = src /\ curSeg' = curSeg /\ lb_map' = lb_map /\ relLb' = relLb /\ relTab' = relTab
        /\ code' = code /\ scanLop' = scanLop
    BY <2>1 DEF scanVars, placeVars
  <2> QED  BY <2>2, SameTypes
<1> QED
  BY <1>1, <1>2

\* The places to relocate, in the sections that are recorded.
LEMMA RelsRecorded ==
    ASSUME AsmOK, TypesOK, NEW r \in Range(relTab)
    PROVE  r.name \in DOMAIN lb_map /\ r.off + 4 <= shdrTab[SegIndex(r.seg)].size
<1>1. PICK d, b \in DOMAIN src : Sections(src, d, b) /\ AsmAt(d, b)
  BY DEF AsmOK
<1>2. relTab \in Seq(FitRels(DOMAIN lb_map, d, b)) /\ (scanLop = 1 => relTab = << >>)
  BY <1>1 DEF TypesOK, RelsAt
<1>3. r \in FitRels(DOMAIN lb_map, d, b) /\ scanLop # 1
  <2>1. PICK k \in DOMAIN relTab : r = relTab[k]
    BY DEF Range
  <2>2. relTab # << >>
    BY <2>1
  <2> QED  BY <1>2, <2>1, <2>2
<1>4. r.name \in DOMAIN lb_map /\ r.seg \in SegNames /\ r.off + 4 <= SegSize(r.seg, d, b)
  BY <1>3 DEF FitRels, Relocations
<1> DEFINE t == TextHdr(d)
           u == DataHdr(d, b)
           v == BssHdr(d, b)
<1>5. shdrTab = << t, u, v >>
  BY <1>1, <1>3 DEF AsmAt, RecordsOK
<1>6. t.name = ".text" /\ u.name = ".data" /\ v.name = ".bss"
      /\ t.size = TextSize(d) /\ u.size = DataSize(b) /\ v.size = BssSize
  BY DEF TextHdr, DataHdr, BssHdr, Hdr
<1> HIDE DEF t, u, v
<1>7. SegIndex(".text") = 1 /\ SegIndex(".data") = 2 /\ SegIndex(".bss") = 3
  BY <1>5, <1>6, IndexIn
<1>8. shdrTab[1] = t /\ shdrTab[2] = u /\ shdrTab[3] = v
  BY <1>5
<1>9. r.seg = ".text" \/ r.seg = ".data" \/ r.seg = ".bss"
  BY <1>4 DEF SegNames
<1>10. shdrTab[SegIndex(r.seg)].size = SegSize(r.seg, d, b)
  BY <1>6, <1>7, <1>8, <1>9 DEF SegSize
<1> QED
  BY <1>4, <1>10

LEMMA LengthIsNat == AsmOK => dataLen \in Nat
<1> SUFFICES ASSUME AsmOK  PROVE dataLen \in Nat
  OBVIOUS
<1>1. PICK d, b \in DOMAIN src : Sections(src, d, b) /\ AsmAt(d, b)
  BY DEF AsmOK
<1>2. /\ Len(src) \in Nat /\ d \in Nat /\ b \in Nat /\ TextSize(d) \in Nat /\ DataSize(b) \in Nat
      /\ DataStart(d) \in Nat /\ BssStart(d, b) \in Nat
  BY <1>1, AsmNumbers DEF AsmOK
<1>3. RecordsOK(d, b) /\ pos \in Nat
  BY <1>1, <1>2 DEF AsmAt, PlaceOK
<1>4. DataStart(d) + DataSize(b) \in Nat /\ 0 \in Nat
  BY <1>2
<1>5. pos <= d \/ (d < pos /\ pos <= b) \/ b < pos
  BY <1>2, <1>3
<1> QED
  BY <1>2, <1>3, <1>4, <1>5 DEF RecordsOK

LEMMA RangeWithin ==
    ASSUME NEW S, NEW s \in Seq(S)
    PROVE  Range(s) \subseteq S
<1>1. \A k \in DOMAIN s : s[k] \in S
  OBVIOUS
<1> QED
  BY <1>1 DEF Range

LEMMA TypesImply ==
    ASSUME ToolOK, TypesOK
    PROVE  TypeOK
<1>1. AsmOK /\ LinkOK
  BY DEF ToolOK
<1>2. pos \in 1 .. Len(src) + 1 /\ scanLop \in 1 .. 3
  <2>1. PlaceOK
    BY <1>1 DEF AsmOK, AsmAt
  <2>2. 1 \in 1 .. 3 /\ 2 \in 1 .. 3 /\ 3 \in 1 .. 3
    OBVIOUS
  <2> QED  BY <2>1, <2>2 DEF PlaceOK
<1>3. curSeg \in {"", ".text", ".data", ".bss"} \cup DOMAIN NameLen /\ {curAddr, dataLen} \subseteq Nat
  BY <1>1, PlaceIsNat, LengthIsNat DEF TypesOK, SymbolsOK, Places, Identifiers
<1>4. DOMAIN lb_map \subseteq DOMAIN NameLen
  BY DEF TypesOK, SymbolsOK, TableFits, IsTable, Identifiers
<1>5. \A n \in DOMAIN lb_map : lb_map[n].externed => ~lb_map[n].isEqu /\ lb_map[n].addr = 0
  BY DEF TypesOK, SymbolsOK, TableFits, Entries
<1>6. relLb = NoSym
  BY DEF TypesOK, SymbolsOK
<1>7. \A r \in Range(relTab) : r.name \in DOMAIN lb_map /\ r.off + 4 <= shdrTab[SegIndex(r.seg)].size
  BY <1>1, RelsRecorded
<1>8. Range(code) \subseteq 0 .. 255
  <2>1. code \in Seq(0 .. 255)
    BY DEF TypesOK, SymbolsOK, Octets
  <2> QED  BY <2>1, RangeWithin
<1>9. step \in {"read", "validate", "refused", "allocate", "parse", "relocate", "linked"}
  BY <1>1 DEF LinkOK, Steps
<1>10. DOMAIN segLists \subseteq Range(segNames)
  <2>1. DOMAIN segLists \subseteq {".text", ".data", ".bss"}
    BY <1>1 DEF LinkOK, Reached, Steps
  <2>2. {".text", ".data", ".bss"} \subseteq Range(segNames)
    <3>1. segNames[1] = ".text" /\ segNames[2] = ".data" /\ segNames[3] = ".bss" /\ DOMAIN segNames = 1 .. 3
      BY DEF segNames
    <3>2. 1 \in 1 .. 3 /\ 2 \in 1 .. 3 /\ 3 \in 1 .. 3
      OBVIOUS
    <3> QED  BY <3>1, <3>2 DEF Range
  <2> QED  BY <2>1, <2>2
<1> QED
  BY <1>2, <1>3, <1>4, <1>5, <1>6, <1>7, <1>8, <1>9, <1>10 DEF TypeOK

\* TypeOK: in files whose symbols have room, every place to relocate lies in
\* its section, and no symbol is left over for the next instruction.
THEOREM TypesAreRight == Spec => []TypeOK
<1>1. Init => TypesOK
  BY TypesStart
<1>2. ToolOK /\ TypesOK /\ [Next]_toolVars => TypesOK'
  <2> SUFFICES ASSUME ToolOK, TypesOK, [Next]_toolVars  PROVE TypesOK'
    OBVIOUS
  <2>1. CASE Assemble
    BY <2>1, AsmTypes DEF Assemble, ToolOK
  <2>2. CASE Collect
    BY <2>2, CollectTypes
  <2>3. CASE Link \/ UNCHANGED toolVars
    <3>1. UNCHANGED asmVars
      BY <2>3 DEF Link, toolVars
    <3>2. /\ src' = src /\ curSeg' = curSeg /\ lb_map' = lb_map /\ relLb' = relLb /\ relTab' = relTab
          /\ code' = code /\ scanLop' = scanLop
      BY <3>1 DEF asmVars, scanVars, placeVars
    <3> QED  BY <3>2, SameTypes
  <2> QED  BY <2>1, <2>2, <2>3 DEF Next
<1>3. ToolOK /\ TypesOK => TypeOK
  BY TypesImply
<1> QED
  BY <1>1, <1>2, <1>3, ToolchainInvariant, PTL DEF Spec
=============================================================================
