-------------------------- MODULE RegAlloc_proofs --------------------------
(***************************************************************************)
(* Proofs about RegAlloc, for every function, every number of registers    *)
(* and every choice among the nodes of largest degree.                     *)
(***************************************************************************)
EXTENDS RegAlloc, FiniteSetTheorems, TLAPS

-----------------------------------------------------------------------------
(* The inductive invariant *)

Building == pc \in {"build", "endless"}

\* The edges: variables live together, after an instruction already looked at.
Edges ==
    /\ \A v \in fun.local : v \notin links[v]
    /\ \A u, v \in fun.local : u \in links[v] => v \in links[u]
    /\ \A u, v \in buf \cap fun.local : u # v => u \in links[v]
    /\ \A l \in k + 1 .. Len(fun.out) : \A u, v \in fun.out[l] \cap fun.local :
          u # v => u \in links[v]
    /\ \A v \in fun.local : \A u \in links[v] :
          \E l \in 1 .. Len(fun.out) : {u, v} \subseteq fun.out[l]
    /\ ~ Building => k = 0

\* Nothing is coloured while the graph is built.
Fresh ==
    Building =>
        \A v \in fun.local :
            /\ color[v] = -1
            /\ degree[v] = Cardinality(links[v])
            /\ exColors[v] = IF v \in fun.inMem THEN Color ELSE {}

\* A coloured node had its turn, and no neighbour has its colour.
Proper ==
    \A v \in fun.local : color[v] # -1 =>
        /\ degree[v] = -1
        /\ v \notin fun.inMem
        /\ \A u \in links[v] : color[u] # color[v]

\* What a node excludes: the colours of its neighbours, or all if it has to
\* stay in memory.
Excluded ==
    \A v \in fun.local :
        /\ v \in fun.inMem => exColors[v] = Color
        /\ v \notin fun.inMem => \A c \in exColors[v] : \E u \in links[v] : color[u] = c
        /\ degree[v] # -1 => \A u \in links[v] : color[u] # -1 => color[u] \in exColors[v]
        /\ degree[v] = -1 /\ color[v] = -1 => exColors[v] = Color

Uncoloured(v) == {u \in links[v] : color[u] = -1}

Degrees ==
    \A v \in fun.local : degree[v] # -1 => degree[v] = Cardinality(Uncoloured(v))

Unturned == {v \in fun.local : degree[v] # -1}

Turns == turns = Cardinality(Unturned) /\ (pc = "done" => turns = 0)

IInv == TypeOK /\ Edges /\ Fresh /\ Proper /\ Excluded /\ Degrees /\ Turns

-----------------------------------------------------------------------------
(* Lemmas *)

\* What the assumption says of the function at hand.
LEMMA FunType ==
    ASSUME fun \in Funs
    PROVE  /\ fun.local \subseteq Var /\ IsFiniteSet(fun.local)
           /\ fun.out \in Seq(SUBSET Var) /\ Len(fun.out) \in Nat
           /\ \A l \in 1 .. Len(fun.out) : fun.out[l] \subseteq Var
<1>1. fun.local \in SUBSET Var /\ fun.out \in Seq(SUBSET Var)
  BY ConstAssumption
<1>2. IsFiniteSet(fun.local)
  BY <1>1, FS_Subset, ConstAssumption
<1>3. Len(fun.out) \in Nat /\ \A l \in 1 .. Len(fun.out) : fun.out[l] \subseteq Var
  BY <1>1
<1> QED
  BY <1>1, <1>2, <1>3

\* The sets that are counted are finite.
LEMMA Counted ==
    ASSUME TypeOK
    PROVE  /\ IsFiniteSet(Unturned) /\ Cardinality(Unturned) \in Nat
           /\ \A v \in fun.local : /\ IsFiniteSet(links[v])
                                   /\ Cardinality(links[v]) \in Nat
                                   /\ IsFiniteSet(Uncoloured(v))
                                   /\ Cardinality(Uncoloured(v)) \in Nat
<1>1. IsFiniteSet(fun.local)
  BY FunType DEF TypeOK
<1>2. IsFiniteSet(Unturned)
  BY <1>1, FS_Subset DEF Unturned
<1>3. ASSUME NEW v \in fun.local
      PROVE  IsFiniteSet(links[v]) /\ IsFiniteSet(Uncoloured(v))
  <2>1. links[v] \in SUBSET fun.local /\ Uncoloured(v) \in SUBSET fun.local
    BY DEF TypeOK, Uncoloured
  <2> QED  BY <1>1, <2>1, FS_Subset
<1> QED
  BY <1>2, <1>3, FS_CardinalityType

\* As long as there are turns, the node picked has not had its own.
LEMMA PickedWaits ==
    ASSUME IInv, turns > 0, NEW n \in fun.local, Picked(n)
    PROVE  degree[n] # -1 /\ color[n] = -1
<1>1. Unturned # {}
  BY FS_EmptySet DEF IInv, Turns
<1>2. PICK u \in fun.local : degree[u] # -1
  BY <1>1 DEF Unturned
<1>3. degree[u] \in Nat /\ degree[u] <= degree[n]
  BY <1>2 DEF IInv, TypeOK, Picked
<1>4. degree[n] # -1
  BY <1>3
<1> QED
  BY <1>4 DEF IInv, Proper

-----------------------------------------------------------------------------
(* The invariant is inductive *)

\* The nodes start without links.
LEMMA InitInv == Init => IInv
<1> SUFFICES ASSUME Init  PROVE IInv
  OBVIOUS
<1>1. /\ fun \in Funs /\ IsFiniteSet(fun.local) /\ Len(fun.out) \in Nat
      /\ Cardinality(fun.local) \in Nat
  BY FunType, FS_CardinalityType DEF Init
<1>2. TypeOK
  <2>1. exColors \in [fun.local -> SUBSET Color]
    BY DEF Init
  <2> QED  BY <1>1, <2>1 DEF Init, TypeOK
<1>3. Edges
  BY <1>1 DEF Init, Edges, Building
<1>4. Fresh /\ Degrees
  <2>1. \A v \in fun.local : Uncoloured(v) = {}
    BY DEF Init, Uncoloured
  <2> QED  BY <2>1, FS_EmptySet DEF Init, Fresh, Degrees
<1>5. Proper /\ Excluded
  BY DEF Init, Proper, Excluded
<1>6. Turns
  <2>1. Unturned = fun.local
    BY DEF Init, Unturned
  <2> QED  BY <2>1 DEF Init, Turns
<1> QED
  BY <1>2, <1>3, <1>4, <1>5, <1>6 DEF IInv

\* Steps that leave the graph alone.
LEMMA KeepInv ==
    IInv /\ (OldSet \/ NoVariable \/ Built \/ Painted \/ UNCHANGED vars) => IInv'
<1> SUFFICES ASSUME IInv, OldSet \/ NoVariable \/ Built \/ Painted \/ UNCHANGED vars
             PROVE  IInv'
  OBVIOUS
<1>1. /\ UNCHANGED <<fun, buf, links, degree, exColors, color, turns>>
      /\ fun \in Funs /\ k \in 0 .. Len(fun.out) /\ Len(fun.out) \in Nat
  BY FunType DEF OldSet, NoVariable, Built, Painted, vars, graph, IInv, TypeOK
<1>2. /\ k' = k \/ (k >= 1 /\ k' = k - 1 /\ fun.out[k] = buf)
      /\ k' \in 0 .. Len(fun.out)
      /\ pc' \in {"build", "endless", "paint", "done"}
      /\ ~ Building' => k' = 0
      /\ Building' => Building
      /\ pc' = "done" => turns = 0
  <2> USE <1>1 DEF Building
  <2>1. CASE OldSet
    BY <2>1 DEF OldSet
  <2>2. CASE NoVariable
    BY <2>2 DEF NoVariable
  <2>3. CASE Built
    BY <2>3 DEF Built
  <2>4. CASE Painted
    BY <2>4 DEF Painted, IInv, Edges
  <2>5. CASE UNCHANGED vars
    BY <2>5 DEF vars, IInv, TypeOK, Edges, Turns
  <2> QED  BY <2>1, <2>2, <2>3, <2>4, <2>5
<1>3. TypeOK'
  BY <1>1, <1>2 DEF IInv, TypeOK
<1>4. Edges'
  <2>1. ASSUME NEW l \in k' + 1 .. Len(fun.out),
               NEW u \in fun.out[l] \cap fun.local, NEW v \in fun.out[l] \cap fun.local,
               u # v
        PROVE  u \in links[v]
    <3>1. l \in k + 1 .. Len(fun.out) \/ fun.out[l] = buf
      <4>1. CASE k' = k
        BY <2>1, <4>1
      <4>2. CASE k >= 1 /\ k' = k - 1 /\ fun.out[k] = buf
        <5>1. k' + 1 = k /\ k \in Int
          BY <1>1, <4>2
        <5>2. l = k \/ l \in k + 1 .. Len(fun.out)
          BY <1>1, <2>1, <5>1
        <5> QED  BY <4>2, <5>2
      <4> QED  BY <1>2, <4>1, <4>2
    <3> QED  BY <2>1, <3>1 DEF IInv, Edges
  <2> QED  BY <1>1, <1>2, <2>1 DEF IInv, Edges
<1>5. Fresh' /\ Proper' /\ Excluded'
  BY <1>1, <1>2 DEF IInv, Fresh, Proper, Excluded
<1>6. Degrees' /\ Turns'
  <2>1. Unturned' = Unturned /\ \A v : Uncoloured(v)' = Uncoloured(v)
    BY <1>1 DEF Unturned, Uncoloured
  <2> QED  BY <1>1, <1>2, <2>1 DEF IInv, Degrees, Turns
<1> QED
  BY <1>3, <1>4, <1>5, <1>6 DEF IInv

\* A new live set: its variables are linked.
LEMMA NewSetInv == IInv /\ NewSet => IInv'
<1> SUFFICES ASSUME IInv, NewSet  PROVE IInv'
  OBVIOUS
<1>1. /\ pc = "build" /\ k >= 1 /\ buf' = fun.out[k] /\ links' = Linked
      /\ degree' = [v \in fun.local |-> Cardinality(links'[v])] /\ k' = k - 1
      /\ UNCHANGED <<fun, exColors, color, turns, pc>>
      /\ fun \in Funs /\ k \in 1 .. Len(fun.out) /\ Len(fun.out) \in Nat
      /\ fun.out[k] \subseteq Var
  BY FunType DEF NewSet, IInv, TypeOK
<1>2. /\ links' \in [fun.local -> SUBSET fun.local]
      /\ \A v \in fun.local : links[v] \subseteq links'[v]
      /\ \A u, v \in fun.local :
            u \in links'[v] <=> (u \in links[v] \/ (u # v /\ {u, v} \subseteq fun.out[k]))
  BY <1>1 DEF Linked, CoVar, IInv, TypeOK
<1>3. \A v \in fun.local : degree'[v] = Cardinality(links'[v])
                           /\ IsFiniteSet(links'[v]) /\ degree'[v] \in Nat
  <2>1. ASSUME NEW v \in fun.local  PROVE IsFiniteSet(links'[v])
    <3>1. links'[v] \in SUBSET fun.local /\ IsFiniteSet(fun.local)
      BY <1>1, <1>2, FunType
    <3> QED  BY <3>1, FS_Subset
  <2> QED  BY <1>1, <2>1, FS_CardinalityType
<1>4. TypeOK'
  <2>1. degree' \in [fun.local -> Nat \cup {-1}]
    BY <1>1, <1>3
  <2> QED  BY <1>1, <1>2, <2>1 DEF IInv, TypeOK
<1>5. \A v \in fun.local : color[v] = -1
  BY <1>1 DEF IInv, Fresh, Building
<1>6. Edges'
  <2>1. \A v \in fun.local : v \notin links'[v]
    BY <1>2 DEF IInv, Edges
  <2>2. \A u, v \in fun.local : u \in links'[v] => v \in links'[u]
    BY <1>2 DEF IInv, Edges
  <2>3. \A u, v \in fun.out[k] \cap fun.local : u # v => u \in links'[v]
    BY <1>2
  <2>4. ASSUME NEW l \in k' + 1 .. Len(fun.out),
               NEW u \in fun.out[l] \cap fun.local, NEW v \in fun.out[l] \cap fun.local,
               u # v
        PROVE  u \in links'[v]
    <3>1. l \in k + 1 .. Len(fun.out) \/ l = k
      BY <1>1
    <3> QED  BY <1>2, <2>3, <2>4, <3>1 DEF IInv, Edges
  <2>5. ASSUME NEW v \in fun.local, NEW u \in links'[v]
        PROVE  \E l \in 1 .. Len(fun.out) : {u, v} \subseteq fun.out[l]
    <3>1. u \in fun.local
      BY <1>2
    <3>2. u \in links[v] \/ {u, v} \subseteq fun.out[k]
      BY <1>2, <2>5, <3>1
    <3> QED  BY <1>1, <3>2 DEF IInv, Edges
  <2> QED  BY <1>1, <2>1, <2>2, <2>3, <2>4, <2>5 DEF Edges, Building
<1>7. Fresh'
  BY <1>1, <1>3 DEF IInv, Fresh, Building
<1>8. Proper' /\ Excluded'
  <2>1. \A v \in fun.local : exColors[v] = IF v \in fun.inMem THEN Color ELSE {}
    BY <1>1 DEF IInv, Fresh, Building
  <2>2. \A v \in fun.local : \A u \in links'[v] : color[u] = -1
    BY <1>2, <1>5
  <2>3. \A v \in fun.local : degree'[v] # -1
    BY <1>3
  <2> QED  BY <1>1, <1>5, <2>1, <2>2, <2>3 DEF Proper, Excluded
<1>9. Degrees'
  <2>1. \A v \in fun.local : Uncoloured(v)' = links'[v]
    BY <1>1, <1>2, <1>5 DEF Uncoloured
  <2> QED  BY <1>1, <1>3, <2>1 DEF Degrees
<1>10. Turns'
  <2>1. \A v \in fun.local : degree[v] # -1
    BY <1>1, Counted DEF IInv, Fresh, Building
  <2>2. Unturned = fun.local /\ Unturned' = fun.local
    BY <1>1, <1>3, <2>1 DEF Unturned
  <2> QED  BY <1>1, <2>2 DEF IInv, Turns
<1> QED
  BY <1>4, <1>6, <1>7, <1>8, <1>9, <1>10 DEF IInv

\* A node gets a colour, which its waiting neighbours exclude.
LEMMA PaintInv ==
    ASSUME IInv, NEW n \in fun.local, NEW c \in Color, Paint(n, c)
    PROVE  IInv'
<1>1. /\ pc = "paint" /\ turns > 0 /\ c \notin exColors[n]
      /\ color' = [color EXCEPT ![n] = c]
      /\ exColors' = [m \in fun.local |->
              IF m \in Waiting(n) THEN exColors[m] \cup {c} ELSE exColors[m]]
      /\ degree' = [m \in fun.local |-> IF m = n THEN -1
                                        ELSE IF m \in Waiting(n) THEN degree[m] - 1
                                        ELSE degree[m]]
      /\ turns' = turns - 1
      /\ UNCHANGED <<fun, k, buf, links, pc>>
  BY DEF Paint
<1>2. degree[n] # -1 /\ color[n] = -1
  BY <1>1, PickedWaits DEF Paint
<1>3. /\ color'[n] = c /\ c # -1 /\ degree'[n] = -1
      /\ \A m \in fun.local \ {n} : color'[m] = color[m]
  BY <1>1, ConstAssumption DEF IInv, TypeOK, Color
<1>4. /\ n \notin links[n] /\ n \notin Waiting(n) /\ links[n] \subseteq fun.local
      /\ \A m \in fun.local : m \in links[n] <=> n \in links[m]
  BY DEF Waiting, IInv, Edges, TypeOK
<1>5. \* A node that waits loses one uncoloured neighbour if it is next to n.
      ASSUME NEW m \in fun.local, degree[m] # -1, m # n
      PROVE  /\ degree'[m] = Cardinality(Uncoloured(m)') /\ degree'[m] \in Nat
             /\ IsFiniteSet(Uncoloured(m))
  <2>1. /\ degree[m] = Cardinality(Uncoloured(m)) /\ IsFiniteSet(Uncoloured(m))
        /\ Cardinality(Uncoloured(m)) \in Nat
    BY <1>5, Counted DEF IInv, Degrees
  <2>2. Uncoloured(m)' = Uncoloured(m) \ {n}
    <3>1. links[m] \subseteq fun.local
      BY DEF IInv, TypeOK
    <3> QED  BY <1>1, <1>3, <3>1 DEF Uncoloured
  <2>3. CASE m \in links[n]
    <3>1. degree'[m] = degree[m] - 1
      BY <1>1, <1>5, <2>3 DEF Waiting
    <3>2. n \in Uncoloured(m)
      BY <1>2, <1>4, <2>3 DEF Uncoloured
    <3>3. Cardinality(Uncoloured(m) \ {n}) = Cardinality(Uncoloured(m)) - 1
      BY <2>1, <3>2, FS_RemoveElement
    <3>4. Cardinality(Uncoloured(m) \ {n}) \in Nat
      BY <2>1, FS_RemoveElement, FS_CardinalityType
    <3> QED  BY <2>1, <2>2, <3>1, <3>3, <3>4
  <2>4. CASE m \notin links[n]
    <3>1. degree'[m] = degree[m]
      BY <1>1, <1>5, <2>4 DEF Waiting
    <3>2. Uncoloured(m) \ {n} = Uncoloured(m)
      BY <1>4, <2>4 DEF Uncoloured
    <3> QED  BY <2>1, <2>2, <3>1, <3>2
  <2> QED  BY <2>3, <2>4
<1>6. \A m \in fun.local : degree[m] = -1 => degree'[m] = -1
  BY <1>1 DEF Waiting
<1>7. /\ \A m \in fun.local : degree'[m] # -1 <=> degree[m] # -1 /\ m # n
      /\ \A m \in fun.local : degree'[m] \in Nat \cup {-1}
  BY <1>3, <1>5, <1>6
<1>8. turns \in Nat /\ turns' \in Nat /\ turns' = Cardinality(Unturned')
  <2>1. Unturned' = Unturned \ {n} /\ n \in Unturned
    BY <1>1, <1>2, <1>7 DEF Unturned
  <2>2. IsFiniteSet(Unturned) /\ turns = Cardinality(Unturned) /\ turns \in Nat
    BY Counted DEF IInv, Turns
  <2>3. Cardinality(Unturned \ {n}) = Cardinality(Unturned) - 1
    BY <2>1, <2>2, FS_RemoveElement
  <2> QED  BY <1>1, <2>1, <2>2, <2>3
<1>9. TypeOK'
  <2>1. degree' \in [fun.local -> Nat \cup {-1}]
    BY <1>1, <1>7
  <2>2. exColors' \in [fun.local -> SUBSET Color]
    BY <1>1 DEF IInv, TypeOK
  <2>3. color' \in [fun.local -> Color \cup {-1}]
    BY <1>1 DEF IInv, TypeOK
  <2> QED  BY <1>1, <1>8, <2>1, <2>2, <2>3 DEF IInv, TypeOK
<1>10. Edges' /\ Fresh'
  BY <1>1 DEF IInv, Edges, Fresh, Building
<1>11. \* The colour of n is no neighbour's.
       \A u \in links[n] : color[u] # c
  BY <1>1, <1>2, <1>3 DEF IInv, Excluded
<1>12. Proper'
  <2> SUFFICES ASSUME NEW v \in fun.local, color'[v] # -1
               PROVE  /\ degree'[v] = -1
                      /\ v \notin fun.inMem
                      /\ \A u \in links[v] : color'[u] # color'[v]
    BY <1>1 DEF Proper
  <2>1. CASE v = n
    <3>1. v \notin fun.inMem
      BY <1>1, <2>1 DEF IInv, Excluded
    <3>2. \A u \in links[n] : color'[u] = color[u]
      BY <1>3, <1>4
    <3> QED  BY <1>3, <1>11, <2>1, <3>1, <3>2
  <2>2. CASE v # n
    <3>1. color'[v] = color[v] /\ color[v] # -1
      BY <1>3, <2>2
    <3>2. /\ degree[v] = -1 /\ v \notin fun.inMem
          /\ \A u \in links[v] : color[u] # color[v]
      BY <3>1 DEF IInv, Proper
    <3>3. ASSUME NEW u \in links[v]  PROVE color'[u] # color'[v]
      <4>1. u \in fun.local
        BY DEF IInv, TypeOK
      <4>2. CASE u = n
        BY <1>3, <1>4, <1>11, <3>1, <4>2
      <4>3. CASE u # n
        BY <1>3, <3>1, <3>2, <4>1, <4>3
      <4> QED  BY <4>2, <4>3
    <3> QED  BY <1>6, <3>2, <3>3
  <2> QED  BY <2>1, <2>2
<1>13. Excluded'
  <2> SUFFICES ASSUME NEW v \in fun.local
               PROVE
      /\ v \in fun.inMem => exColors'[v] = Color
      /\ v \notin fun.inMem => \A e \in exColors'[v] : \E u \in links[v] : color'[u] = e
      /\ degree'[v] # -1 => \A u \in links[v] : color'[u] # -1 => color'[u] \in exColors'[v]
      /\ degree'[v] = -1 /\ color'[v] = -1 => exColors'[v] = Color
    BY ZenonT(60), <1>1 DEF Excluded
  <2>1. v \in fun.inMem => exColors'[v] = Color
    BY <1>1 DEF IInv, Excluded
  <2>2. ASSUME v \notin fun.inMem, NEW e \in exColors'[v]
        PROVE  \E u \in links[v] : color'[u] = e
    <3>1. CASE e \in exColors[v]
      <4>1. PICK u \in links[v] : color[u] = e
        BY <2>2, <3>1 DEF IInv, Excluded
      <4>2. u \in fun.local /\ e # -1
        BY <3>1, ConstAssumption DEF IInv, TypeOK, Color
      <4>3. color'[u] = e
        BY <1>2, <1>3, <4>1, <4>2
      <4> QED  BY <4>3
    <3>2. CASE e \notin exColors[v]
      <4>1. v \in Waiting(n) /\ e = c
        BY <1>1, <2>2, <3>2
      <4>2. n \in links[v]
        BY <1>4, <4>1 DEF Waiting
      <4> QED  BY <1>3, <4>1, <4>2
    <3> QED  BY <3>1, <3>2
  <2>3. ASSUME degree'[v] # -1, NEW u \in links[v], color'[u] # -1
        PROVE  color'[u] \in exColors'[v]
    <3>1. degree[v] # -1 /\ v # n /\ u \in fun.local
      BY <1>7, <2>3 DEF IInv, TypeOK
    <3>2. CASE u = n
      <4>1. v \in Waiting(n)
        BY <1>4, <3>1, <3>2 DEF Waiting
      <4> QED  BY <1>1, <1>3, <3>2, <4>1
    <3>3. CASE u # n
      <4>1. color[u] \in exColors[v] /\ color'[u] = color[u]
        BY <1>3, <2>3, <3>1, <3>3 DEF IInv, Excluded
      <4> QED  BY <1>1, <4>1
    <3> QED  BY <3>2, <3>3
  <2>4. ASSUME degree'[v] = -1, color'[v] = -1
        PROVE  exColors'[v] = Color
    <3>1. v # n /\ degree[v] = -1 /\ color[v] = -1
      BY <1>3, <1>7, <2>4
    <3>2. v \notin Waiting(n)
      BY <3>1 DEF Waiting
    <3> QED  BY <1>1, <3>1, <3>2 DEF IInv, Excluded
  <2> QED  BY <2>1, <2>2, <2>3, <2>4
<1>14. Degrees'
  BY <1>1, <1>5, <1>7 DEF Degrees
<1>15. Turns'
  BY <1>1, <1>8 DEF Turns
<1> QED
  BY <1>9, <1>10, <1>12, <1>13, <1>14, <1>15 DEF IInv

\* A node finds every colour excluded; its neighbours are not told.
LEMMA SpillInv ==
    ASSUME IInv, NEW n \in fun.local, Spill(n)
    PROVE  IInv'
<1>1. /\ pc = "paint" /\ turns > 0 /\ Color \subseteq exColors[n]
      /\ degree' = [degree EXCEPT ![n] = -1]
      /\ turns' = turns - 1
      /\ UNCHANGED <<fun, k, buf, links, exColors, color, pc>>
  BY DEF Spill
<1>2. degree[n] # -1 /\ color[n] = -1
  BY <1>1, PickedWaits DEF Spill
<1>3. degree'[n] = -1 /\ \A m \in fun.local \ {n} : degree'[m] = degree[m]
  BY <1>1 DEF IInv, TypeOK
<1>4. turns \in Nat /\ turns' \in Nat /\ turns' = Cardinality(Unturned')
  <2>1. Unturned' = Unturned \ {n} /\ n \in Unturned
    BY <1>1, <1>2, <1>3 DEF Unturned
  <2>2. IsFiniteSet(Unturned) /\ turns = Cardinality(Unturned) /\ turns \in Nat
    BY Counted DEF IInv, Turns
  <2>3. Cardinality(Unturned \ {n}) = Cardinality(Unturned) - 1
    BY <2>1, <2>2, FS_RemoveElement
  <2> QED  BY <1>1, <2>1, <2>2, <2>3
<1>5. TypeOK'
  <2>1. degree' \in [fun.local -> Nat \cup {-1}]
    BY <1>1 DEF IInv, TypeOK
  <2> QED  BY <1>1, <1>4, <2>1 DEF IInv, TypeOK
<1>6. Edges' /\ Fresh'
  BY <1>1 DEF IInv, Edges, Fresh, Building
<1>7. Proper'
  BY <1>1, <1>2, <1>3 DEF IInv, Proper
<1>8. Excluded'
  <2>1. exColors[n] = Color
    BY <1>1 DEF IInv, TypeOK
  <2> QED  BY <1>1, <1>3, <2>1 DEF IInv, Excluded
<1>9. Degrees' /\ Turns'
  <2>1. \A v : Uncoloured(v)' = Uncoloured(v)
    BY <1>1 DEF Uncoloured
  <2> QED  BY <1>1, <1>3, <1>4, <2>1 DEF IInv, Degrees, Turns
<1> QED
  BY <1>5, <1>6, <1>7, <1>8, <1>9 DEF IInv

\* Every step keeps the invariant.
LEMMA NextInv == IInv /\ [Next]_vars => IInv'
BY KeepInv, NewSetInv, PaintInv, SpillInv DEF Next, Endless, Done

-----------------------------------------------------------------------------
(* Theorems *)

\* The inductive invariant holds in every reachable state.
THEOREM Invariance == Spec => []IInv
BY InitInv, NextInv, PTL DEF Spec

\* Degrees never drop below 0 but to the -1 of a node that had its turn, and
\* only registers that exist are given or excluded.
THEOREM TypeCorrect == Spec => []TypeOK
<1>1. IInv => TypeOK
  BY DEF IInv
<1> QED
  BY <1>1, Invariance, PTL

\* For every function, number of registers and choice of pickNode: no two
\* variables live after the same instruction share a register.
THEOREM RegistersAlwaysFit == Spec => []RegistersFit
<1>1. IInv => RegistersFit
  <2> SUFFICES ASSUME IInv  PROVE RegistersFit
    OBVIOUS
  <2>1. ASSUME NEW l \in 1 .. Len(fun.out), NEW u \in fun.out[l] \cap fun.local,
               NEW v \in fun.out[l] \cap fun.local, u # v, color[u] # -1
        PROVE  color[u] # color[v]
    <3>1. k = 0
      BY <2>1 DEF IInv, Edges, Fresh
    <3>2. v \in links[u]
      BY <2>1, <3>1 DEF IInv, Edges
    <3> QED  BY <2>1, <3>2 DEF IInv, Proper
  <2>2. \A v \in fun.local \cap fun.inMem : color[v] = -1
    BY DEF IInv, Proper
  <2> QED  BY <2>1, <2>2 DEF RegistersFit
<1> QED
  BY <1>1, Invariance, PTL

\* When regAlloc ends every node had its turn, although pickNode searches the
\* whole heap each time.
THEOREM TurnsSuffice == Spec => []EveryNodeHadATurn
<1>1. IInv => EveryNodeHadATurn
  <2> SUFFICES ASSUME IInv, pc = "done", NEW v \in fun.local  PROVE degree[v] = -1
    BY DEF EveryNodeHadATurn
  <2>1. IsFiniteSet(Unturned) /\ Cardinality(Unturned) = 0
    BY Counted DEF IInv, Turns
  <2>2. Unturned = {}
    BY <2>1, FS_EmptySet
  <2> QED  BY <2>2 DEF Unturned
<1> QED
  BY <1>1, Invariance, PTL

\* Node::degree of a waiting node counts its neighbours without a register.
THEOREM DegreesCount == Spec => []DegreeCountsUncoloured
<1>1. IInv => DegreeCountsUncoloured
  BY DEF IInv, Degrees, Uncoloured, DegreeCountsUncoloured
<1> QED
  BY <1>1, Invariance, PTL

\* A local is left in memory only if variables live with it hold every register.
THEOREM SpillsAreForced == Spec => []SpillsForced
<1>1. IInv => SpillsForced
  <2> SUFFICES ASSUME IInv, pc = "done", NEW v \in fun.local \ fun.inMem,
                      color[v] = -1, NEW c \in Color
               PROVE  \E l \in 1 .. Len(fun.out) : \E u \in fun.local :
                          {u, v} \subseteq fun.out[l] /\ color[u] = c
    BY DEF SpillsForced
  <2>1. degree[v] = -1
    <3>1. IsFiniteSet(Unturned) /\ Cardinality(Unturned) = 0
      BY Counted DEF IInv, Turns
    <3>2. Unturned = {}
      BY <3>1, FS_EmptySet
    <3> QED  BY <3>2 DEF Unturned
  <2>2. exColors[v] = Color
    BY <2>1 DEF IInv, Excluded
  <2>3. PICK u \in links[v] : color[u] = c
    BY <2>2 DEF IInv, Excluded
  <2>4. u \in fun.local /\ \E l \in 1 .. Len(fun.out) : {u, v} \subseteq fun.out[l]
    BY DEF IInv, TypeOK, Edges
  <2> QED  BY <2>3, <2>4
<1> QED
  BY <1>1, Invariance, PTL

\* A node that had its turn, with a register or without, is left alone.
THEOREM TurnsAreFinal == Spec => OneTurnEach
<1>1. IInv /\ [Next]_vars =>
        [\A v \in fun.local :
            degree[v] = -1 => degree'[v] = -1 /\ color'[v] = color[v]]_vars
  <2> SUFFICES ASSUME IInv, Next, NEW v \in fun.local, degree[v] = -1
               PROVE  degree'[v] = -1 /\ color'[v] = color[v]
    OBVIOUS
  <2>1. CASE OldSet \/ NoVariable \/ Built \/ Painted \/ Endless \/ Done
    BY <2>1 DEF OldSet, NoVariable, Built, Painted, Endless, Done, graph, vars
  <2>2. CASE NewSet
    <3>1. degree[v] = Cardinality(links[v]) /\ Cardinality(links[v]) \in Nat
      BY <2>2, Counted DEF NewSet, IInv, Fresh, Building
    <3> QED  BY <3>1
  <2>3. ASSUME NEW n \in fun.local, NEW c \in Color, Paint(n, c)
        PROVE  degree'[v] = -1 /\ color'[v] = color[v]
    <3>1. degree[n] # -1
      BY <2>3, PickedWaits DEF Paint
    <3> QED  BY <2>3, <3>1 DEF Paint, Waiting, IInv, TypeOK
  <2>4. ASSUME NEW n \in fun.local, Spill(n)
        PROVE  degree'[v] = -1 /\ color'[v] = color[v]
    BY <2>4 DEF Spill, IInv, TypeOK
  <2> QED  BY <2>1, <2>2, <2>3, <2>4 DEF Next
<1> QED
  BY <1>1, Invariance, PTL DEF Spec, OneTurnEach
=============================================================================
