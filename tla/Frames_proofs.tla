--------------------------- MODULE Frames_proofs ---------------------------
(***************************************************************************)
(* Proofs about Frames, for programs of every length: names resolve as C's *)
(* block scoping says, and the frames, laid out while parsing and again by *)
(* stackAlloc, are deep enough and keep apart what is in scope together.   *)
(*                                                                         *)
(* The parts of the invariant that speak of scopes are operators of the    *)
(* depths d of the tokens 0 .. n, the scope path p, the number id of       *)
(* scopes made, and the variables vs, so that a step that does two things  *)
(* is two steps of the lemmas.                                             *)
(***************************************************************************)
EXTENDS Frames, WellFoundedInduction, SequenceTheorems, TLAPS

-----------------------------------------------------------------------------
(* Numbers: the least number principle and induction, with sets in place of *)
(* the library's predicates.                                                *)

Less == {p \in Nat \X Nat : p[1] < p[2]}

LEMMA LessWellFounded == IsWellFoundedOn(Less, Nat)
BY NatLessThanWellFounded DEF OpToRel, Less

\* A set of natural numbers that is not empty has a least element.
LEMMA Least ==
    ASSUME NEW S \in SUBSET Nat, S # {}
    PROVE  \E x \in S : \A y \in S : x <= y
<1>1. PICK x \in S : \A y \in S : ~ (<< y, x >> \in Less)
  BY LessWellFounded, WFMin
<1>2. ASSUME NEW y \in S  PROVE x <= y
  <2>1. x \in Nat /\ y \in Nat /\ ~ (<< y, x >> \in Less)
    BY <1>1
  <2>2. ~ (y < x)
    BY <2>1 DEF Less
  <2> QED  BY <2>1, <2>2
<1> QED
  BY <1>1, <1>2

\* One that is bounded has a greatest.
LEMMA Greatest ==
    ASSUME NEW n \in Nat, NEW S \in SUBSET (0 .. n), S # {}
    PROVE  \E x \in S : \A y \in S : y <= x
<1> DEFINE T == {k \in Nat : n - k \in S}
<1>1. T # {}
  <2>1. PICK x \in S : TRUE
    OBVIOUS
  <2>2. n - x \in Nat /\ n - (n - x) = x
    OBVIOUS
  <2> QED  BY <2>1, <2>2
<1>2. T \in SUBSET Nat
  OBVIOUS
<1> HIDE DEF T
<1>3. PICK k \in T : \A m \in T : k <= m
  BY <1>1, <1>2, Least
<1>4. n - k \in S /\ k \in Nat
  BY <1>3 DEF T
<1>5. ASSUME NEW y \in S  PROVE y <= n - k
  <2>1. n - y \in T
    <3>1. n - y \in Nat /\ n - (n - y) = y
      OBVIOUS
    <3> QED  BY <3>1 DEF T
  <2>2. k <= n - y
    BY <1>3, <2>1
  <2> QED  BY <1>4, <2>2
<1> QED
  BY <1>4, <1>5

\* Induction.
LEMMA Induction ==
    ASSUME NEW S \in SUBSET Nat, 0 \in S, \A n \in S : n + 1 \in S
    PROVE  S = Nat
<1>1. SUFFICES ASSUME Nat \ S # {}  PROVE FALSE
  OBVIOUS
<1>2. PICK x \in Nat \ S : \A y \in Nat \ S : x <= y
  BY <1>1, Least
<1>3. x # 0 /\ x - 1 \in Nat /\ ~ (x <= x - 1) /\ x - 1 + 1 = x
  BY <1>2
<1>4. x - 1 \in S
  BY <1>2, <1>3
<1> QED
  BY <1>2, <1>3, <1>4

-----------------------------------------------------------------------------
(* Scopes *)

Variable == [name : Names \cup {None}, path : Seq(Nat), size : Nat \ {0}, tok : Nat]

\* Variable v is in scope at the token after the n-th.
Open(d, n, vs, v) == \A e \in vs[v].tok .. n : d[e] >= d[vs[v].tok]

\* Variable u is in scope where v is declared.
Under(d, vs, u, v) ==
    /\ vs[u].tok < vs[v].tok
    /\ \A e \in vs[u].tok .. vs[v].tok - 1 : d[e] >= d[vs[u].tok]

\* One path is the other up to its length.
Prefix(p, q) == Len(p) <= Len(q) /\ \A k \in 1 .. Len(p) : p[k] = q[k]

\* Two paths that share a scope came the same way to it.
Fork(p, q) ==
    \A k \in DOMAIN p, m \in DOMAIN q :
        p[k] = q[m] => k = m /\ \A j \in 1 .. k : p[j] = q[j]

\* The scopes of q below p are younger than variable u and those before it.
Younger(vs, u, q) ==
    \A m \in Len(vs[u].path) + 1 .. Len(q) :
        \A x \in 1 .. u : \A k \in DOMAIN vs[x].path : vs[x].path[k] < q[m]

\* The path is where the tokens have led; ids grow along it.
PathOK(d, n, p, id) ==
    /\ n \in Nat /\ d \in [0 .. n -> Nat] /\ id \in Nat
    /\ p \in Seq(Nat) /\ Len(p) = d[n] + 1 /\ p[1] = 0
    /\ \A k \in DOMAIN p : p[k] <= id
    /\ \A k, m \in DOMAIN p : k < m => p[k] < p[m]

\* The variables lie in the order of their tokens, at the depths of these.
VarsOK(d, n, id, vs) ==
    /\ vs \in Seq(Variable)
    /\ \A v \in DOMAIN vs :
          /\ vs[v].tok \in 1 .. n /\ Len(vs[v].path) = d[vs[v].tok] + 1
          /\ vs[v].path[1] = 0 /\ \A k \in DOMAIN vs[v].path : vs[v].path[k] <= id
    /\ \A u, v \in DOMAIN vs : u < v => vs[u].tok < vs[v].tok

\* A variable's path leads to the current scope just while it is in scope.
OpenOK(d, n, p, vs) ==
    \A v \in DOMAIN vs :
        /\ Open(d, n, vs, v) => Prefix(vs[v].path, p) /\ Younger(vs, v, p)
        /\ ~ Open(d, n, vs, v) => \A k \in DOMAIN p : vs[v].path[Len(vs[v].path)] # p[k]
        /\ Fork(vs[v].path, p)

\* The same for the scopes of two variables.
UnderOK(d, vs) ==
    \A u, v \in DOMAIN vs :
        /\ Under(d, vs, u, v) => Prefix(vs[u].path, vs[v].path) /\ Younger(vs, u, vs[v].path)
        /\ Fork(vs[u].path, vs[v].path)

Scoped(d, n, p, id, vs) ==
    PathOK(d, n, p, id) /\ VarsOK(d, n, id, vs) /\ OpenOK(d, n, p, vs) /\ UnderOK(d, vs)

\* The named variables are what the first n tokens declare, and one that hides
\* another lies deeper.
Declared(s, d, n, vs) ==
    /\ \A v \in DOMAIN vs : vs[v].name # None =>
          s[vs[v].tok].kind \in {"declare", "fun"} /\ s[vs[v].tok].name = vs[v].name
    /\ \A t \in 1 .. n : s[t].kind \in {"declare", "fun"} /\ s[t].name # None =>
          \E v \in DOMAIN vs : vs[v].tok = t /\ vs[v].name = s[t].name
    /\ \A u, v \in DOMAIN vs :
          vs[u].name = vs[v].name /\ vs[u].name # None /\ Under(d, vs, u, v) =>
             Len(vs[u].path) < Len(vs[v].path)

-----------------------------------------------------------------------------
(* The frame that is laid out while parsing *)

\* The bytes used up to each open scope: esp is what all of them use.
Levels(b, shares, esp) ==
    /\ b \in [0 .. Len(shares) -> Nat] /\ b[0] = stackBase
    /\ \A k \in 1 .. Len(shares) : b[k] = b[k - 1] + shares[k]
    /\ \A j, k \in 0 .. Len(shares) : j <= k => b[j] <= b[k]
    /\ esp = b[Len(shares)]

\* A local in scope lies in what its scope and those around it use.
Held(d, n, vs, off, b) ==
    \A v \in DOMAIN vs :
        off[v] < 0 /\ Open(d, n, vs, v) => -off[v] <= b[Len(vs[v].path) - 1]

\* Globals have no place, the parameter has one above the frame, and the locals
\* lie below the saved registers, each below those in scope with it.
PlacesOK(d, vs, off) ==
    /\ \A v \in DOMAIN vs :
          /\ off[v] \in Int
          /\ \/ off[v] = 0
             \/ off[v] = 4 /\ vs[v].size = 4
             \/ off[v] + vs[v].size <= -stackBase
          /\ off[v] # 0 => Len(vs[v].path) >= 2
    /\ \A u, v \in DOMAIN vs : Under(d, vs, u, v) =>
          /\ off[v] = 4 => off[u] = 0
          /\ off[u] < 0 /\ off[v] < 0 => off[v] + vs[v].size <= off[u]

LaidOut(d, n, p, vs, off, shares, esp) ==
    /\ off \in Seq(Int) /\ Len(off) = Len(vs)
    /\ shares \in Seq(Nat) /\ Len(shares) = Len(p) - 1
    /\ PlacesOK(d, vs, off)
    /\ \E b : Levels(b, shares, esp) /\ Held(d, n, vs, off, b)

-----------------------------------------------------------------------------
(* The inductive invariant *)

Instruction == [op  : {"entry", "exit", "dec", "op", "as", "use"},
                res : Nat \cup {None}, arg : Nat \cup {None}]

IsDec(k) == code[k].op = "dec"

\* Instruction k is of the function whose head was the last up to m.
SameFun(k, m) == \A h \in k .. m : code[h].op # "entry"

Tokens == [kind : {"declare", "fun", "condition", "assign", "copy", "use", "enter", "leave"},
           name : Names \cup {None}, size : Sizes \cup {0} \cup Names]

Typed ==
    /\ src \in Seq(Tokens)
    /\ pc \in {"parse", "rejected", "alloc", "done"}
    /\ curFun \in BOOLEAN /\ maxDepth \in Nat /\ deepest \in Nat
    /\ (curFun <=> Len(scopePath) > 1)
    /\ pc \in {"alloc", "done"} => ~curFun

\* What the instructions c speak of: a declaration's variable is in the frame, the
\* declarations are in the order of the variables, and what one function declares
\* is out of scope in the next.
CodeOK(d, n, vs, off, c) ==
    /\ c \in Seq(Instruction) /\ (c # << >> => c[1].op = "entry")
    /\ \A k \in DOMAIN c :
          /\ {c[k].res, c[k].arg} \subseteq DOMAIN vs \cup {None}
          /\ c[k].op \in {"dec", "op", "as"} => c[k].res \in DOMAIN vs
          /\ c[k].op = "dec" => off[c[k].res] < 0
    /\ \A k, m \in DOMAIN c : k < m /\ c[k].op = "dec" =>
          /\ c[m].op = "dec" => c[k].res < c[m].res
          /\ c[m].op = "entry" => ~ Open(d, n, vs, c[k].res)
    /\ \A k, h, m \in DOMAIN c :
          k < h /\ h < m /\ c[k].op = "dec" /\ c[h].op = "entry" /\ c[m].op = "dec" =>
             ~ Under(d, vs, c[k].res, c[m].res)

\* The last function's frame never held anything deeper than top.
DeepOK(off, c, top) ==
    \A k \in DOMAIN c :
        c[k].op = "dec" /\ (\A h \in k .. Len(c) : c[h].op # "entry") => -off[c[k].res] <= top

\* Two variables with no byte in common.
Clear(vs, off, v, w) ==
    \/ 0 \in {off[v], off[w]}
    \/ off[v] + vs[v].size <= off[w]
    \/ off[w] + vs[w].size <= off[v]

\* What was written after a variable that is in scope, or that was read later, is
\* clear of it.
KeptOK(d, n, vs, off, c) ==
    \A j, k \in DOMAIN c, v, w \in DOMAIN vs :
        j < k /\ Writes(c[j], v) /\ Writes(c[k], w) /\ v # w =>
            /\ Open(d, n, vs, v) => Clear(vs, off, v, w)
            /\ \A u \in DOMAIN c : k < u /\ c[u].arg = v => Clear(vs, off, v, w)

\* All of it but what the tokens declare.
Framed(d, n, p, id, vs, off, shares, esp, c, top) ==
    /\ Scoped(d, n, p, id, vs) /\ LaidOut(d, n, p, vs, off, shares, esp)
    /\ CodeOK(d, n, vs, off, c) /\ KeptOK(d, n, vs, off, c) /\ DeepOK(off, c, top)

\* The depth that leaveScope makes sure of.
Top == IF curEsp > maxDepth THEN curEsp ELSE maxDepth

ParseInv ==
    /\ Typed /\ maxDepth >= stackBase /\ (curFun => code # << >>)
    /\ Framed(Depth, Len(src), scopePath, scopeId, vars, offset, scopeEsp, curEsp, code, Top)
    /\ pc # "rejected" => Declared(src, Depth, Len(src), vars)

-----------------------------------------------------------------------------
(* The frames of the optimised code *)

\* A scope that has its place in the tree has it below all the scopes around it.
TreeOK ==
    /\ \A id \in DOMAIN tree : tree[id] \in Nat
    /\ 0 \in DOMAIN tree
    /\ \A v \in DOMAIN vars : \A k \in DOMAIN vars[v].path : \A j \in 1 .. k :
          vars[v].path[k] \in DOMAIN tree => vars[v].path[j] \in DOMAIN tree
    /\ \A id \in DOMAIN tree : id # 0 =>
          \E k \in 1 .. cursor - 1 : IsDec(k) /\
              \E j \in DOMAIN vars[code[k].res].path : vars[code[k].res].path[j] = id

\* Variable v has its place in the frame.
Placed(v) == addr[v] \in Int /\ addr[v] < 0

\* The scopes below a variable's that are in the tree begin below the variable,
\* for the declarations still to come.
Below(u, v) ==
    LET p == vars[u].path
        q == vars[v].path
    IN  /\ p[Len(p)] \in DOMAIN tree
        /\ \A m \in Len(p) .. Len(q) : q[m] \in DOMAIN tree => -addr[u] <= tree[q[m]]

\* What has an address at all.
AddrTyped ==
    /\ addr \in Seq(Int \cup {None}) /\ Len(addr) = Len(vars)
    /\ cursor \in 1 .. Len(code) + 1
    /\ pc \in {"parse", "rejected"} => cursor = 1
    /\ \A v \in DOMAIN vars :
          \/ addr[v] = None
          \/ addr[v] = 4 /\ offset[v] = 4
          \/ /\ addr[v] \in Int /\ addr[v] + vars[v].size <= 0
             /\ \E k \in 1 .. cursor - 1 : IsDec(k) /\ code[k].res = v

\* A variable lies below those in scope with it.
AddrApart ==
    \A u, v \in DOMAIN vars :
        Under(Depth, vars, u, v) /\ Placed(u) /\ Placed(v) => addr[v] + vars[v].size <= addr[u]

\* The frame of the function at the cursor is deep enough so far.
AddrDeep ==
    \A k \in 1 .. cursor - 1 :
        IsDec(k) /\ SameFun(k, cursor - 1) /\ Placed(code[k].res) => -addr[code[k].res] <= deepest

\* And will be where what is placed leaves room for.
AddrBelow ==
    \A k \in 1 .. cursor - 1, m \in cursor .. Len(code) :
        IsDec(k) /\ IsDec(m) /\ Placed(code[k].res) /\ Under(Depth, vars, code[k].res, code[m].res) =>
           Below(code[k].res, code[m].res)

AddrOK == AddrTyped /\ AddrApart /\ AddrDeep /\ AddrBelow

IInv == ParseInv /\ TreeOK /\ AddrOK

-----------------------------------------------------------------------------
(* Sequences *)

LEMMA Appended ==
    ASSUME NEW T, NEW s \in Seq(T), NEW x \in T
    PROVE  /\ Append(s, x) \in Seq(T) /\ Len(Append(s, x)) = Len(s) + 1 /\ Len(s) \in Nat
           /\ DOMAIN Append(s, x) = 1 .. Len(s) + 1 /\ DOMAIN s = 1 .. Len(s)
           /\ Append(s, x)[Len(s) + 1] = x
           /\ \A k \in 1 .. Len(s) : Append(s, x)[k] = s[k] /\ s[k] \in T
OBVIOUS

LEMMA Fronted ==
    ASSUME NEW T, NEW s \in Seq(T), Len(s) > 0
    PROVE  /\ Front(s) \in Seq(T) /\ Len(Front(s)) = Len(s) - 1 /\ Len(s) \in Nat
           /\ DOMAIN Front(s) = 1 .. Len(s) - 1 /\ DOMAIN s = 1 .. Len(s)
           /\ \A k \in 1 .. Len(s) - 1 : Front(s)[k] = s[k]
           /\ \A k \in 1 .. Len(s) : s[k] \in T
           /\ Last(s) = s[Len(s)] /\ Last(s) \in T
<1>1. Len(s) \in Nat /\ DOMAIN s = 1 .. Len(s) /\ \A k \in 1 .. Len(s) : s[k] \in T
  OBVIOUS
<1>2. 1 \in 1 .. Len(s) + 1 /\ Len(s) - 1 \in 0 .. Len(s) /\ Len(s) - 1 \in Nat
  BY <1>1
<1>3. \A k \in 1 .. Len(s) - 1 : 1 + k - 1 = k
  BY <1>1
<1>4. /\ Front(s) \in Seq(T) /\ Len(Front(s)) = Len(s) - 1
      /\ \A k \in 1 .. Len(s) - 1 : Front(s)[k] = s[k]
  BY <1>1, <1>2 DEF Front
<1>5. DOMAIN Front(s) = 1 .. Len(s) - 1
  BY <1>4
<1>6. Last(s) = s[Len(s)] /\ Last(s) \in T
  BY <1>1 DEF Last
<1> QED
  BY <1>1, <1>4, <1>5, <1>6

-----------------------------------------------------------------------------
(* The depth of the tokens *)

\* What a token adds to the depth.
Steps(token) ==
    CASE token.kind \in {"fun", "enter"} -> 1
      [] token.kind = "leave" -> -1
      [] OTHER -> 0

\* Depth, of any tokens.
DepthOf(s) ==
    CHOOSE f : f = [k \in 0 .. Len(s) |-> IF k = 0 THEN 0 ELSE f[k - 1] + Steps(s[k])]

\* A sum over the numbers up to n is a function that exists.
LEMMA Summation ==
    ASSUME NEW n \in Nat, NEW f
    PROVE  \E g : g = [m \in 0 .. n |-> IF m = 0 THEN 0 ELSE g[m - 1] + f[m]]
<1> DEFINE S == {i \in Nat : \E g : g = [m \in 0 .. i |-> IF m = 0 THEN 0 ELSE g[m - 1] + f[m]]}
<1>1. 0 \in S
  <2> DEFINE g == [m \in 0 .. 0 |-> 0]
  <2>1. g = [m \in 0 .. 0 |-> IF m = 0 THEN 0 ELSE g[m - 1] + f[m]]
    OBVIOUS
  <2> QED  BY <2>1
<1>2. ASSUME NEW i \in S  PROVE i + 1 \in S
  <2>1. PICK g : g = [m \in 0 .. i |-> IF m = 0 THEN 0 ELSE g[m - 1] + f[m]]
    OBVIOUS
  <2> DEFINE h == [m \in 0 .. i + 1 |-> IF m = i + 1 THEN g[i] + f[i + 1] ELSE g[m]]
  <2>2. ASSUME NEW m \in 0 .. i + 1
        PROVE  h[m] = IF m = 0 THEN 0 ELSE h[m - 1] + f[m]
    <3>1. CASE m = i + 1
      BY <3>1
    <3>2. CASE m # i + 1
      <4>1. m \in 0 .. i /\ (m # 0 => m - 1 \in 0 .. i)
        BY <3>2
      <4> QED  BY <2>1, <4>1
    <3> QED  BY <3>1, <3>2
  <2>3. h = [m \in 0 .. i + 1 |-> IF m = 0 THEN 0 ELSE h[m - 1] + f[m]]
    BY <2>2
  <2> HIDE DEF h
  <2> QED  BY <2>3
<1>3. S = Nat
  <2>1. S \in SUBSET Nat
    OBVIOUS
  <2> HIDE DEF S
  <2> QED  BY <1>1, <1>2, <2>1, Induction
<1> QED
  BY <1>3

LEMMA DepthOfDef ==
    ASSUME NEW T, NEW s \in Seq(T)
    PROVE  DepthOf(s) = [k \in 0 .. Len(s) |-> IF k = 0 THEN 0 ELSE DepthOf(s)[k - 1] + Steps(s[k])]
<1> DEFINE f == [k \in 1 .. Len(s) |-> Steps(s[k])]
<1>1. PICK g : g = [m \in 0 .. Len(s) |-> IF m = 0 THEN 0 ELSE g[m - 1] + f[m]]
  <2>1. Len(s) \in Nat
    OBVIOUS
  <2> HIDE DEF f
  <2> QED  BY <2>1, Summation
<1>2. \A m \in 0 .. Len(s) : m # 0 => f[m] = Steps(s[m])
  OBVIOUS
<1>3. g = [k \in 0 .. Len(s) |-> IF k = 0 THEN 0 ELSE g[k - 1] + Steps(s[k])]
  <2> HIDE DEF f
  <2> QED  BY <1>1, <1>2
<1> QED
  BY <1>3 DEF DepthOf

\* Tokens of the same beginning have the same depths there.
LEMMA DepthOfBeginning ==
    ASSUME NEW T, NEW s \in Seq(T), NEW token \in T
    PROVE  LET d == DepthOf(s)
               e == DepthOf(Append(s, token))
           IN  /\ \A k \in 0 .. Len(s) : e[k] = d[k]
               /\ e[Len(s) + 1] = d[Len(s)] + Steps(token)
               /\ DOMAIN e = 0 .. Len(s) + 1
<1> DEFINE d == DepthOf(s)
           r == Append(s, token)
           e == DepthOf(r)
           S == {i \in Nat : i <= Len(s) => e[i] = d[i]}
<1>1. r \in Seq(T) /\ Len(r) = Len(s) + 1 /\ r[Len(s) + 1] = token /\ \A k \in 1 .. Len(s) : r[k] = s[k]
  OBVIOUS
<1>2. d = [k \in 0 .. Len(s) |-> IF k = 0 THEN 0 ELSE d[k - 1] + Steps(s[k])]
  BY DepthOfDef
<1>3. e = [k \in 0 .. Len(s) + 1 |-> IF k = 0 THEN 0 ELSE e[k - 1] + Steps(r[k])]
  BY <1>1, DepthOfDef
<1> HIDE DEF d, e, r
<1>4. S = Nat
  <2>1. 0 \in S
    BY <1>2, <1>3
  <2>2. ASSUME NEW i \in S  PROVE i + 1 \in S
    <3>1. SUFFICES ASSUME i + 1 <= Len(s)  PROVE e[i + 1] = d[i + 1]
      OBVIOUS
    <3>2. e[i] = d[i]
      BY <3>1
    <3>3. i + 1 \in 1 .. Len(s) /\ i + 1 # 0 /\ (i + 1) - 1 = i /\ i + 1 \in 0 .. Len(s) /\ i + 1 \in 0 .. Len(s) + 1
      BY <3>1
    <3>4. e[i + 1] = e[i] + Steps(r[i + 1]) /\ d[i + 1] = d[i] + Steps(s[i + 1])
      BY <1>2, <1>3, <3>3
    <3> QED  BY <1>1, <3>2, <3>3, <3>4
  <2> HIDE DEF S
  <2>3. S \in SUBSET Nat
    BY DEF S
  <2> QED  BY <2>1, <2>2, <2>3, Induction
<1>5. \A k \in 0 .. Len(s) : e[k] = d[k]
  BY <1>4
<1>6. e[Len(s) + 1] = e[Len(s)] + Steps(token)
  BY <1>1, <1>3
<1>7. DOMAIN e = 0 .. Len(s) + 1
  BY <1>3
<1> QED
  BY <1>5, <1>6, <1>7 DEF d, e, r

LEMMA DepthIs == Depth = DepthOf(src)
BY DEF Depth, DepthOf, Steps

LEMMA DepthIsNext == Depth' = DepthOf(src')
BY DEF Depth, DepthOf, Steps

-----------------------------------------------------------------------------
(* Scopes: a token that leaves the path, enters, leaves, or declares *)

\* e are the depths d with that of one more token.
Longer(d, n, e) == e \in [0 .. n + 1 -> Nat] /\ \A k \in 0 .. n : e[k] = d[k]

\* What is known of a variable.
LEMMA VariableFacts ==
    ASSUME NEW n \in Nat, NEW d \in [0 .. n -> Nat], NEW id, NEW vs, VarsOK(d, n, id, vs),
           NEW v \in DOMAIN vs
    PROVE  /\ vs \in Seq(Variable) /\ vs[v] \in Variable /\ v \in Nat /\ v \in 1 .. Len(vs)
           /\ vs[v].tok \in 1 .. n /\ vs[v].path \in Seq(Nat) /\ Len(vs[v].path) \in Nat
           /\ Len(vs[v].path) = d[vs[v].tok] + 1 /\ Len(vs[v].path) \in DOMAIN vs[v].path
           /\ vs[v].size \in Nat \ {0} /\ d[vs[v].tok] \in Nat /\ vs[v].path[1] = 0
           /\ DOMAIN vs[v].path = 1 .. Len(vs[v].path)
<1>1. vs \in Seq(Variable) /\ v \in DOMAIN vs
  BY DEF VarsOK
<1>2. vs[v] \in Variable /\ v \in Nat /\ v \in 1 .. Len(vs)
  BY <1>1
<1>3. vs[v].tok \in 1 .. n /\ Len(vs[v].path) = d[vs[v].tok] + 1 /\ vs[v].path[1] = 0
  BY DEF VarsOK
<1>4. vs[v].path \in Seq(Nat) /\ vs[v].size \in Nat \ {0}
  BY <1>2 DEF Variable
<1>5. vs[v].tok \in 0 .. n /\ d[vs[v].tok] \in Nat
  BY <1>3
<1>6. Len(vs[v].path) \in Nat /\ DOMAIN vs[v].path = 1 .. Len(vs[v].path)
  BY <1>4
<1>7. Len(vs[v].path) \in 1 .. Len(vs[v].path)
  BY <1>3, <1>5, <1>6
<1> QED
  BY <1>1, <1>2, <1>3, <1>4, <1>5, <1>6, <1>7

LEMMA SameScopes ==
    ASSUME NEW n \in Nat, NEW d \in [0 .. n -> Nat], NEW e, Longer(d, n, e),
           NEW id, NEW vs, VarsOK(d, n, id, vs)
    PROVE  /\ \A u, v \in DOMAIN vs : Under(e, vs, u, v) <=> Under(d, vs, u, v)
           /\ \A v \in DOMAIN vs :
                 Open(e, n + 1, vs, v) <=> Open(d, n, vs, v) /\ d[vs[v].tok] <= e[n + 1]
<1>1. e \in [0 .. n + 1 -> Nat] /\ \A k \in 0 .. n : e[k] = d[k]
  BY DEF Longer
<1>2. ASSUME NEW v \in DOMAIN vs  PROVE vs[v].tok \in 1 .. n
  BY <1>2, VariableFacts
<1>3. ASSUME NEW u \in DOMAIN vs, NEW v \in DOMAIN vs
      PROVE  Under(e, vs, u, v) <=> Under(d, vs, u, v)
  <2> DEFINE t == vs[u].tok
             w == vs[v].tok
  <2>1. t \in 1 .. n /\ w \in 1 .. n
    BY <1>2
  <2> HIDE DEF t, w
  <2>2. \A k \in t .. w - 1 : k \in 0 .. n
    BY <2>1
  <2>3. t \in 0 .. n
    BY <2>1
  <2>4. (\A k \in t .. w - 1 : e[k] >= e[t]) <=> (\A k \in t .. w - 1 : d[k] >= d[t])
    BY <1>1, <2>2, <2>3
  <2> QED  BY <2>4 DEF Under, t, w
<1>4. ASSUME NEW v \in DOMAIN vs
      PROVE  Open(e, n + 1, vs, v) <=> Open(d, n, vs, v) /\ d[vs[v].tok] <= e[n + 1]
  <2> DEFINE t == vs[v].tok
  <2>1. t \in 1 .. n
    BY <1>2
  <2> HIDE DEF t
  <2>2. t \in 0 .. n /\ n + 1 \in 0 .. n + 1 /\ e[n + 1] \in Nat /\ d[t] \in Nat
    BY <1>1, <2>1
  <2>3. t .. n + 1 = (t .. n) \cup {n + 1} /\ \A k \in t .. n : k \in 0 .. n
    BY <2>1
  <2>4. (\A k \in t .. n + 1 : e[k] >= e[t])
        <=> (\A k \in t .. n : e[k] >= e[t]) /\ e[n + 1] >= e[t]
    BY <2>3
  <2>5. (\A k \in t .. n + 1 : e[k] >= e[t])
        <=> (\A k \in t .. n : d[k] >= d[t]) /\ d[t] <= e[n + 1]
    BY <1>1, <2>2, <2>3, <2>4
  <2> QED  BY <2>5 DEF Open, t
<1> QED
  BY <1>3, <1>4

\* The variables stay what they are.
LEMMA SameVariables ==
    ASSUME NEW n \in Nat, NEW d \in [0 .. n -> Nat], NEW e, Longer(d, n, e),
           NEW id \in Nat, NEW i \in Nat, id <= i, NEW vs, VarsOK(d, n, id, vs), UnderOK(d, vs)
    PROVE  VarsOK(e, n + 1, i, vs) /\ UnderOK(e, vs)
<1>1. UnderOK(e, vs)
  BY SameScopes DEF UnderOK
<1>2. ASSUME NEW v \in DOMAIN vs
      PROVE  /\ vs[v].tok \in 1 .. n + 1 /\ Len(vs[v].path) = e[vs[v].tok] + 1
             /\ vs[v].path[1] = 0 /\ \A k \in DOMAIN vs[v].path : vs[v].path[k] <= i
  <2>1. vs[v].tok \in 1 .. n /\ Len(vs[v].path) = d[vs[v].tok] + 1 /\ vs[v].path[1] = 0
    BY SMTT(30), VariableFacts
  <2>2. vs[v].tok \in 0 .. n /\ vs[v].tok \in 1 .. n + 1
    BY <2>1
  <2>3. e[vs[v].tok] = d[vs[v].tok]
    BY <2>2 DEF Longer
  <2>4. ASSUME NEW k \in DOMAIN vs[v].path  PROVE vs[v].path[k] <= i
    <3>1. vs[v].path[k] \in Nat
      BY SMTT(30), VariableFacts
    <3>2. vs[v].path[k] <= id
      BY DEF VarsOK
    <3> QED  BY <3>1, <3>2
  <2> QED  BY <2>1, <2>2, <2>3, <2>4
<1> QED
  BY <1>1, <1>2 DEF VarsOK

\* A token that opens and closes no scope.
LEMMA ScopedNeutral ==
    ASSUME NEW n, NEW d, NEW p, NEW id, NEW vs, Scoped(d, n, p, id, vs),
           NEW e, Longer(d, n, e), e[n + 1] = d[n]
    PROVE  Scoped(e, n + 1, p, id, vs)
<1>1. /\ n \in Nat /\ d \in [0 .. n -> Nat] /\ id \in Nat
      /\ VarsOK(d, n, id, vs) /\ OpenOK(d, n, p, vs) /\ UnderOK(d, vs) /\ PathOK(d, n, p, id)
  BY DEF Scoped, PathOK
<1>2. VarsOK(e, n + 1, id, vs) /\ UnderOK(e, vs)
  BY <1>1, SameVariables
<1>3. PathOK(e, n + 1, p, id)
  BY <1>1 DEF PathOK, Longer
<1>4. ASSUME NEW v \in DOMAIN vs  PROVE Open(e, n + 1, vs, v) <=> Open(d, n, vs, v)
  <2>1. Open(e, n + 1, vs, v) <=> Open(d, n, vs, v) /\ d[vs[v].tok] <= d[n]
    BY <1>1, SameScopes
  <2>2. vs[v].tok \in 1 .. n
    BY <1>1, VariableFacts
  <2>3. n \in vs[v].tok .. n
    BY <1>1, <2>2
  <2>4. vs[v].tok \in 0 .. n /\ n \in 0 .. n
    BY <1>1, <2>2
  <2>5. d[vs[v].tok] \in Nat /\ d[n] \in Nat
    BY <1>1, <2>4
  <2>6. Open(d, n, vs, v) => d[n] >= d[vs[v].tok]
    BY <2>3 DEF Open
  <2> QED  BY <2>1, <2>5, <2>6
<1>5. OpenOK(e, n + 1, p, vs)
  BY <1>1, <1>4 DEF OpenOK
<1> QED
  BY <1>2, <1>3, <1>5 DEF Scoped

\* A variable's last scope is on its path.
LEMMA OpenDepth ==
    ASSUME NEW n, NEW d, NEW p, NEW id, NEW vs, Scoped(d, n, p, id, vs), NEW v \in DOMAIN vs
    PROVE  /\ p \in Seq(Nat) /\ Len(p) \in Nat /\ DOMAIN p = 1 .. Len(p) /\ Len(p) = d[n] + 1
           /\ n \in Nat /\ d[n] \in Nat /\ id \in Nat /\ \A k \in DOMAIN p : p[k] \in Nat
           /\ vs[v].tok \in 1 .. n /\ d[vs[v].tok] \in Nat
           /\ vs[v].path \in Seq(Nat) /\ Len(vs[v].path) \in Nat
           /\ DOMAIN vs[v].path = 1 .. Len(vs[v].path)
           /\ Len(vs[v].path) \in DOMAIN vs[v].path
           /\ \A k \in DOMAIN vs[v].path : vs[v].path[k] \in Nat /\ vs[v].path[k] <= id
           /\ Len(vs[v].path) = d[vs[v].tok] + 1
           /\ Open(d, n, vs, v) => d[vs[v].tok] <= d[n] /\ Len(vs[v].path) <= Len(p)
<1>1. n \in Nat /\ d \in [0 .. n -> Nat] /\ VarsOK(d, n, id, vs) /\ p \in Seq(Nat) /\ Len(p) = d[n] + 1 /\ id \in Nat
  BY DEF Scoped, PathOK
<1>2. /\ vs[v].tok \in 1 .. n /\ vs[v].path \in Seq(Nat) /\ Len(vs[v].path) \in Nat
      /\ DOMAIN vs[v].path = 1 .. Len(vs[v].path) /\ Len(vs[v].path) = d[vs[v].tok] + 1
      /\ Len(vs[v].path) \in DOMAIN vs[v].path
      /\ d[vs[v].tok] \in Nat
  BY <1>1, VariableFacts
<1>3. n \in 0 .. n /\ d[n] \in Nat /\ n \in vs[v].tok .. n
  BY <1>1, <1>2
<1>4. ASSUME Open(d, n, vs, v)  PROVE d[vs[v].tok] <= d[n]
  BY <1>2, <1>3, <1>4 DEF Open
<1>5. ASSUME Open(d, n, vs, v)  PROVE Len(vs[v].path) <= Len(p)
  BY <1>1, <1>2, <1>3, <1>4, <1>5
<1>6. \A k \in DOMAIN vs[v].path : vs[v].path[k] \in Nat /\ vs[v].path[k] <= id
  <2>1. \A k \in DOMAIN vs[v].path : vs[v].path[k] <= id
    BY <1>1 DEF VarsOK
  <2>2. \A k \in DOMAIN vs[v].path : vs[v].path[k] \in Nat
    BY <1>2
  <2> QED  BY <2>1, <2>2
<1>7. Len(p) \in Nat /\ DOMAIN p = 1 .. Len(p) /\ \A k \in DOMAIN p : p[k] \in Nat
  BY <1>1
<1> QED
  BY <1>1, <1>2, <1>3, <1>4, <1>5, <1>6, <1>7

\* A token that opens a scope, whose number is new.
LEMMA ScopedPush ==
    ASSUME NEW n, NEW d, NEW p, NEW id, NEW vs, Scoped(d, n, p, id, vs),
           NEW e, Longer(d, n, e), e[n + 1] = d[n] + 1
    PROVE  Scoped(e, n + 1, Append(p, id + 1), id + 1, vs)
<1> DEFINE q == Append(p, id + 1)
<1>1. /\ n \in Nat /\ d \in [0 .. n -> Nat] /\ id \in Nat /\ p \in Seq(Nat)
      /\ VarsOK(d, n, id, vs) /\ OpenOK(d, n, p, vs) /\ UnderOK(d, vs)
      /\ Len(p) = d[n] + 1 /\ p[1] = 0 /\ \A k \in DOMAIN p : p[k] <= id
      /\ \A k, m \in DOMAIN p : k < m => p[k] < p[m]
  BY DEF Scoped, PathOK
<1>2. id + 1 \in Nat /\ id <= id + 1 /\ id < id + 1
  BY <1>1
<1>3. VarsOK(e, n + 1, id + 1, vs) /\ UnderOK(e, vs)
  BY <1>1, <1>2, SameVariables
<1>4. /\ q \in Seq(Nat) /\ Len(q) = Len(p) + 1 /\ DOMAIN q = 1 .. Len(q) /\ Len(p) \in Nat
      /\ \A k \in 1 .. Len(p) : q[k] = p[k] /\ p[k] \in Nat
      /\ q[Len(p) + 1] = id + 1 /\ DOMAIN p = 1 .. Len(p)
  <2>1. p \in Seq(Nat) /\ id + 1 \in Nat
    BY <1>1, <1>2
  <2> QED  BY <2>1, Appended
<1> HIDE DEF q
<1>5. d[n] \in Nat /\ 1 \in 1 .. Len(p)
  <2>1. n \in 0 .. n
    BY <1>1
  <2>2. d[n] \in Nat
    BY <1>1, <2>1
  <2> QED  BY <1>1, <1>4, <2>2
<1>6. PathOK(e, n + 1, q, id + 1)
  <2>1. \A k \in DOMAIN q : k \in 1 .. Len(p) \/ k = Len(p) + 1
    BY <1>4
  <2>2. \A k \in 1 .. Len(p) : q[k] \in Nat /\ q[k] <= id
    BY <1>1, <1>4
  <2>3. ASSUME NEW k \in DOMAIN q  PROVE q[k] <= id + 1
    <3>1. \A x \in Nat : x <= id => x <= id + 1
      BY <1>1
    <3>2. id + 1 <= id + 1
      BY <1>2
    <3> QED  BY <1>4, <2>1, <2>2, <3>1, <3>2
  <2>4. ASSUME NEW k \in DOMAIN q, NEW m \in DOMAIN q, k < m  PROVE q[k] < q[m]
    <3>1. k \in 1 .. Len(p)
      BY <1>4, <2>4
    <3>2. CASE m \in 1 .. Len(p)
      BY <1>1, <1>4, <2>4, <3>1, <3>2
    <3>3. CASE m = Len(p) + 1
      BY SMTT(30), <1>1, <1>4, <2>2, <3>1, <3>3
    <3> QED  BY <2>1, <3>2, <3>3
  <2>5. q[1] = 0
    BY <1>1, <1>4, <1>5
  <2> QED  BY SMTT(30), <1>1, <1>2, <1>4, <2>3, <2>4, <2>5 DEF PathOK, Longer
<1>7. OpenOK(e, n + 1, q, vs)
  <2> SUFFICES ASSUME NEW v \in DOMAIN vs
               PROVE  /\ Open(e, n + 1, vs, v) => Prefix(vs[v].path, q) /\ Younger(vs, v, q)
                      /\ ~ Open(e, n + 1, vs, v) => \A k \in DOMAIN q : vs[v].path[Len(vs[v].path)] # q[k]
                      /\ Fork(vs[v].path, q)
    BY DEF OpenOK
  <2> DEFINE w == vs[v].path
  <2>1. /\ Open(d, n, vs, v) => d[vs[v].tok] <= d[n] /\ Len(w) <= Len(p)
        /\ d[vs[v].tok] \in Nat /\ Len(w) \in Nat /\ Len(w) \in DOMAIN w /\ DOMAIN w = 1 .. Len(w)
        /\ \A k \in DOMAIN w : w[k] \in Nat /\ w[k] <= id
    BY OpenDepth
  <2>2. Open(e, n + 1, vs, v) <=> Open(d, n, vs, v) /\ d[vs[v].tok] <= d[n] + 1
    <3>1. Open(e, n + 1, vs, v) <=> Open(d, n, vs, v) /\ d[vs[v].tok] <= e[n + 1]
      BY <1>1, SameScopes
    <3> QED  BY <3>1
  <2>3. Open(e, n + 1, vs, v) <=> Open(d, n, vs, v)
    BY <1>5, <2>1, <2>2
  <2>4. /\ Open(d, n, vs, v) => Prefix(w, p) /\ Younger(vs, v, p)
        /\ ~ Open(d, n, vs, v) => \A k \in DOMAIN p : w[Len(w)] # p[k]
        /\ Fork(w, p)
    BY <1>1 DEF OpenOK
  <2>5. ASSUME Open(d, n, vs, v)  PROVE Prefix(w, q)
    BY <1>4, <2>1, <2>4, <2>5 DEF Prefix
  <2>6. ASSUME Open(d, n, vs, v)  PROVE Younger(vs, v, q)
    <3> SUFFICES ASSUME NEW m \in Len(vs[v].path) + 1 .. Len(q), NEW x \in 1 .. v,
                        NEW k \in DOMAIN vs[x].path
                 PROVE  vs[x].path[k] < q[m]
      BY DEF Younger
    <3>1. CASE m \in 1 .. Len(p)
      <4>1. m \in Len(vs[v].path) + 1 .. Len(p)
        BY <1>4, <2>1, <3>1
      <4>2. vs[x].path[k] < p[m]
        BY <2>4, <2>6, <4>1 DEF Younger
      <4> QED  BY <1>4, <3>1, <4>2
    <3>2. CASE m = Len(p) + 1
      <4>1. x \in DOMAIN vs
        <5>1. vs \in Seq(Variable) /\ v \in 1 .. Len(vs)
          BY <1>1, VariableFacts
        <5> QED  BY <5>1
      <4>2. vs[x].path[k] \in Nat /\ vs[x].path[k] <= id
        BY <4>1, OpenDepth
      <4> QED  BY SMTT(30), <1>1, <1>4, <3>2, <4>2
    <3> QED  BY <1>4, <2>1, <3>1, <3>2
  <2>7. ASSUME ~ Open(d, n, vs, v), NEW k \in DOMAIN q  PROVE w[Len(w)] # q[k]
    <3>1. CASE k \in 1 .. Len(p)
      BY <1>4, <2>4, <2>7, <3>1
    <3>2. CASE k = Len(p) + 1
      <4>1. w[Len(w)] \in Nat /\ w[Len(w)] <= id /\ q[k] = id + 1
        BY <1>4, <2>1, <3>2
      <4> QED  BY <1>1, <4>1
    <3> QED  BY <1>4, <3>1, <3>2
  <2>8. Fork(w, q)
    <3> SUFFICES ASSUME NEW k \in DOMAIN w, NEW m \in DOMAIN q, w[k] = q[m]
                 PROVE  k = m /\ \A j \in 1 .. k : w[j] = q[j]
      BY DEF Fork
    <3>1. m # Len(p) + 1
      <4>1. w[k] \in Nat /\ w[k] <= id
        BY <2>1
      <4>2. w[k] # id + 1
        BY <1>1, <4>1
      <4> QED  BY <1>4, <4>2
    <3>2. m \in DOMAIN p /\ w[k] = p[m]
      BY <1>4, <3>1
    <3>3. k = m /\ \A j \in 1 .. k : w[j] = p[j]
      BY <2>4, <3>2 DEF Fork
    <3> QED  BY <1>4, <3>2, <3>3
  <2> QED  BY <2>3, <2>5, <2>6, <2>7, <2>8
<1> QED
  BY <1>3, <1>6, <1>7 DEF Scoped, q

\* A token that closes the scope it stands in.
LEMMA ScopedPop ==
    ASSUME NEW n, NEW d, NEW p, NEW id, NEW vs, Scoped(d, n, p, id, vs), Len(p) > 1,
           NEW e, Longer(d, n, e), e[n + 1] = d[n] - 1
    PROVE  Scoped(e, n + 1, Front(p), id, vs)
<1> DEFINE q == Front(p)
<1>1. /\ n \in Nat /\ d \in [0 .. n -> Nat] /\ id \in Nat /\ p \in Seq(Nat)
      /\ VarsOK(d, n, id, vs) /\ OpenOK(d, n, p, vs) /\ UnderOK(d, vs)
      /\ Len(p) = d[n] + 1 /\ p[1] = 0 /\ \A k \in DOMAIN p : p[k] <= id
      /\ \A k, m \in DOMAIN p : k < m => p[k] < p[m]
  BY DEF Scoped, PathOK
<1>2. VarsOK(e, n + 1, id, vs) /\ UnderOK(e, vs)
  <2>1. id <= id
    BY <1>1
  <2> QED  BY <1>1, <2>1, SameVariables
<1>3. /\ q \in Seq(Nat) /\ Len(q) = Len(p) - 1 /\ DOMAIN q = 1 .. Len(p) - 1 /\ Len(p) \in Nat
      /\ \A k \in 1 .. Len(p) - 1 : q[k] = p[k]
      /\ DOMAIN p = 1 .. Len(p) /\ \A k \in 1 .. Len(p) : p[k] \in Nat
  <2>1. Len(p) > 0
    BY <1>1
  <2> QED  BY <1>1, <2>1, Fronted
<1> HIDE DEF q
<1>4. d[n] \in Nat /\ 1 \in 1 .. Len(p) - 1 /\ \A k \in 1 .. Len(p) - 1 : k \in 1 .. Len(p)
  BY SMTT(30), <1>1, <1>3
<1>5. PathOK(e, n + 1, q, id)
  <2>1. n + 1 \in Nat /\ e \in [0 .. n + 1 -> Nat] /\ Len(q) = e[n + 1] + 1
    BY SMTT(30), <1>1, <1>3, <1>4 DEF Longer
  <2>2. q[1] = 0 /\ \A k \in DOMAIN q : q[k] <= id
    BY <1>1, <1>3, <1>4
  <2>3. \A k, m \in DOMAIN q : k < m => q[k] < q[m]
    BY <1>1, <1>3, <1>4
  <2> QED  BY <1>1, <1>3, <2>1, <2>2, <2>3 DEF PathOK
<1>6. OpenOK(e, n + 1, q, vs)
  <2> SUFFICES ASSUME NEW v \in DOMAIN vs
               PROVE  /\ Open(e, n + 1, vs, v) => Prefix(vs[v].path, q) /\ Younger(vs, v, q)
                      /\ ~ Open(e, n + 1, vs, v) => \A k \in DOMAIN q : vs[v].path[Len(vs[v].path)] # q[k]
                      /\ Fork(vs[v].path, q)
    BY DEF OpenOK
  <2> DEFINE w == vs[v].path
  <2>1. /\ Open(d, n, vs, v) => d[vs[v].tok] <= d[n] /\ Len(w) <= Len(p)
        /\ d[vs[v].tok] \in Nat /\ Len(w) \in Nat /\ Len(w) \in DOMAIN w /\ DOMAIN w = 1 .. Len(w)
        /\ Len(w) = d[vs[v].tok] + 1
    BY OpenDepth
  <2>2. Open(e, n + 1, vs, v) <=> Open(d, n, vs, v) /\ d[vs[v].tok] <= d[n] - 1
    <3>1. Open(e, n + 1, vs, v) <=> Open(d, n, vs, v) /\ d[vs[v].tok] <= e[n + 1]
      BY <1>1, SameScopes
    <3> QED  BY <3>1
  <2>3. d[vs[v].tok] <= d[n] - 1 <=> Len(w) <= Len(p) - 1
    BY SMTT(30), <1>1, <1>4, <2>1
  <2>4. /\ Open(d, n, vs, v) => Prefix(w, p) /\ Younger(vs, v, p)
        /\ ~ Open(d, n, vs, v) => \A k \in DOMAIN p : w[Len(w)] # p[k]
        /\ Fork(w, p)
    BY <1>1 DEF OpenOK
  <2>5. ASSUME Open(e, n + 1, vs, v)  PROVE Prefix(w, q)
    <3>1. Len(w) <= Len(p) - 1 /\ Prefix(w, p)
      BY <2>2, <2>3, <2>4, <2>5
    <3>2. \A k \in 1 .. Len(w) : k \in 1 .. Len(p) - 1
      BY <1>3, <2>1, <3>1
    <3> QED  BY <1>3, <3>1, <3>2 DEF Prefix
  <2>6. ASSUME Open(e, n + 1, vs, v)  PROVE Younger(vs, v, q)
    <3> SUFFICES ASSUME NEW m \in Len(vs[v].path) + 1 .. Len(q), NEW x \in 1 .. v,
                        NEW k \in DOMAIN vs[x].path
                 PROVE  vs[x].path[k] < q[m]
      BY DEF Younger
    <3>1. m \in Len(vs[v].path) + 1 .. Len(p) /\ m \in 1 .. Len(p) - 1
      BY <1>3, <2>1
    <3>2. vs[x].path[k] < p[m]
      BY <2>2, <2>4, <2>6, <3>1 DEF Younger
    <3> QED  BY <1>3, <3>1, <3>2
  <2>7. ASSUME ~ Open(e, n + 1, vs, v), NEW k \in DOMAIN q  PROVE w[Len(w)] # q[k]
    <3>1. k \in DOMAIN p /\ q[k] = p[k]
      BY <1>3, <1>4
    <3>2. CASE ~ Open(d, n, vs, v)
      BY <2>4, <3>1, <3>2
    <3>3. CASE Open(d, n, vs, v)
      <4>1. ~ (Len(w) <= Len(p) - 1) /\ Len(w) <= Len(p) /\ Prefix(w, p)
        BY <2>1, <2>2, <2>3, <2>4, <2>7, <3>3
      <4>2. Len(w) = Len(p)
        BY <1>3, <2>1, <4>1
      <4>3. w[Len(w)] = p[Len(p)]
        BY <2>1, <4>1, <4>2 DEF Prefix
      <4>4. k < Len(p) /\ Len(p) \in DOMAIN p
        BY <1>3, <1>4
      <4>5. p[k] < p[Len(p)] /\ p[k] \in Nat /\ p[Len(p)] \in Nat
        BY <1>1, <1>3, <3>1, <4>4
      <4> QED  BY <3>1, <4>3, <4>5
    <3> QED  BY <3>2, <3>3
  <2>8. Fork(w, q)
    <3> SUFFICES ASSUME NEW k \in DOMAIN w, NEW m \in DOMAIN q, w[k] = q[m]
                 PROVE  k = m /\ \A j \in 1 .. k : w[j] = q[j]
      BY DEF Fork
    <3>1. m \in DOMAIN p /\ w[k] = p[m]
      BY <1>3, <1>4
    <3>2. k = m /\ \A j \in 1 .. k : w[j] = p[j]
      BY <2>4, <3>1 DEF Fork
    <3>3. \A j \in 1 .. k : j \in 1 .. Len(p) - 1
      BY <1>3, <3>2
    <3> QED  BY <1>3, <3>2, <3>3
  <2> QED  BY <2>5, <2>6, <2>7, <2>8
<1> QED
  BY <1>2, <1>5, <1>6 DEF Scoped, q

\* What is under a variable that the n-th token declares is what is in scope.
LEMMA UnderNew ==
    ASSUME NEW n \in Nat \ {0}, NEW d \in [0 .. n -> Nat], d[n - 1] <= d[n],
           NEW id, NEW vs, VarsOK(d, n - 1, id, vs),
           NEW w, w.tok = n
    PROVE  LET all == Append(vs, w) IN
           /\ \A u \in DOMAIN vs : /\ Under(d, all, u, Len(vs) + 1) <=> Open(d, n, vs, u)
                                   /\ Open(d, n, all, u) <=> Open(d, n, vs, u)
                                   /\ ~ Under(d, all, Len(vs) + 1, u)
           /\ \A u, v \in DOMAIN vs : Under(d, all, u, v) <=> Under(d, vs, u, v)
           /\ Open(d, n, all, Len(vs) + 1)
           /\ ~ Under(d, all, Len(vs) + 1, Len(vs) + 1)
<1> DEFINE all == Append(vs, w)
           new == Len(vs) + 1
<1>1. /\ vs \in Seq(Variable) /\ all[new] = w /\ \A u \in DOMAIN vs : all[u] = vs[u]
      /\ DOMAIN vs = 1 .. Len(vs)
  BY DEF VarsOK
<1> HIDE DEF all, new
<1>2. ASSUME NEW u \in DOMAIN vs
      PROVE  vs[u].tok \in 1 .. n - 1
  <2>1. n - 1 \in Nat
    OBVIOUS
  <2>2. vs[u].tok \in 1 .. n - 1
    BY <2>1 DEF VarsOK
  <2> QED  BY <2>2
<1>3. ASSUME NEW u \in DOMAIN vs
      PROVE  /\ Under(d, all, u, new) <=> Open(d, n, vs, u)
             /\ Open(d, n, all, u) <=> Open(d, n, vs, u)
             /\ ~ Under(d, all, new, u)
  <2> DEFINE t == vs[u].tok
  <2>1. t \in 1 .. n - 1 /\ all[u] = vs[u]
    BY <1>1, <1>2
  <2> HIDE DEF t
  <2>2. t < n /\ ~ (n < t) /\ t \in 0 .. n /\ n \in 0 .. n /\ n - 1 \in 0 .. n /\ n - 1 \in t .. n - 1
        /\ t .. n = (t .. n - 1) \cup {n}
    BY <2>1
  <2>3. d[t] \in Nat /\ d[n] \in Nat /\ d[n - 1] \in Nat
    BY <2>2
  <2>4. (\A k \in t .. n - 1 : d[k] >= d[t]) => d[n] >= d[t]
    <3>1. (\A k \in t .. n - 1 : d[k] >= d[t]) => d[n - 1] >= d[t]
      BY <2>2
    <3> QED  BY <2>3, <3>1
  <2>5. (\A k \in t .. n : d[k] >= d[t]) <=> (\A k \in t .. n - 1 : d[k] >= d[t])
    BY <2>2, <2>4
  <2>6. Under(d, all, u, new) <=> Open(d, n, vs, u)
    BY <1>1, <2>1, <2>2, <2>5 DEF Under, Open, t
  <2>7. Open(d, n, all, u) <=> Open(d, n, vs, u)
    BY <2>1 DEF Open
  <2>8. ~ Under(d, all, new, u)
    BY <1>1, <2>1, <2>2 DEF Under, t
  <2> QED  BY <2>6, <2>7, <2>8
<1>4. \A u, v \in DOMAIN vs : Under(d, all, u, v) <=> Under(d, vs, u, v)
  BY <1>1 DEF Under
<1>5. Open(d, n, all, new)
  <2>1. n .. n = {n} /\ n \in 0 .. n
    OBVIOUS
  <2>2. d[n] \in Nat
    BY <2>1
  <2>3. d[n] >= d[n]
    BY <2>2
  <2> QED  BY <1>1, <2>1, <2>3 DEF Open
<1>6. ~ Under(d, all, new, new)
  BY <1>1 DEF Under
<1> QED
  BY <1>3, <1>4, <1>5, <1>6 DEF all, new

\* Two paths fork the same way seen from either.
LEMMA ForkTurned ==
    ASSUME NEW p, NEW q, Fork(p, q)  PROVE Fork(q, p)
BY DEF Fork

\* The n-th token declares a variable where it stands.
LEMMA ScopedVar ==
    ASSUME NEW n \in Nat \ {0}, NEW d, NEW p, NEW id, NEW vs, Scoped(d, n, p, id, vs),
           d[n - 1] <= d[n], VarsOK(d, n - 1, id, vs),
           NEW w \in Variable, w.tok = n, w.path = p
    PROVE  Scoped(d, n, p, id, Append(vs, w))
<1> DEFINE all == Append(vs, w)
           new == Len(vs) + 1
<1>1. /\ d \in [0 .. n -> Nat] /\ id \in Nat /\ p \in Seq(Nat) /\ PathOK(d, n, p, id)
      /\ VarsOK(d, n, id, vs) /\ OpenOK(d, n, p, vs) /\ UnderOK(d, vs)
      /\ Len(p) = d[n] + 1 /\ p[1] = 0 /\ \A k \in DOMAIN p : p[k] <= id
      /\ \A k, m \in DOMAIN p : k < m => p[k] < p[m]
  BY DEF Scoped, PathOK
<1>2. vs \in Seq(Variable)
  BY <1>1 DEF VarsOK
<1>3. /\ all \in Seq(Variable) /\ Len(vs) \in Nat /\ DOMAIN all = 1 .. new /\ DOMAIN vs = 1 .. Len(vs)
      /\ all[new] = w /\ \A u \in DOMAIN vs : all[u] = vs[u]
  BY <1>2, Appended
<1>4. DOMAIN all = DOMAIN vs \cup {new}
  BY <1>3
<1>5. /\ \A u \in DOMAIN vs : /\ Under(d, all, u, new) <=> Open(d, n, vs, u)
                              /\ Open(d, n, all, u) <=> Open(d, n, vs, u)
                              /\ ~ Under(d, all, new, u)
      /\ \A u, v \in DOMAIN vs : Under(d, all, u, v) <=> Under(d, vs, u, v)
      /\ Open(d, n, all, new) /\ ~ Under(d, all, new, new)
  BY <1>1, UnderNew
<1>6. ASSUME NEW v \in DOMAIN vs, NEW q  PROVE Younger(all, v, q) <=> Younger(vs, v, q)
  <2>1. \A x \in 1 .. v : all[x] = vs[x]
    BY <1>3
  <2> QED  BY <1>3, <2>1 DEF Younger
<1>7. Prefix(p, p) /\ Younger(all, new, p) /\ Fork(p, p)
  <2>1. Prefix(p, p)
    BY <1>1 DEF Prefix
  <2>2. Younger(all, new, p)
    <3>1. Len(p) \in Nat /\ Len(p) + 1 .. Len(p) = {}
      BY <1>1
    <3> QED  BY <1>3, <3>1 DEF Younger
  <2>3. ASSUME NEW k \in DOMAIN p, NEW m \in DOMAIN p, p[k] = p[m]  PROVE k = m
    <3>1. k \in Nat /\ m \in Nat /\ p[k] \in Nat /\ p[m] \in Nat
      BY <1>1
    <3>2. ~ (k < m) /\ ~ (m < k)
      BY <1>1, <2>3, <3>1
    <3> QED  BY <3>1, <3>2
  <2> QED  BY <2>1, <2>2, <2>3 DEF Fork
<1> HIDE DEF all, new
<1>8. VarsOK(d, n, id, all)
  <2>1. ASSUME NEW v \in DOMAIN all
        PROVE  /\ all[v].tok \in 1 .. n /\ Len(all[v].path) = d[all[v].tok] + 1
               /\ all[v].path[1] = 0 /\ \A k \in DOMAIN all[v].path : all[v].path[k] <= id
    <3>1. CASE v \in DOMAIN vs
      BY <1>1, <1>3, <3>1 DEF VarsOK
    <3>2. CASE v = new
      <4>1. all[v] = w /\ n \in 1 .. n
        BY <1>3, <3>2
      <4> QED  BY <1>1, <4>1
    <3> QED  BY <1>4, <3>1, <3>2
  <2>2. ASSUME NEW u \in DOMAIN all, NEW v \in DOMAIN all, u < v
        PROVE  all[u].tok < all[v].tok
    <3>1. u \in DOMAIN vs
      BY <1>3, <1>4, <2>2 DEF new
    <3>2. vs[u].tok \in 1 .. n - 1
      <4>1. n - 1 \in Nat
        OBVIOUS
      <4> QED  BY <3>1, <4>1 DEF VarsOK
    <3>3. CASE v \in DOMAIN vs
      BY <1>1, <1>3, <2>2, <3>1, <3>3 DEF VarsOK
    <3>4. CASE v = new
      BY <1>3, <3>1, <3>2, <3>4
    <3> QED  BY <1>4, <3>3, <3>4
  <2> QED  BY <1>3, <2>1, <2>2 DEF VarsOK
<1>9. OpenOK(d, n, p, all)
  <2> SUFFICES ASSUME NEW v \in DOMAIN all
               PROVE  /\ Open(d, n, all, v) => Prefix(all[v].path, p) /\ Younger(all, v, p)
                      /\ ~ Open(d, n, all, v) => \A k \in DOMAIN p : all[v].path[Len(all[v].path)] # p[k]
                      /\ Fork(all[v].path, p)
    BY DEF OpenOK
  <2>1. CASE v \in DOMAIN vs
    BY <1>1, <1>3, <1>5, <1>6, <2>1 DEF OpenOK
  <2>2. CASE v = new
    BY <1>3, <1>5, <1>7, <2>2
  <2> QED  BY <1>4, <2>1, <2>2
<1>10. UnderOK(d, all)
  <2> SUFFICES ASSUME NEW u \in DOMAIN all, NEW v \in DOMAIN all
               PROVE  /\ Under(d, all, u, v) => Prefix(all[u].path, all[v].path) /\ Younger(all, u, all[v].path)
                      /\ Fork(all[u].path, all[v].path)
    BY DEF UnderOK
  <2>1. CASE u \in DOMAIN vs /\ v \in DOMAIN vs
    BY <1>1, <1>3, <1>5, <1>6, <2>1 DEF UnderOK
  <2>2. CASE u \in DOMAIN vs /\ v = new
    BY <1>1, <1>3, <1>5, <1>6, <2>2 DEF OpenOK
  <2>3. CASE u = new /\ v \in DOMAIN vs
    BY <1>1, <1>3, <1>5, <2>3, ForkTurned DEF OpenOK
  <2>4. CASE u = new /\ v = new
    BY <1>3, <1>5, <1>7, <2>4
  <2> QED  BY <1>4, <2>1, <2>2, <2>3, <2>4
<1> QED
  BY <1>1, <1>8, <1>9, <1>10 DEF Scoped, all

-----------------------------------------------------------------------------
(* Declarations *)

\* A token that declares nothing.
LEMMA DeclaredNeutral ==
    ASSUME NEW T, NEW s \in Seq(T), NEW token \in T,
           NEW d \in [0 .. Len(s) -> Nat], NEW e, Longer(d, Len(s), e),
           NEW id, NEW vs, VarsOK(d, Len(s), id, vs), Declared(s, d, Len(s), vs),
           token.kind \notin {"declare", "fun"} \/ token.name = None
    PROVE  Declared(Append(s, token), e, Len(s) + 1, vs)
<1> DEFINE r == Append(s, token)
<1>1. /\ Len(s) \in Nat /\ r[Len(s) + 1] = token /\ \A k \in 1 .. Len(s) : r[k] = s[k]
  BY Appended
<1> HIDE DEF r
<1>2. \A v \in DOMAIN vs : vs[v].tok \in 1 .. Len(s)
  BY DEF VarsOK
<1>3. \A u, v \in DOMAIN vs : Under(e, vs, u, v) <=> Under(d, vs, u, v)
  BY <1>1, SameScopes
<1>4. \A v \in DOMAIN vs : vs[v].name # None =>
          r[vs[v].tok].kind \in {"declare", "fun"} /\ r[vs[v].tok].name = vs[v].name
  BY <1>1, <1>2 DEF Declared
<1>5. \A t \in 1 .. Len(s) + 1 : r[t].kind \in {"declare", "fun"} /\ r[t].name # None =>
          \E v \in DOMAIN vs : vs[v].tok = t /\ vs[v].name = r[t].name
  <2>1. \A t \in 1 .. Len(s) + 1 : t \in 1 .. Len(s) \/ t = Len(s) + 1
    BY <1>1
  <2> QED  BY <1>1, <2>1 DEF Declared
<1> QED
  BY <1>3, <1>4, <1>5 DEF Declared, r

\* A token that declares a variable where it stands: a name that its scope does
\* not have yet, or none.
LEMMA DeclaredVar ==
    ASSUME NEW T, NEW s \in Seq(T), NEW token \in T,
           NEW d \in [0 .. Len(s) -> Nat], NEW e, Longer(d, Len(s), e), d[Len(s)] <= e[Len(s) + 1],
           NEW id, NEW vs, VarsOK(d, Len(s), id, vs), Declared(s, d, Len(s), vs),
           NEW w, w.tok = Len(s) + 1,
           \/ w.name = None /\ token.kind \notin {"declare", "fun"}
           \/ w.name = token.name /\ token.kind \in {"declare", "fun"},
           w.name # None => \A u \in DOMAIN vs :
              Open(d, Len(s), vs, u) /\ vs[u].name = w.name => Len(vs[u].path) < Len(w.path)
    PROVE  Declared(Append(s, token), e, Len(s) + 1, Append(vs, w))
<1> DEFINE r == Append(s, token)
           all == Append(vs, w)
           new == Len(vs) + 1
           n == Len(s) + 1
<1>1. /\ Len(s) \in Nat /\ r[n] = token /\ \A k \in 1 .. Len(s) : r[k] = s[k]
  BY Appended
<1>2. \A v \in DOMAIN vs : vs[v].tok \in 1 .. Len(s)
  BY DEF VarsOK
<1>3. /\ vs \in Seq(Variable) /\ Len(vs) \in Nat /\ DOMAIN vs = 1 .. Len(vs)
      /\ DOMAIN all = 1 .. new /\ all[new] = w /\ \A u \in DOMAIN vs : all[u] = vs[u]
  BY DEF VarsOK
<1>4. DOMAIN all = DOMAIN vs \cup {new}
  BY <1>3
<1>5. n \in Nat \ {0} /\ n - 1 = Len(s) /\ e[n - 1] = d[Len(s)] /\ e \in [0 .. n -> Nat]
  BY <1>1 DEF Longer
<1>6. VarsOK(e, n - 1, id, vs)
  <2>1. \A v \in DOMAIN vs : vs[v].tok \in 0 .. Len(s)
    BY <1>1, <1>2
  <2>2. \A v \in DOMAIN vs : e[vs[v].tok] = d[vs[v].tok]
    BY <2>1 DEF Longer
  <2> QED  BY <1>5, <2>2 DEF VarsOK
<1>7. /\ \A u \in DOMAIN vs : (Under(e, all, u, new) <=> Open(e, n, vs, u)) /\ ~ Under(e, all, new, u)
      /\ \A u, v \in DOMAIN vs : Under(e, all, u, v) <=> Under(e, vs, u, v)
      /\ ~ Under(e, all, new, new)
  <2>1. e[n - 1] <= e[n]
    BY <1>5
  <2> HIDE DEF n
  <2> QED  BY <1>5, <1>6, <2>1, UnderNew
<1>8. /\ \A u, v \in DOMAIN vs : Under(e, vs, u, v) <=> Under(d, vs, u, v)
      /\ \A v \in DOMAIN vs : Open(e, n, vs, v) => Open(d, Len(s), vs, v)
  BY <1>1, SameScopes
<1> HIDE DEF r, all, new, n
<1>9. \A v \in DOMAIN all : all[v].name # None =>
          r[all[v].tok].kind \in {"declare", "fun"} /\ r[all[v].tok].name = all[v].name
  <2>1. ASSUME NEW v \in DOMAIN vs, all[v].name # None
        PROVE  r[all[v].tok].kind \in {"declare", "fun"} /\ r[all[v].tok].name = all[v].name
    BY <1>1, <1>2, <1>3, <2>1 DEF Declared
  <2>2. all[new].name # None =>
          r[all[new].tok].kind \in {"declare", "fun"} /\ r[all[new].tok].name = all[new].name
    BY <1>1, <1>3 DEF n
  <2> QED  BY <1>4, <2>1, <2>2
<1>10. \A t \in 1 .. n : r[t].kind \in {"declare", "fun"} /\ r[t].name # None =>
          \E v \in DOMAIN all : all[v].tok = t /\ all[v].name = r[t].name
  <2>1. \A t \in 1 .. n : t \in 1 .. Len(s) \/ t = n
    BY <1>1 DEF n
  <2>2. ASSUME NEW t \in 1 .. Len(s), r[t].kind \in {"declare", "fun"} /\ r[t].name # None
        PROVE  \E v \in DOMAIN all : all[v].tok = t /\ all[v].name = r[t].name
    <3>1. \E v \in DOMAIN vs : vs[v].tok = t /\ vs[v].name = r[t].name
      BY <1>1, <2>2 DEF Declared
    <3> QED  BY <1>3, <1>4, <3>1
  <2>3. r[n].kind \in {"declare", "fun"} => all[new].tok = n /\ all[new].name = r[n].name
    BY <1>1, <1>3 DEF n
  <2> QED  BY <1>4, <2>1, <2>2, <2>3
<1>11. ASSUME NEW u \in DOMAIN all, NEW v \in DOMAIN all,
              all[u].name = all[v].name /\ all[u].name # None /\ Under(e, all, u, v)
       PROVE  Len(all[u].path) < Len(all[v].path)
  <2>1. u # new
    BY <1>4, <1>7, <1>11
  <2>2. CASE v \in DOMAIN vs
    BY <1>3, <1>4, <1>7, <1>8, <1>11, <2>1, <2>2 DEF Declared
  <2>3. CASE v = new
    BY <1>3, <1>4, <1>7, <1>8, <1>11, <2>1, <2>3
  <2> QED  BY <1>4, <2>2, <2>3
<1> QED
  BY <1>9, <1>10, <1>11 DEF Declared, r, all, n

-----------------------------------------------------------------------------
(* The frame laid out while parsing *)

\* Rounding up gives at least the size.
LEMMA WordsHold ==
    ASSUME NEW size \in Nat  PROVE Words(size) \in Nat /\ size <= Words(size)
<1>1. 4 - (size % 4) \in Nat
  OBVIOUS
<1>2. (4 - (size % 4)) % 4 \in Nat
  BY <1>1
<1> DEFINE r == (4 - (size % 4)) % 4
<1>3. r \in Nat
  BY <1>2
<1> HIDE DEF r
<1>4. size + r \in Nat /\ size <= size + r
  BY <1>3
<1> QED
  BY <1>4 DEF Words, r

\* Places are judged by what is in scope together.
LEMMA SamePlaces ==
    ASSUME NEW n \in Nat, NEW d \in [0 .. n -> Nat], NEW e, Longer(d, n, e),
           NEW id, NEW vs, VarsOK(d, n, id, vs), NEW off, PlacesOK(d, vs, off)
    PROVE  PlacesOK(e, vs, off)
<1>1. \A u, v \in DOMAIN vs : Under(e, vs, u, v) <=> Under(d, vs, u, v)
  BY SameScopes
<1> QED
  BY <1>1 DEF PlacesOK

\* What is in scope after a token was in scope before.
LEMMA SameHeld ==
    ASSUME NEW n \in Nat, NEW d \in [0 .. n -> Nat], NEW e, Longer(d, n, e),
           NEW id, NEW vs, VarsOK(d, n, id, vs), NEW off, NEW b, Held(d, n, vs, off, b)
    PROVE  Held(e, n + 1, vs, off, b)
<1>1. \A v \in DOMAIN vs : Open(e, n + 1, vs, v) => Open(d, n, vs, v)
  BY SameScopes
<1> QED
  BY <1>1 DEF Held

LEMMA LaidNeutral ==
    ASSUME NEW n, NEW d, NEW p, NEW id, NEW vs, Scoped(d, n, p, id, vs),
           NEW e, Longer(d, n, e),
           NEW off, NEW shares, NEW esp, LaidOut(d, n, p, vs, off, shares, esp)
    PROVE  LaidOut(e, n + 1, p, vs, off, shares, esp)
<1>1. n \in Nat /\ d \in [0 .. n -> Nat] /\ VarsOK(d, n, id, vs)
  BY DEF Scoped, PathOK
<1>2. PlacesOK(e, vs, off)
  BY <1>1, SamePlaces DEF LaidOut
<1>3. PICK b : Levels(b, shares, esp) /\ Held(d, n, vs, off, b)
  BY DEF LaidOut
<1>4. Held(e, n + 1, vs, off, b)
  BY <1>1, <1>3, SameHeld
<1> QED
  BY <1>2, <1>3, <1>4 DEF LaidOut

LEMMA LaidPush ==
    ASSUME NEW n, NEW d, NEW p, NEW id, NEW vs, Scoped(d, n, p, id, vs),
           NEW e, Longer(d, n, e),
           NEW off, NEW shares, NEW esp, LaidOut(d, n, p, vs, off, shares, esp)
    PROVE  LaidOut(e, n + 1, Append(p, id + 1), vs, off, Append(shares, 0), esp)
<1> DEFINE all == Append(shares, 0)
           L == Len(shares)
<1>1. n \in Nat /\ d \in [0 .. n -> Nat] /\ VarsOK(d, n, id, vs) /\ p \in Seq(Nat) /\ id \in Nat
  BY DEF Scoped, PathOK
<1>2. PlacesOK(e, vs, off)
  BY <1>1, SamePlaces DEF LaidOut
<1>3. PICK b : Levels(b, shares, esp) /\ Held(d, n, vs, off, b)
  BY DEF LaidOut
<1>4. /\ shares \in Seq(Nat) /\ all \in Seq(Nat) /\ Len(all) = L + 1 /\ L \in Nat
      /\ \A k \in 1 .. L : all[k] = shares[k] /\ all[L + 1] = 0
  BY Appended DEF LaidOut
<1>5. Len(Append(p, id + 1)) = Len(p) + 1 /\ Len(p) \in Nat
  <2>1. id + 1 \in Nat
    BY <1>1
  <2> QED  BY <1>1, <2>1, Appended
<1>6. Len(all) = Len(Append(p, id + 1)) - 1
  BY <1>4, <1>5 DEF LaidOut
<1> DEFINE c == [k \in 0 .. L + 1 |-> IF k = L + 1 THEN b[L] ELSE b[k]]
<1>7. /\ b \in [0 .. L -> Nat] /\ b[0] = stackBase /\ esp = b[L]
      /\ \A k \in 1 .. L : b[k] = b[k - 1] + shares[k]
      /\ \A j, k \in 0 .. L : j <= k => b[j] <= b[k]
  BY <1>3 DEF Levels
<1>8. /\ b[L] \in Nat /\ c \in [0 .. L + 1 -> Nat] /\ c[L + 1] = b[L]
      /\ \A k \in 0 .. L : c[k] = b[k] /\ b[k] \in Nat
  <2>1. L \in Nat /\ b \in [0 .. L -> Nat]
    BY <1>4, <1>7
  <2> HIDE DEF L
  <2>2. L \in 0 .. L /\ L + 1 \in 0 .. L + 1 /\ \A k \in 0 .. L : k \in 0 .. L + 1 /\ k # L + 1
    BY <2>1
  <2>3. \A k \in 0 .. L + 1 : k # L + 1 => k \in 0 .. L
    BY <2>1
  <2> QED  BY <2>1, <2>2, <2>3
<1> HIDE DEF c, L, all
<1>9. Levels(c, all, esp)
  <2>1. c[0] = stackBase /\ esp = c[L + 1]
    BY <1>4, <1>7, <1>8
  <2>2. ASSUME NEW k \in 1 .. L + 1  PROVE c[k] = c[k - 1] + all[k]
    <3>1. CASE k \in 1 .. L
      <4>1. k \in 0 .. L /\ k - 1 \in 0 .. L
        BY <1>4, <3>1
      <4> QED  BY <1>4, <1>7, <1>8, <3>1, <4>1
    <3>2. CASE k = L + 1
      <4>1. k - 1 = L /\ L \in 0 .. L
        BY <1>4, <3>2
      <4>2. all[k] = 0
        BY <1>4, <3>2, Appended DEF all, L
      <4>3. b[L] = b[L] + 0
        BY <1>8
      <4> QED  BY <1>8, <3>2, <4>1, <4>2, <4>3
    <3> QED  BY <1>4, <3>1, <3>2
  <2>3. ASSUME NEW j \in 0 .. L + 1, NEW k \in 0 .. L + 1, j <= k  PROVE c[j] <= c[k]
    <3>1. CASE k \in 0 .. L
      <4>1. j \in 0 .. L
        BY <1>4, <2>3, <3>1
      <4> QED  BY <1>7, <1>8, <2>3, <3>1, <4>1
    <3>2. CASE k = L + 1 /\ j \in 0 .. L
      <4>1. L \in 0 .. L /\ j <= L
        BY <1>4, <3>2
      <4> QED  BY <1>7, <1>8, <3>2, <4>1
    <3>3. CASE k = L + 1 /\ j = L + 1
      BY <1>8, <3>3
    <3> QED  BY <1>4, <3>1, <3>2, <3>3
  <2> QED  BY <1>4, <1>8, <2>1, <2>2, <2>3 DEF Levels
<1>10. Held(e, n + 1, vs, off, c)
  <2>1. Held(e, n + 1, vs, off, b)
    BY <1>1, <1>3, SameHeld
  <2>2. ASSUME NEW v \in DOMAIN vs, Open(e, n + 1, vs, v)
        PROVE  Len(vs[v].path) - 1 \in 0 .. L
    <3>1. Open(d, n, vs, v)
      BY <1>1, <2>2, SameScopes
    <3>2. Len(vs[v].path) <= Len(p) /\ Len(vs[v].path) \in Nat /\ Len(vs[v].path) \in 1 .. Len(vs[v].path)
      BY <3>1, OpenDepth
    <3>3. L = Len(p) - 1 /\ Len(p) \in Nat
      BY <1>5 DEF LaidOut, L
    <3> QED  BY <3>2, <3>3
  <2> QED  BY <1>8, <2>1, <2>2 DEF Held
<1> QED
  BY <1>2, <1>4, <1>6, <1>9, <1>10 DEF LaidOut, all

LEMMA LaidPop ==
    ASSUME NEW n, NEW d, NEW p, NEW id, NEW vs, Scoped(d, n, p, id, vs), Len(p) > 1,
           NEW e, Longer(d, n, e), e[n + 1] = d[n] - 1,
           NEW off, NEW shares, NEW esp, LaidOut(d, n, p, vs, off, shares, esp)
    PROVE  /\ LaidOut(e, n + 1, Front(p), vs, off, Front(shares), esp - Last(shares))
           /\ esp \in Nat /\ Last(shares) \in Nat /\ esp - Last(shares) \in Nat
<1> DEFINE most == Front(shares)
           L == Len(shares)
<1>1. /\ n \in Nat /\ d \in [0 .. n -> Nat] /\ VarsOK(d, n, id, vs) /\ p \in Seq(Nat) /\ id \in Nat
      /\ Len(p) = d[n] + 1
  BY DEF Scoped, PathOK
<1>2. PlacesOK(e, vs, off)
  BY <1>1, SamePlaces DEF LaidOut
<1>3. PICK b : Levels(b, shares, esp) /\ Held(d, n, vs, off, b)
  BY DEF LaidOut
<1>4. shares \in Seq(Nat) /\ L = Len(p) - 1 /\ Len(p) \in Nat /\ L > 0 /\ L \in Nat
  BY <1>1 DEF LaidOut
<1>5. /\ most \in Seq(Nat) /\ Len(most) = L - 1 /\ \A k \in 1 .. L - 1 : most[k] = shares[k]
      /\ Last(shares) = shares[L] /\ shares[L] \in Nat
  BY <1>4, Fronted
<1>6. Len(Front(p)) = Len(p) - 1
  <2>1. Len(p) > 0
    BY <1>4
  <2> QED  BY <1>1, <2>1, Fronted
<1> DEFINE c == [k \in 0 .. L - 1 |-> b[k]]
<1>7. /\ b \in [0 .. L -> Nat] /\ b[0] = stackBase /\ esp = b[L]
      /\ \A k \in 1 .. L : b[k] = b[k - 1] + shares[k]
      /\ \A j, k \in 0 .. L : j <= k => b[j] <= b[k]
  BY <1>3 DEF Levels
<1>8. /\ L \in 1 .. L /\ \A k \in 0 .. L - 1 : k \in 0 .. L /\ b[k] \in Nat /\ c[k] = b[k]
      /\ c \in [0 .. L - 1 -> Nat] /\ 0 \in 0 .. L - 1 /\ L - 1 \in 0 .. L - 1 /\ L \in 0 .. L
      /\ b[L] \in Nat
  <2>1. L \in Nat /\ L > 0 /\ b \in [0 .. L -> Nat]
    BY <1>4, <1>7
  <2> HIDE DEF L
  <2>2. /\ L \in 1 .. L /\ L \in 0 .. L /\ 0 \in 0 .. L - 1 /\ L - 1 \in 0 .. L - 1
        /\ \A k \in 0 .. L - 1 : k \in 0 .. L
    BY <2>1
  <2> QED  BY <2>1, <2>2
<1> HIDE DEF c, L, most
<1>9. esp - Last(shares) = b[L - 1] /\ esp \in Nat /\ b[L - 1] \in Nat
  <2>1. b[L] = b[L - 1] + shares[L] /\ b[L - 1] \in Nat /\ shares[L] \in Nat
    BY <1>5, <1>7, <1>8
  <2> QED  BY <1>5, <1>7, <2>1
<1>10. Levels(c, most, esp - Last(shares))
  <2>1. \A k \in 1 .. L - 1 : k \in 1 .. L /\ k \in 0 .. L - 1 /\ k - 1 \in 0 .. L - 1
    BY <1>4
  <2> QED  BY <1>5, <1>7, <1>8, <1>9, <2>1 DEF Levels
<1>11. Held(e, n + 1, vs, off, c)
  <2>1. Held(e, n + 1, vs, off, b)
    BY <1>1, <1>3, SameHeld
  <2>2. ASSUME NEW v \in DOMAIN vs, Open(e, n + 1, vs, v)
        PROVE  Len(vs[v].path) - 1 \in 0 .. L - 1
    <3>1. d[vs[v].tok] <= e[n + 1]
      BY <1>1, <2>2, SameScopes
    <3>2. d[vs[v].tok] <= d[n] - 1
      BY <3>1
    <3>3. d[vs[v].tok] \in Nat /\ d[n] \in Nat /\ Len(vs[v].path) = d[vs[v].tok] + 1
      BY OpenDepth
    <3>4. L = d[n]
      BY <1>1, <1>4, <3>3
    <3>5. \A x, y \in Nat : x <= y - 1 => (x + 1) - 1 \in 0 .. y - 1
      OBVIOUS
    <3> QED  BY <3>2, <3>3, <3>4, <3>5
  <2> QED  BY <1>8, <2>1, <2>2 DEF Held
<1>12. Len(most) = Len(Front(p)) - 1
  BY <1>4, <1>5, <1>6
<1> QED
  BY <1>2, <1>5, <1>9, <1>10, <1>11, <1>12 DEF LaidOut, most

\* A variable outside the frame: a global, or the parameter of a function, around
\* which there are only globals.
LEMMA LaidOutside ==
    ASSUME NEW n \in Nat \ {0}, NEW d, NEW p, NEW id, NEW vs, Scoped(d, n, p, id, vs),
           d[n - 1] <= d[n], VarsOK(d, n - 1, id, vs),
           NEW w \in Variable, w.tok = n, w.path = p,
           NEW off, NEW shares, NEW esp, LaidOut(d, n, p, vs, off, shares, esp),
           NEW o \in {0, 4},
           o = 4 => /\ w.size = 4 /\ Len(p) >= 2
                    /\ \A u \in DOMAIN vs : Open(d, n, vs, u) => off[u] = 0
    PROVE  LaidOut(d, n, p, Append(vs, w), Append(off, o), shares, esp)
<1> DEFINE all == Append(vs, w)
           new == Len(vs) + 1
           places == Append(off, o)
<1>1. d \in [0 .. n -> Nat] /\ VarsOK(d, n, id, vs) /\ vs \in Seq(Variable) /\ p \in Seq(Nat) /\ Len(p) \in Nat
  BY DEF Scoped, PathOK, VarsOK
<1>2. /\ Len(vs) \in Nat /\ DOMAIN all = 1 .. new /\ DOMAIN vs = 1 .. Len(vs) /\ Len(all) = new
      /\ all[new] = w /\ \A u \in DOMAIN vs : all[u] = vs[u]
  BY <1>1, Appended
<1>3. DOMAIN all = DOMAIN vs \cup {new}
  BY <1>2
<1>4. off \in Seq(Int) /\ Len(off) = Len(vs) /\ o \in Int
  BY DEF LaidOut
<1>5. /\ places \in Seq(Int) /\ Len(places) = new /\ places[new] = o
      /\ \A u \in DOMAIN vs : places[u] = off[u]
  BY <1>2, <1>4, Appended
<1>6. /\ \A u \in DOMAIN vs : /\ Under(d, all, u, new) <=> Open(d, n, vs, u)
                              /\ Open(d, n, all, u) <=> Open(d, n, vs, u)
                              /\ ~ Under(d, all, new, u)
      /\ \A u, v \in DOMAIN vs : Under(d, all, u, v) <=> Under(d, vs, u, v)
      /\ ~ Under(d, all, new, new)
  BY <1>1, UnderNew
<1> HIDE DEF all, new, places
<1>7. ASSUME NEW v \in DOMAIN all
      PROVE  /\ places[v] \in Int
             /\ \/ places[v] = 0
                \/ places[v] = 4 /\ all[v].size = 4
                \/ places[v] + all[v].size <= -stackBase
             /\ places[v] # 0 => Len(all[v].path) >= 2
  <2>1. CASE v \in DOMAIN vs
    BY <1>2, <1>5, <2>1 DEF LaidOut, PlacesOK
  <2>2. CASE v = new
    BY <1>2, <1>4, <1>5, <2>2
  <2> QED  BY <1>3, <2>1, <2>2
<1>8. ASSUME NEW u \in DOMAIN all, NEW v \in DOMAIN all, Under(d, all, u, v)
      PROVE  /\ places[v] = 4 => places[u] = 0
             /\ places[u] < 0 /\ places[v] < 0 => places[v] + all[v].size <= places[u]
  <2>1. u \in DOMAIN vs
    BY <1>3, <1>6, <1>8
  <2>2. CASE v \in DOMAIN vs
    BY ZenonT(60), <1>2, <1>5, <1>6, <1>8, <2>1, <2>2 DEF LaidOut, PlacesOK
  <2>3. CASE v = new
    <3>1. Open(d, n, vs, u)
      BY <1>6, <1>8, <2>1, <2>3
    <3>2. ~ (o < 0)
      OBVIOUS
    <3> QED  BY <1>5, <2>1, <2>3, <3>1, <3>2
  <2> QED  BY <1>3, <2>2, <2>3
<1>9. PICK b : Levels(b, shares, esp) /\ Held(d, n, vs, off, b)
  BY DEF LaidOut
<1>10. Held(d, n, all, places, b)
  <2> SUFFICES ASSUME NEW v \in DOMAIN all, places[v] < 0, Open(d, n, all, v)
               PROVE  -places[v] <= b[Len(all[v].path) - 1]
    BY DEF Held
  <2>1. v # new
    <3>1. ~ (o < 0)
      OBVIOUS
    <3> QED  BY <1>5, <3>1
  <2>2. v \in DOMAIN vs /\ off[v] < 0 /\ Open(d, n, vs, v) /\ all[v] = vs[v]
    BY <1>2, <1>3, <1>5, <1>6, <2>1
  <2>3. -off[v] <= b[Len(vs[v].path) - 1]
    BY <1>9, <2>2 DEF Held
  <2> QED  BY <1>5, <2>2, <2>3
<1>11. PlacesOK(d, all, places)
  BY <1>7, <1>8 DEF PlacesOK
<1> QED
  BY <1>2, <1>5, <1>9, <1>10, <1>11 DEF LaidOut, all, places

\* A local variable: Fun::locate.
LEMMA LaidLocal ==
    ASSUME NEW n \in Nat \ {0}, NEW d, NEW p, NEW id, NEW vs, Scoped(d, n, p, id, vs),
           d[n - 1] <= d[n], VarsOK(d, n - 1, id, vs), Len(p) >= 2,
           NEW w \in Variable, w.tok = n, w.path = p,
           NEW off, NEW shares, NEW esp, LaidOut(d, n, p, vs, off, shares, esp),
           NEW room \in Nat, w.size <= room
    PROVE  /\ LaidOut(d, n, p, Append(vs, w), Append(off, -(esp + room)),
                      [shares EXCEPT ![Len(shares)] = @ + room], esp + room)
           /\ esp \in Nat /\ -(esp + room) < 0
<1> DEFINE all == Append(vs, w)
           new == Len(vs) + 1
           o == -(esp + room)
           places == Append(off, o)
           L == Len(shares)
           more == [shares EXCEPT ![L] = @ + room]
<1>1. d \in [0 .. n -> Nat] /\ VarsOK(d, n, id, vs) /\ vs \in Seq(Variable) /\ p \in Seq(Nat) /\ Len(p) \in Nat
  BY DEF Scoped, PathOK, VarsOK
<1>2. /\ Len(vs) \in Nat /\ DOMAIN all = 1 .. new /\ DOMAIN vs = 1 .. Len(vs) /\ Len(all) = new
      /\ all[new] = w /\ \A u \in DOMAIN vs : all[u] = vs[u]
  BY <1>1, Appended
<1>3. DOMAIN all = DOMAIN vs \cup {new}
  BY <1>2
<1>4. PICK b : Levels(b, shares, esp) /\ Held(d, n, vs, off, b)
  BY DEF LaidOut
<1>5. shares \in Seq(Nat) /\ L = Len(p) - 1 /\ L \in Nat /\ L \in 1 .. L /\ shares[L] \in Nat
  <2>1. shares \in Seq(Nat) /\ L = Len(p) - 1
    BY DEF LaidOut
  <2>2. L \in Nat /\ L \in 1 .. L
    BY <1>1, <2>1
  <2> QED  BY <2>1, <2>2
<1>6. /\ b \in [0 .. L -> Nat] /\ b[0] = stackBase /\ esp = b[L]
      /\ \A k \in 1 .. L : b[k] = b[k - 1] + shares[k]
      /\ \A j, k \in 0 .. L : j <= k => b[j] <= b[k]
  BY <1>4 DEF Levels
<1>7. 0 \in 0 .. L /\ L \in 0 .. L /\ 0 <= L /\ L - 1 \in 0 .. L - 1 /\ \A k \in 0 .. L - 1 : k \in 0 .. L /\ k # L
  BY <1>5
<1>8. esp \in Nat /\ stackBase <= esp
  BY <1>6, <1>7
<1>9. o \in Int /\ o < 0 /\ o + w.size <= -esp /\ o + w.size <= -stackBase
  <2>1. w.size \in Nat
    BY DEF Variable
  <2> QED  BY <1>8, <2>1 DEF stackBase
<1>10. off \in Seq(Int) /\ Len(off) = Len(vs)
  BY DEF LaidOut
<1>11. /\ places \in Seq(Int) /\ Len(places) = new /\ places[new] = o
       /\ \A u \in DOMAIN vs : places[u] = off[u]
  BY <1>2, <1>9, <1>10, Appended
<1>12. /\ \A u \in DOMAIN vs : /\ Under(d, all, u, new) <=> Open(d, n, vs, u)
                               /\ Open(d, n, all, u) <=> Open(d, n, vs, u)
                               /\ ~ Under(d, all, new, u)
       /\ \A u, v \in DOMAIN vs : Under(d, all, u, v) <=> Under(d, vs, u, v)
       /\ ~ Under(d, all, new, new)
  BY <1>1, UnderNew
<1>13. /\ more \in Seq(Nat) /\ Len(more) = L /\ more[L] = shares[L] + room
       /\ \A k \in 1 .. L - 1 : more[k] = shares[k]
  <2>1. shares[L] + room \in Nat
    BY <1>5
  <2> QED  BY <1>5, <2>1
<1> DEFINE c == [k \in 0 .. L |-> IF k = L THEN b[L] + room ELSE b[k]]
<1>14. /\ c \in [0 .. L -> Nat] /\ c[L] = b[L] + room /\ \A k \in 0 .. L - 1 : c[k] = b[k]
       /\ \A k \in 0 .. L : b[k] <= c[k] /\ b[k] \in Nat
  <2> HIDE DEF L
  <2>1. b[L] + room \in Nat /\ b[L] <= b[L] + room
    BY <1>6, <1>7
  <2>2. \A k \in 0 .. L : b[k] \in Nat /\ b[k] <= b[k]
    BY <1>6
  <2> QED  BY <1>7, <2>1, <2>2
<1> HIDE DEF all, new, places, L, more, c, o
<1>15. Levels(c, more, esp + room)
  <2>1. c[0] = stackBase
    <3>1. 0 \in 0 .. L - 1
      BY <1>5
    <3> QED  BY <1>6, <1>14, <3>1
  <2>2. ASSUME NEW k \in 1 .. L  PROVE c[k] = c[k - 1] + more[k]
    <3>1. k - 1 \in 0 .. L - 1 /\ k - 1 \in 0 .. L
      BY <1>5
    <3>2. c[k - 1] = b[k - 1] /\ b[k] = b[k - 1] + shares[k] /\ b[k - 1] \in Nat
      BY <1>6, <1>14, <3>1
    <3>3. CASE k = L
      <4>1. c[k] = b[k] + room /\ more[k] = shares[k] + room /\ shares[k] \in Nat
        BY <1>5, <1>13, <1>14, <3>3
      <4> QED  BY <3>2, <4>1
    <3>4. CASE k # L
      <4>1. k \in 1 .. L - 1 /\ k \in 0 .. L - 1
        BY <1>5, <3>4
      <4> QED  BY <1>13, <1>14, <3>2, <4>1
    <3> QED  BY <3>3, <3>4
  <2>3. ASSUME NEW j \in 0 .. L, NEW k \in 0 .. L, j <= k  PROVE c[j] <= c[k]
    <3>1. CASE j = L
      <4>1. k = L
        BY <1>5, <2>3, <3>1
      <4>2. c[L] \in Nat
        BY <1>7, <1>14
      <4> QED  BY <3>1, <4>1, <4>2
    <3>2. CASE j # L
      <4>1. j \in 0 .. L - 1
        BY <1>5, <3>2
      <4>2. c[j] = b[j] /\ b[j] <= b[k] /\ b[k] <= c[k]
        BY <1>6, <1>14, <2>3, <4>1
      <4>3. b[j] \in Nat /\ b[k] \in Nat /\ c[k] \in Nat
        BY <1>14
      <4> QED  BY <4>2, <4>3
    <3> QED  BY <3>1, <3>2
  <2>4. esp + room = c[L]
    BY <1>6, <1>14
  <2> QED  BY <1>13, <1>14, <2>1, <2>2, <2>3, <2>4 DEF Levels
<1>16. ASSUME NEW v \in DOMAIN vs, Open(d, n, vs, v)
       PROVE  Len(vs[v].path) - 1 \in 0 .. L
  <2>1. Len(vs[v].path) <= Len(p) /\ Len(vs[v].path) \in Nat /\ Len(vs[v].path) \in 1 .. Len(vs[v].path)
    BY <1>16, OpenDepth
  <2>2. \A x \in Nat : x <= Len(p) /\ x \in 1 .. x => x - 1 \in 0 .. Len(p) - 1
    BY <1>1
  <2> QED  BY <1>5, <2>1, <2>2
<1>17. Held(d, n, all, places, c)
  <2> SUFFICES ASSUME NEW v \in DOMAIN all, places[v] < 0, Open(d, n, all, v)
               PROVE  -places[v] <= c[Len(all[v].path) - 1]
    BY DEF Held
  <2>1. CASE v \in DOMAIN vs
    <3>1. off[v] < 0 /\ Open(d, n, vs, v) /\ all[v] = vs[v] /\ off[v] \in Int
      BY <1>2, <1>10, <1>11, <1>12, <2>1
    <3>2. -off[v] <= b[Len(vs[v].path) - 1]
      BY <1>4, <2>1, <3>1 DEF Held
    <3>3. Len(vs[v].path) - 1 \in 0 .. L
      BY <1>16, <2>1, <3>1
    <3>4. b[Len(vs[v].path) - 1] <= c[Len(vs[v].path) - 1] /\ b[Len(vs[v].path) - 1] \in Nat
          /\ c[Len(vs[v].path) - 1] \in Nat
      BY <1>14, <3>3
    <3> QED  BY SMTT(30), <1>11, <2>1, <3>1, <3>2, <3>4
  <2>2. CASE v = new
    <3>1. all[v].path = p /\ Len(p) - 1 = L
      BY <1>2, <1>5, <2>2
    <3>2. -places[v] = esp + room
      BY <1>8, <1>11, <2>2 DEF o
    <3>3. c[L] = esp + room /\ esp + room \in Nat
      BY <1>6, <1>8, <1>14
    <3> QED  BY <3>1, <3>2, <3>3
  <2> QED  BY <1>3, <2>1, <2>2
<1>18. ASSUME NEW v \in DOMAIN all
       PROVE  /\ places[v] \in Int
              /\ \/ places[v] = 0
                 \/ places[v] = 4 /\ all[v].size = 4
                 \/ places[v] + all[v].size <= -stackBase
              /\ places[v] # 0 => Len(all[v].path) >= 2
  <2>1. CASE v \in DOMAIN vs
    BY <1>2, <1>11, <2>1 DEF LaidOut, PlacesOK
  <2>2. CASE v = new
    BY <1>2, <1>9, <1>11, <2>2
  <2> QED  BY <1>3, <2>1, <2>2
<1>19. ASSUME NEW u \in DOMAIN all, NEW v \in DOMAIN all, Under(d, all, u, v)
       PROVE  /\ places[v] = 4 => places[u] = 0
              /\ places[u] < 0 /\ places[v] < 0 => places[v] + all[v].size <= places[u]
  <2>1. u \in DOMAIN vs
    BY <1>3, <1>12, <1>19
  <2>2. CASE v \in DOMAIN vs
    BY <1>2, <1>11, <1>12, <1>19, <2>1, <2>2 DEF LaidOut, PlacesOK
  <2>3. CASE v = new
    <3>1. Open(d, n, vs, u)
      BY <1>12, <1>19, <2>1, <2>3
    <3>2. places[v] = o /\ all[v].size = w.size /\ places[u] = off[u] /\ off[u] \in Int
      BY <1>2, <1>10, <1>11, <2>1, <2>3
    <3>3. places[v] # 4
      BY <1>9, <3>2
    <3>4. ASSUME off[u] < 0  PROVE o + w.size <= off[u]
      <4>1. Len(vs[u].path) - 1 \in 0 .. L /\ -off[u] <= b[Len(vs[u].path) - 1]
        BY <1>4, <1>16, <2>1, <3>1, <3>4 DEF Held
      <4>2. b[Len(vs[u].path) - 1] <= b[L] /\ b[Len(vs[u].path) - 1] \in Nat /\ b[L] \in Nat
        <5>1. \A x \in 0 .. L : x <= L
          BY <1>5
        <5> QED  BY <1>6, <1>7, <4>1, <5>1
      <4>3. -esp <= off[u]
        BY <1>6, <3>2, <4>1, <4>2
      <4>4. w.size \in Nat
        BY DEF Variable
      <4> QED  BY <1>8, <1>9, <3>2, <4>3, <4>4
    <3> QED  BY <3>2, <3>3, <3>4
  <2> QED  BY <1>3, <2>2, <2>3
<1>20. PlacesOK(d, all, places)
  BY <1>18, <1>19 DEF PlacesOK
<1>21. /\ LaidOut(d, n, p, all, places, more, esp + room)
       /\ esp \in Nat /\ o < 0
  BY <1>2, <1>5, <1>8, <1>9, <1>11, <1>13, <1>15, <1>17, <1>20 DEF LaidOut
<1> QED
  BY <1>21 DEF all, places, more, L, o

-----------------------------------------------------------------------------
(* The code *)

LEMMA CodeLonger ==
    ASSUME NEW n \in Nat, NEW d \in [0 .. n -> Nat], NEW e, Longer(d, n, e),
           NEW id, NEW vs, VarsOK(d, n, id, vs), NEW off, NEW c,
           CodeOK(d, n, vs, off, c), KeptOK(d, n, vs, off, c)
    PROVE  CodeOK(e, n + 1, vs, off, c) /\ KeptOK(e, n + 1, vs, off, c)
<1>1. /\ \A u, v \in DOMAIN vs : Under(e, vs, u, v) <=> Under(d, vs, u, v)
      /\ \A v \in DOMAIN vs : Open(e, n + 1, vs, v) => Open(d, n, vs, v)
  BY SameScopes
<1>2. \A k \in DOMAIN c : c[k].op = "dec" => c[k].res \in DOMAIN vs
  BY DEF CodeOK
<1>3. \A k, m \in DOMAIN c : k < m /\ c[k].op = "dec" =>
          /\ c[m].op = "dec" => c[k].res < c[m].res
          /\ c[m].op = "entry" => ~ Open(e, n + 1, vs, c[k].res)
  BY <1>1, <1>2 DEF CodeOK
<1>4. \A k, h, m \in DOMAIN c :
          k < h /\ h < m /\ c[k].op = "dec" /\ c[h].op = "entry" /\ c[m].op = "dec" =>
             ~ Under(e, vs, c[k].res, c[m].res)
  BY <1>1, <1>2 DEF CodeOK
<1>5. CodeOK(e, n + 1, vs, off, c)
  BY <1>3, <1>4 DEF CodeOK
<1>6. KeptOK(e, n + 1, vs, off, c)
  BY <1>1 DEF KeptOK
<1> QED
  BY <1>5, <1>6

\* A variable more.
LEMMA CodeVar ==
    ASSUME NEW n \in Nat \ {0}, NEW d \in [0 .. n -> Nat], d[n - 1] <= d[n],
           NEW id, NEW vs, VarsOK(d, n - 1, id, vs), NEW w \in Variable, w.tok = n,
           NEW off \in Seq(Int), Len(off) = Len(vs), NEW o \in Int, NEW c,
           CodeOK(d, n, vs, off, c), KeptOK(d, n, vs, off, c)
    PROVE  /\ CodeOK(d, n, Append(vs, w), Append(off, o), c)
           /\ KeptOK(d, n, Append(vs, w), Append(off, o), c)
           /\ \A top : DeepOK(off, c, top) => DeepOK(Append(off, o), c, top)
           /\ \A k \in DOMAIN c : c[k].op = "dec" => c[k].res < Len(vs) + 1
<1> DEFINE all == Append(vs, w)
           new == Len(vs) + 1
           places == Append(off, o)
<1>1. vs \in Seq(Variable)
  BY DEF VarsOK
<1>2. /\ Len(vs) \in Nat /\ DOMAIN all = 1 .. new /\ DOMAIN vs = 1 .. Len(vs)
      /\ all[new] = w /\ \A u \in DOMAIN vs : all[u] = vs[u]
  BY <1>1, Appended
<1>3. DOMAIN all = DOMAIN vs \cup {new} /\ new \notin DOMAIN vs /\ \A u \in DOMAIN vs : u < new
  <2>1. \A m \in Nat : m + 1 \notin 1 .. m /\ (\A u \in 1 .. m : u < m + 1) /\ 1 .. m + 1 = (1 .. m) \cup {m + 1}
    OBVIOUS
  <2> QED  BY <1>2, <2>1
<1>4. \A u \in DOMAIN vs : places[u] = off[u]
  BY <1>2, Appended
<1>5. /\ \A u \in DOMAIN vs : Open(d, n, all, u) <=> Open(d, n, vs, u)
      /\ \A u, v \in DOMAIN vs : Under(d, all, u, v) <=> Under(d, vs, u, v)
  BY UnderNew
<1> HIDE DEF all, new, places
<1>6. \A k \in DOMAIN c : c[k].op \in {"dec", "op", "as"} => c[k].res \in DOMAIN vs
  BY DEF CodeOK
<1>7. \A k \in DOMAIN c : c[k].op = "dec" => c[k].res \in DOMAIN vs /\ places[c[k].res] = off[c[k].res]
  BY <1>4, <1>6
<1>8. CodeOK(d, n, all, places, c)
  <2>1. \A k \in DOMAIN c :
          /\ {c[k].res, c[k].arg} \subseteq DOMAIN all \cup {None}
          /\ c[k].op \in {"dec", "op", "as"} => c[k].res \in DOMAIN all
          /\ c[k].op = "dec" => places[c[k].res] < 0
    BY <1>3, <1>7 DEF CodeOK
  <2>2. \A k, m \in DOMAIN c : k < m /\ c[k].op = "dec" =>
          /\ c[m].op = "dec" => c[k].res < c[m].res
          /\ c[m].op = "entry" => ~ Open(d, n, all, c[k].res)
    BY <1>5, <1>7 DEF CodeOK
  <2>3. \A k, h, m \in DOMAIN c :
          k < h /\ h < m /\ c[k].op = "dec" /\ c[h].op = "entry" /\ c[m].op = "dec" =>
             ~ Under(d, all, c[k].res, c[m].res)
    BY <1>5, <1>7 DEF CodeOK
  <2> QED  BY <2>1, <2>2, <2>3 DEF CodeOK
<1>9. KeptOK(d, n, all, places, c)
  <2> SUFFICES ASSUME NEW j \in DOMAIN c, NEW k \in DOMAIN c, NEW v \in DOMAIN all, NEW x \in DOMAIN all,
                      j < k, Writes(c[j], v), Writes(c[k], x), v # x
               PROVE  /\ Open(d, n, all, v) => Clear(all, places, v, x)
                      /\ \A u \in DOMAIN c : k < u /\ c[u].arg = v => Clear(all, places, v, x)
    BY DEF KeptOK
  <2>1. v \in DOMAIN vs /\ x \in DOMAIN vs
    BY <1>6 DEF Writes
  <2>2. Clear(all, places, v, x) <=> Clear(vs, off, v, x)
    BY <1>2, <1>4, <2>1 DEF Clear
  <2> QED  BY <1>5, <2>1, <2>2 DEF KeptOK
<1>10. \A top : DeepOK(off, c, top) => DeepOK(places, c, top)
  BY <1>7 DEF DeepOK
<1> QED
  BY <1>3, <1>6, <1>8, <1>9, <1>10 DEF all, new, places

\* Two variables in scope are clear of each other.
LEMMA BothOpen ==
    ASSUME NEW n \in Nat, NEW d \in [0 .. n -> Nat], NEW id, NEW vs, VarsOK(d, n, id, vs),
           NEW off, PlacesOK(d, vs, off),
           NEW v \in DOMAIN vs, NEW w \in DOMAIN vs, v # w,
           Open(d, n, vs, v), Open(d, n, vs, w)
    PROVE  Clear(vs, off, v, w) /\ (vs[v].tok < vs[w].tok => Under(d, vs, v, w))
<1>1. v \in Nat /\ w \in Nat /\ vs[v].tok \in 1 .. n /\ vs[w].tok \in 1 .. n
      /\ vs[v].size \in Nat \ {0} /\ vs[w].size \in Nat \ {0}
  BY VariableFacts
<1>2. \A x, y \in DOMAIN vs : Open(d, n, vs, x) /\ vs[x].tok < vs[y].tok => Under(d, vs, x, y)
  <2>1. SUFFICES ASSUME NEW x \in DOMAIN vs, NEW y \in DOMAIN vs, Open(d, n, vs, x), vs[x].tok < vs[y].tok
                 PROVE  Under(d, vs, x, y)
    OBVIOUS
  <2>2. vs[x].tok \in 1 .. n /\ vs[y].tok \in 1 .. n
    BY VariableFacts
  <2>3. \A k \in vs[x].tok .. vs[y].tok - 1 : k \in vs[x].tok .. n
    BY <2>2
  <2> QED  BY <2>1, <2>3 DEF Open, Under
<1>3. \/ vs[v].tok < vs[w].tok
      \/ vs[w].tok < vs[v].tok
  <2>1. v < w \/ w < v
    BY <1>1
  <2> QED  BY <2>1 DEF VarsOK
<1>4. ASSUME NEW x \in DOMAIN vs, NEW y \in DOMAIN vs, Under(d, vs, x, y)
      PROVE  off[x] = 0 \/ off[y] = 0 \/ off[y] + vs[y].size <= off[x]
  <2>1. /\ off[x] \in Int /\ off[y] \in Int
        /\ vs[y].size \in Nat /\ vs[x].size \in Nat
        /\ off[x] = 0 \/ off[x] = 4 \/ off[x] + vs[x].size <= -stackBase
        /\ off[y] = 0 \/ off[y] = 4 \/ off[y] + vs[y].size <= -stackBase
        /\ off[y] = 4 => off[x] = 0
        /\ off[x] < 0 /\ off[y] < 0 => off[y] + vs[y].size <= off[x]
    BY <1>4, VariableFacts DEF PlacesOK
  <2> QED  BY <2>1 DEF stackBase
<1>5. Clear(vs, off, v, w)
  BY <1>2, <1>3, <1>4 DEF Clear
<1> QED
  BY <1>2, <1>5

\* An instruction more, other than a declaration, that writes and reads what is
\* in scope.
LEMMA CodeInst ==
    ASSUME NEW n \in Nat, NEW d \in [0 .. n -> Nat], NEW id, NEW vs, VarsOK(d, n, id, vs),
           NEW off, PlacesOK(d, vs, off), NEW c,
           CodeOK(d, n, vs, off, c), KeptOK(d, n, vs, off, c),
           NEW i \in Instruction, i.op # "dec", c = << >> => i.op = "entry",
           i.res # None => i.res \in DOMAIN vs /\ Open(d, n, vs, i.res),
           i.arg # None => i.arg \in DOMAIN vs /\ Open(d, n, vs, i.arg),
           i.op \in {"op", "as"} => i.res # None,
           i.op = "entry" => \A v \in DOMAIN vs : off[v] < 0 => ~ Open(d, n, vs, v)
    PROVE  /\ CodeOK(d, n, vs, off, Append(c, i))
           /\ KeptOK(d, n, vs, off, Append(c, i))
           /\ Append(c, i) # << >>
           /\ \A top : DeepOK(off, c, top) => DeepOK(off, Append(c, i), top)
           /\ i.op = "entry" => \A top : DeepOK(off, Append(c, i), top)
<1> DEFINE all == Append(c, i)
           last == Len(c) + 1
<1>1. c \in Seq(Instruction)
  BY DEF CodeOK
<1>2. /\ all \in Seq(Instruction) /\ Len(all) = last /\ Len(c) \in Nat /\ DOMAIN all = 1 .. last
      /\ DOMAIN c = 1 .. Len(c) /\ all[last] = i /\ \A k \in DOMAIN c : all[k] = c[k]
  BY <1>1, Appended
<1>3. /\ DOMAIN all = DOMAIN c \cup {last} /\ \A k \in DOMAIN c : k < last /\ ~ (last < k)
      /\ ~ (last < last) /\ DOMAIN c \subseteq Nat
  BY <1>2
<1>4. all # << >>
  BY <1>2
<1>5. all[1].op = "entry"
  <2>1. CASE c = << >>
    BY <1>2, <2>1
  <2>2. CASE c # << >>
    <3>1. 1 \in DOMAIN c /\ c[1].op = "entry"
      BY <1>1, <2>2 DEF CodeOK
    <3> QED  BY <1>2, <3>1
  <2> QED  BY <2>1, <2>2
<1> HIDE DEF all, last
<1>6. \A k \in DOMAIN all : all[k].op = "dec" => k \in DOMAIN c /\ k # last
  BY <1>2, <1>3
<1>7. CodeOK(d, n, vs, off, all)
  <2>1. ASSUME NEW k \in DOMAIN all
        PROVE  /\ {all[k].res, all[k].arg} \subseteq DOMAIN vs \cup {None}
               /\ all[k].op \in {"dec", "op", "as"} => all[k].res \in DOMAIN vs
               /\ all[k].op = "dec" => off[all[k].res] < 0
    <3>1. CASE k \in DOMAIN c
      BY <1>2, <3>1 DEF CodeOK
    <3>2. CASE k = last
      BY <1>2, <3>2
    <3> QED  BY <1>3, <3>1, <3>2
  <2>2. ASSUME NEW k \in DOMAIN all, NEW m \in DOMAIN all, k < m, all[k].op = "dec"
        PROVE  /\ all[m].op = "dec" => all[k].res < all[m].res
               /\ all[m].op = "entry" => ~ Open(d, n, vs, all[k].res)
    <3>1. k \in DOMAIN c /\ all[k] = c[k]
      BY <1>2, <1>6, <2>2
    <3>2. CASE m \in DOMAIN c
      BY <1>2, <2>2, <3>1, <3>2 DEF CodeOK
    <3>3. CASE m = last
      <4>1. c[k].res \in DOMAIN vs /\ off[c[k].res] < 0
        BY <2>2, <3>1 DEF CodeOK
      <4> QED  BY <1>2, <3>1, <3>3, <4>1
    <3> QED  BY <1>3, <3>2, <3>3
  <2>3. ASSUME NEW k \in DOMAIN all, NEW h \in DOMAIN all, NEW m \in DOMAIN all,
               k < h, h < m, all[k].op = "dec", all[h].op = "entry", all[m].op = "dec"
        PROVE  ~ Under(d, vs, all[k].res, all[m].res)
    <3>1. k \in DOMAIN c /\ m \in DOMAIN c
      BY <1>6, <2>3
    <3>2. h \in DOMAIN c
      BY <1>3, <2>3, <3>1
    <3> QED  BY <1>2, <2>3, <3>1, <3>2 DEF CodeOK
  <2> QED  BY <1>2, <1>5, <2>1, <2>2, <2>3 DEF CodeOK
<1>8. KeptOK(d, n, vs, off, all)
  <2> SUFFICES ASSUME NEW j \in DOMAIN all, NEW k \in DOMAIN all, NEW v \in DOMAIN vs, NEW w \in DOMAIN vs,
                      j < k, Writes(all[j], v), Writes(all[k], w), v # w
               PROVE  /\ Open(d, n, vs, v) => Clear(vs, off, v, w)
                      /\ \A u \in DOMAIN all : k < u /\ all[u].arg = v => Clear(vs, off, v, w)
    BY DEF KeptOK
  <2>1. j \in DOMAIN c
    BY <1>3
  <2>2. CASE k \in DOMAIN c
    <3>1. Open(d, n, vs, v) => Clear(vs, off, v, w)
      BY <1>2, <2>1, <2>2 DEF KeptOK
    <3>2. ASSUME NEW u \in DOMAIN all, k < u, all[u].arg = v  PROVE Clear(vs, off, v, w)
      <4>1. CASE u \in DOMAIN c
        BY <1>2, <2>1, <2>2, <3>2, <4>1 DEF KeptOK
      <4>2. CASE u = last
        <5>1. v # None
          <6>1. v \in Nat
            BY VariableFacts
          <6> QED  BY <6>1, NoneAssumption
        <5> QED  BY <1>2, <3>1, <3>2, <4>2, <5>1
      <4> QED  BY <1>3, <4>1, <4>2
    <3> QED  BY <3>1, <3>2
  <2>3. CASE k = last
    <3>1. i.op \in {"op", "as"} /\ i.res = w
      BY <1>2, <2>3 DEF Writes
    <3>2. Open(d, n, vs, w)
      BY <3>1
    <3>3. Open(d, n, vs, v) => Clear(vs, off, v, w)
      BY <3>2, BothOpen
    <3>4. \A u \in DOMAIN all : ~ (k < u)
      BY <1>3, <2>3
    <3> QED  BY <3>3, <3>4
  <2> QED  BY <1>3, <2>2, <2>3
<1>9. ASSUME NEW top, NEW k \in DOMAIN all, all[k].op = "dec", \A h \in k .. Len(all) : all[h].op # "entry"
      PROVE  /\ k \in DOMAIN c /\ all[k] = c[k] /\ i.op # "entry"
             /\ \A h \in k .. Len(c) : c[h].op # "entry"
  <2>1. k \in DOMAIN c /\ all[k] = c[k] /\ k \in Nat
    BY <1>2, <1>3, <1>6, <1>9
  <2>2. last \in k .. last /\ \A h \in k .. Len(c) : h \in k .. last /\ h \in DOMAIN c
    BY <1>2, <2>1 DEF last
  <2> QED  BY <1>2, <1>9, <2>1, <2>2
<1>10. \A top : DeepOK(off, c, top) => DeepOK(off, all, top)
  BY <1>9 DEF DeepOK
<1>11. i.op = "entry" => \A top : DeepOK(off, all, top)
  BY <1>9 DEF DeepOK
<1> QED
  BY <1>4, <1>7, <1>8, <1>10, <1>11 DEF all

\* The declaration of the last variable.
LEMMA CodeDec ==
    ASSUME NEW n \in Nat, NEW d \in [0 .. n -> Nat], NEW id, NEW vs, VarsOK(d, n, id, vs),
           NEW off, NEW c, c # << >>,
           CodeOK(d, n, vs, off, c), KeptOK(d, n, vs, off, c),
           NEW v \in DOMAIN vs, off[v] < 0,
           \A k \in DOMAIN c : c[k].op = "dec" => c[k].res < v,
           \A u \in DOMAIN vs : Under(d, vs, u, v) => Open(d, n, vs, u)
    PROVE  LET all == Append(c, Inst("dec", v, None)) IN
           /\ CodeOK(d, n, vs, off, all) /\ KeptOK(d, n, vs, off, all) /\ all # << >>
           /\ \A top, higher \in Int : DeepOK(off, c, top) /\ top <= higher /\ -off[v] <= higher
                 /\ off \in Seq(Int) /\ Len(off) = Len(vs) =>
                 DeepOK(off, all, higher)
<1> DEFINE i == Inst("dec", v, None)
           all == Append(c, i)
           last == Len(c) + 1
<1>1. c \in Seq(Instruction) /\ v \in Nat
  BY VariableFacts DEF CodeOK
<1>2. i \in Instruction /\ i.op = "dec" /\ i.res = v /\ i.arg = None
  BY <1>1 DEF Inst, Instruction
<1> HIDE DEF i
<1>3. /\ all \in Seq(Instruction) /\ Len(all) = last /\ Len(c) \in Nat /\ DOMAIN all = 1 .. last
      /\ DOMAIN c = 1 .. Len(c) /\ all[last] = i /\ \A k \in DOMAIN c : all[k] = c[k]
  BY <1>1, <1>2, Appended
<1>4. /\ DOMAIN all = DOMAIN c \cup {last} /\ \A k \in DOMAIN c : k < last /\ ~ (last < k)
      /\ ~ (last < last) /\ DOMAIN c \subseteq Nat
  BY <1>3
<1>5. all # << >> /\ all[1].op = "entry"
  <2>1. 1 \in DOMAIN c /\ c[1].op = "entry"
    BY <1>1 DEF CodeOK
  <2> QED  BY <1>3, <2>1
<1> HIDE DEF all, last
<1>6. CodeOK(d, n, vs, off, all)
  <2>1. ASSUME NEW k \in DOMAIN all
        PROVE  /\ {all[k].res, all[k].arg} \subseteq DOMAIN vs \cup {None}
               /\ all[k].op \in {"dec", "op", "as"} => all[k].res \in DOMAIN vs
               /\ all[k].op = "dec" => off[all[k].res] < 0
    <3>1. CASE k \in DOMAIN c
      BY <1>3, <3>1 DEF CodeOK
    <3>2. CASE k = last
      BY <1>2, <1>3, <3>2
    <3> QED  BY <1>4, <3>1, <3>2
  <2>2. ASSUME NEW k \in DOMAIN all, NEW m \in DOMAIN all, k < m, all[k].op = "dec"
        PROVE  /\ all[m].op = "dec" => all[k].res < all[m].res
               /\ all[m].op = "entry" => ~ Open(d, n, vs, all[k].res)
    <3>1. k \in DOMAIN c /\ all[k] = c[k]
      BY <1>3, <1>4, <2>2
    <3>2. CASE m \in DOMAIN c
      BY <1>3, <2>2, <3>1, <3>2 DEF CodeOK
    <3>3. CASE m = last
      BY <1>2, <1>3, <2>2, <3>1, <3>3
    <3> QED  BY <1>4, <3>2, <3>3
  <2>3. ASSUME NEW k \in DOMAIN all, NEW h \in DOMAIN all, NEW m \in DOMAIN all,
               k < h, h < m, all[k].op = "dec", all[h].op = "entry", all[m].op = "dec"
        PROVE  ~ Under(d, vs, all[k].res, all[m].res)
    <3>1. h \in DOMAIN c /\ k \in DOMAIN c
      BY <1>4, <2>3
    <3>2. CASE m \in DOMAIN c
      BY <1>3, <2>3, <3>1, <3>2 DEF CodeOK
    <3>3. CASE m = last
      <4>1. c[k].res \in DOMAIN vs /\ ~ Open(d, n, vs, c[k].res)
        BY <1>3, <2>3, <3>1 DEF CodeOK
      <4> QED  BY <1>2, <1>3, <3>1, <3>3, <4>1
    <3> QED  BY <1>4, <3>2, <3>3
  <2> QED  BY <1>3, <1>5, <2>1, <2>2, <2>3 DEF CodeOK
<1>7. KeptOK(d, n, vs, off, all)
  <2> SUFFICES ASSUME NEW j \in DOMAIN all, NEW k \in DOMAIN all, NEW x \in DOMAIN vs, NEW w \in DOMAIN vs,
                      j < k, Writes(all[j], x), Writes(all[k], w), x # w
               PROVE  /\ Open(d, n, vs, x) => Clear(vs, off, x, w)
                      /\ \A u \in DOMAIN all : k < u /\ all[u].arg = x => Clear(vs, off, x, w)
    BY DEF KeptOK
  <2>1. j \in DOMAIN c /\ k \in DOMAIN c
    BY <1>2, <1>3, <1>4 DEF Writes
  <2>2. Open(d, n, vs, x) => Clear(vs, off, x, w)
    BY <1>3, <2>1 DEF KeptOK
  <2>3. ASSUME NEW u \in DOMAIN all, k < u, all[u].arg = x  PROVE Clear(vs, off, x, w)
    <3>1. x # None
      <4>1. x \in Nat
        BY VariableFacts
      <4> QED  BY <4>1, NoneAssumption
    <3>2. u \in DOMAIN c
      BY <1>2, <1>3, <1>4, <2>3, <3>1
    <3> QED  BY <1>3, <2>1, <2>3, <3>2 DEF KeptOK
  <2> QED  BY <2>2, <2>3
<1>8. ASSUME NEW top \in Int, NEW higher \in Int, DeepOK(off, c, top), top <= higher, -off[v] <= higher,
             off \in Seq(Int), Len(off) = Len(vs)
      PROVE  DeepOK(off, all, higher)
  <2> SUFFICES ASSUME NEW k \in DOMAIN all, all[k].op = "dec", \A h \in k .. Len(all) : all[h].op # "entry"
               PROVE  -off[all[k].res] <= higher
    BY DEF DeepOK
  <2>1. CASE k = last
    BY <1>2, <1>3, <1>8, <2>1
  <2>2. CASE k \in DOMAIN c
    <3>1. \A h \in k .. Len(c) : h \in k .. last /\ h \in DOMAIN c
      BY <1>3, <2>2 DEF last
    <3>2. -off[c[k].res] <= top
      BY <1>3, <1>8, <2>2, <3>1 DEF DeepOK
    <3>3. off[c[k].res] \in Int
      <4>1. c[k].res \in DOMAIN vs
        BY <1>3, <2>2 DEF CodeOK
      <4>2. vs \in Seq(Variable)
        BY DEF VarsOK
      <4> QED  BY SMTT(30), <1>8, <4>1, <4>2
    <3>4. \A x \in Int : -x <= top => -x <= higher
      BY <1>8
    <3>5. -off[c[k].res] <= higher
      BY <3>2, <3>3, <3>4
    <3> QED  BY <1>3, <2>2, <3>5
  <2> QED  BY <1>4, <2>1, <2>2
<1> QED
  BY <1>5, <1>6, <1>7, <1>8 DEF all, i

-----------------------------------------------------------------------------
(* Steps of the whole *)

\* The variables lie at their depths.
LEMMA VarsEarlier ==
    ASSUME NEW n \in Nat, NEW d \in [0 .. n -> Nat], NEW e, Longer(d, n, e),
           NEW id, NEW vs, VarsOK(d, n, id, vs), NEW i \in Nat, id \in Nat, id <= i
    PROVE  VarsOK(e, n, i, vs)
<1>1. ASSUME NEW v \in DOMAIN vs
      PROVE  /\ vs[v].tok \in 1 .. n /\ Len(vs[v].path) = e[vs[v].tok] + 1
             /\ vs[v].path[1] = 0 /\ \A k \in DOMAIN vs[v].path : vs[v].path[k] <= i
  <2>1. vs[v].tok \in 1 .. n /\ Len(vs[v].path) = d[vs[v].tok] + 1 /\ vs[v].path[1] = 0
    BY VariableFacts
  <2>2. vs[v].tok \in 0 .. n
    BY <2>1
  <2>3. ASSUME NEW k \in DOMAIN vs[v].path  PROVE vs[v].path[k] <= i
    <3>1. vs[v].path[k] \in Nat
      BY SMTT(30), VariableFacts
    <3>2. vs[v].path[k] <= id
      BY DEF VarsOK
    <3> QED  BY <3>1, <3>2
  <2> QED  BY <2>1, <2>2, <2>3 DEF Longer
<1> QED
  BY <1>1 DEF VarsOK

LEMMA FramedNeutral ==
    ASSUME NEW n, NEW d, NEW p, NEW id, NEW vs, NEW off, NEW shares, NEW esp, NEW c, NEW top,
           Framed(d, n, p, id, vs, off, shares, esp, c, top),
           NEW e, Longer(d, n, e), e[n + 1] = d[n]
    PROVE  Framed(e, n + 1, p, id, vs, off, shares, esp, c, top)
<1>1. n \in Nat /\ d \in [0 .. n -> Nat] /\ VarsOK(d, n, id, vs)
  BY DEF Framed, Scoped, PathOK
<1>2. Scoped(e, n + 1, p, id, vs)
  BY ScopedNeutral DEF Framed
<1>3. LaidOut(e, n + 1, p, vs, off, shares, esp)
  BY LaidNeutral DEF Framed
<1>4. CodeOK(e, n + 1, vs, off, c) /\ KeptOK(e, n + 1, vs, off, c)
  BY <1>1, CodeLonger DEF Framed
<1> QED
  BY <1>2, <1>3, <1>4 DEF Framed

LEMMA FramedPush ==
    ASSUME NEW n, NEW d, NEW p, NEW id, NEW vs, NEW off, NEW shares, NEW esp, NEW c, NEW top,
           Framed(d, n, p, id, vs, off, shares, esp, c, top),
           NEW e, Longer(d, n, e), e[n + 1] = d[n] + 1
    PROVE  Framed(e, n + 1, Append(p, id + 1), id + 1, vs, off, Append(shares, 0), esp, c, top)
<1>1. n \in Nat /\ d \in [0 .. n -> Nat] /\ VarsOK(d, n, id, vs)
  BY DEF Framed, Scoped, PathOK
<1>2. Scoped(e, n + 1, Append(p, id + 1), id + 1, vs)
  BY ScopedPush DEF Framed
<1>3. LaidOut(e, n + 1, Append(p, id + 1), vs, off, Append(shares, 0), esp)
  BY LaidPush DEF Framed
<1>4. CodeOK(e, n + 1, vs, off, c) /\ KeptOK(e, n + 1, vs, off, c)
  BY <1>1, CodeLonger DEF Framed
<1> QED
  BY <1>2, <1>3, <1>4 DEF Framed

LEMMA FramedPop ==
    ASSUME NEW n, NEW d, NEW p, NEW id, NEW vs, NEW off, NEW shares, NEW esp, NEW c, NEW top,
           Framed(d, n, p, id, vs, off, shares, esp, c, top), Len(p) > 1,
           NEW e, Longer(d, n, e), e[n + 1] = d[n] - 1
    PROVE  /\ Framed(e, n + 1, Front(p), id, vs, off, Front(shares), esp - Last(shares), c, top)
           /\ esp \in Nat /\ Last(shares) \in Nat /\ esp - Last(shares) \in Nat
<1>1. n \in Nat /\ d \in [0 .. n -> Nat] /\ VarsOK(d, n, id, vs)
  BY DEF Framed, Scoped, PathOK
<1>2. Scoped(e, n + 1, Front(p), id, vs)
  BY ScopedPop DEF Framed
<1>3. /\ LaidOut(e, n + 1, Front(p), vs, off, Front(shares), esp - Last(shares))
      /\ esp \in Nat /\ Last(shares) \in Nat /\ esp - Last(shares) \in Nat
  BY LaidPop DEF Framed
<1>4. CodeOK(e, n + 1, vs, off, c) /\ KeptOK(e, n + 1, vs, off, c)
  BY <1>1, CodeLonger DEF Framed
<1> QED
  BY <1>2, <1>3, <1>4 DEF Framed

\* A higher bound is a bound.
LEMMA FramedInst ==
    ASSUME NEW n, NEW d, NEW p, NEW id, NEW vs, NEW off, NEW shares, NEW esp, NEW c, NEW top,
           Framed(d, n, p, id, vs, off, shares, esp, c, top),
           NEW i \in Instruction, i.op # "dec", c = << >> => i.op = "entry",
           i.res # None => i.res \in DOMAIN vs /\ Open(d, n, vs, i.res),
           i.arg # None => i.arg \in DOMAIN vs /\ Open(d, n, vs, i.arg),
           i.op \in {"op", "as"} => i.res # None,
           i.op = "entry" => \A v \in DOMAIN vs : off[v] < 0 => ~ Open(d, n, vs, v),
           NEW any, i.op = "entry" \/ any = top
    PROVE  Framed(d, n, p, id, vs, off, shares, esp, Append(c, i), any) /\ Append(c, i) # << >>
<1>1. /\ n \in Nat /\ d \in [0 .. n -> Nat] /\ VarsOK(d, n, id, vs) /\ PlacesOK(d, vs, off)
      /\ CodeOK(d, n, vs, off, c) /\ KeptOK(d, n, vs, off, c) /\ DeepOK(off, c, top)
  BY DEF Framed, Scoped, PathOK, LaidOut
<1>2. /\ CodeOK(d, n, vs, off, Append(c, i)) /\ KeptOK(d, n, vs, off, Append(c, i))
      /\ Append(c, i) # << >>
      /\ \A t : DeepOK(off, c, t) => DeepOK(off, Append(c, i), t)
      /\ i.op = "entry" => \A t : DeepOK(off, Append(c, i), t)
  BY <1>1, CodeInst
<1>3. DeepOK(off, Append(c, i), any)
  BY <1>1, <1>2
<1> QED
  BY <1>2, <1>3 DEF Framed

\* A variable outside the frame.
LEMMA FramedOutside ==
    ASSUME NEW n \in Nat \ {0}, NEW d, NEW p, NEW id, NEW vs, NEW off, NEW shares, NEW esp, NEW c, NEW top,
           Framed(d, n, p, id, vs, off, shares, esp, c, top),
           d[n - 1] <= d[n], VarsOK(d, n - 1, id, vs),
           NEW w \in Variable, w.tok = n, w.path = p,
           NEW o \in {0, 4},
           o = 4 => /\ w.size = 4 /\ Len(p) >= 2
                    /\ \A u \in DOMAIN vs : Open(d, n, vs, u) => off[u] = 0
    PROVE  Framed(d, n, p, id, Append(vs, w), Append(off, o), shares, esp, c, top)
<1>1. /\ d \in [0 .. n -> Nat] /\ off \in Seq(Int) /\ Len(off) = Len(vs) /\ o \in Int
      /\ CodeOK(d, n, vs, off, c) /\ KeptOK(d, n, vs, off, c) /\ DeepOK(off, c, top)
  BY DEF Framed, Scoped, PathOK, LaidOut
<1>2. Scoped(d, n, p, id, Append(vs, w))
  BY ScopedVar DEF Framed
<1>3. LaidOut(d, n, p, Append(vs, w), Append(off, o), shares, esp)
  <2>1. Scoped(d, n, p, id, vs) /\ LaidOut(d, n, p, vs, off, shares, esp)
    BY DEF Framed
  <2> QED  BY <2>1, LaidOutside
<1>4. /\ CodeOK(d, n, Append(vs, w), Append(off, o), c)
      /\ KeptOK(d, n, Append(vs, w), Append(off, o), c)
      /\ \A t : DeepOK(off, c, t) => DeepOK(Append(off, o), c, t)
  BY <1>1, CodeVar
<1> QED
  BY <1>1, <1>2, <1>3, <1>4 DEF Framed

\* A local variable and its declaration.
LEMMA FramedLocal ==
    ASSUME NEW n \in Nat \ {0}, NEW d, NEW p, NEW id, NEW vs, NEW off, NEW shares, NEW esp, NEW c,
           NEW top \in Int, c # << >>,
           Framed(d, n, p, id, vs, off, shares, esp, c, top),
           d[n - 1] <= d[n], VarsOK(d, n - 1, id, vs), Len(p) >= 2,
           NEW w \in Variable, w.tok = n, w.path = p,
           NEW room \in Nat, w.size <= room,
           NEW higher \in Int, top <= higher, esp + room <= higher
    PROVE  LET all == Append(vs, w) IN
           /\ Framed(d, n, p, id, all, Append(off, -(esp + room)),
                     [shares EXCEPT ![Len(shares)] = @ + room], esp + room,
                     Append(c, Inst("dec", Len(vs) + 1, None)), higher)
           /\ Append(c, Inst("dec", Len(vs) + 1, None)) # << >>
           /\ Len(vs) + 1 \in DOMAIN all /\ Open(d, n, all, Len(vs) + 1)
           /\ \A u \in DOMAIN vs : u \in DOMAIN all /\ (Open(d, n, vs, u) => Open(d, n, all, u))
<1> DEFINE all == Append(vs, w)
           new == Len(vs) + 1
           o == -(esp + room)
           places == Append(off, o)
<1>1. /\ d \in [0 .. n -> Nat] /\ off \in Seq(Int) /\ Len(off) = Len(vs)
      /\ CodeOK(d, n, vs, off, c) /\ KeptOK(d, n, vs, off, c) /\ DeepOK(off, c, top)
      /\ Scoped(d, n, p, id, vs) /\ LaidOut(d, n, p, vs, off, shares, esp)
      /\ VarsOK(d, n, id, vs) /\ vs \in Seq(Variable)
  BY DEF Framed, Scoped, PathOK, LaidOut, VarsOK
<1>2. Scoped(d, n, p, id, all)
  BY ScopedVar DEF Framed
<1>3. /\ LaidOut(d, n, p, all, places, [shares EXCEPT ![Len(shares)] = @ + room], esp + room)
      /\ esp \in Nat /\ o < 0
  BY <1>1, LaidLocal
<1>4. o \in Int /\ -o <= higher
  BY <1>3
<1>5. /\ CodeOK(d, n, all, places, c) /\ KeptOK(d, n, all, places, c)
      /\ \A t : DeepOK(off, c, t) => DeepOK(places, c, t)
      /\ \A k \in DOMAIN c : c[k].op = "dec" => c[k].res < new
  <2> HIDE DEF o
  <2> QED  BY <1>1, <1>4, CodeVar
<1>6. /\ new \in DOMAIN all /\ places[new] = o /\ places \in Seq(Int) /\ Len(places) = Len(all)
      /\ DOMAIN all = DOMAIN vs \cup {new}
  <2>1. /\ Len(all) = new /\ DOMAIN all = 1 .. new /\ DOMAIN vs = 1 .. Len(vs) /\ Len(vs) \in Nat
    BY <1>1, Appended
  <2>2. /\ Len(places) = new /\ places[new] = o /\ places \in Seq(Int)
    <3> HIDE DEF o
    <3> QED  BY <1>1, <1>4, Appended
  <2>3. \A m \in Nat : m + 1 \in 1 .. m + 1 /\ 1 .. m + 1 = (1 .. m) \cup {m + 1}
    OBVIOUS
  <2> QED  BY <2>1, <2>2, <2>3
<1>7. /\ \A u \in DOMAIN vs : /\ Under(d, all, u, new) <=> Open(d, n, vs, u)
                              /\ Open(d, n, all, u) <=> Open(d, n, vs, u)
      /\ Open(d, n, all, new) /\ ~ Under(d, all, new, new)
  BY <1>1, UnderNew
<1>8. VarsOK(d, n, id, all)
  BY <1>2 DEF Scoped
<1> HIDE DEF all, new, places, o
<1>9. \A u \in DOMAIN all : Under(d, all, u, new) => Open(d, n, all, u)
  BY <1>6, <1>7
<1> DEFINE code2 == Append(c, Inst("dec", new, None))
<1>10. /\ CodeOK(d, n, all, places, code2) /\ KeptOK(d, n, all, places, code2) /\ code2 # << >>
       /\ \A t, h \in Int : DeepOK(places, c, t) /\ t <= h /\ -places[new] <= h
             /\ places \in Seq(Int) /\ Len(places) = Len(all) =>
             DeepOK(places, code2, h)
  <2>1. places[new] < 0
    BY <1>3, <1>6
  <2> QED  BY <1>1, <1>5, <1>6, <1>8, <1>9, <2>1, CodeDec
<1>11. DeepOK(places, code2, higher)
  BY <1>1, <1>4, <1>5, <1>6, <1>10
<1> QED
  BY <1>2, <1>3, <1>6, <1>7, <1>10, <1>11 DEF Framed, all, new, places, o

-----------------------------------------------------------------------------
(* Names *)

\* The variables of a name that are in scope.
OpenNamed(d, n, vs, name) == {v \in DOMAIN vs : vs[v].name = name /\ Open(d, n, vs, v)}

\* The tokens that declare them.
TokensOf(vs, found) == {vs[v].tok : v \in found}

\* Declarations and Meant, of any tokens and their depths.
DeclarationsOf(s, d, name, t) ==
    {x \in 1 .. t - 1 : /\ s[x].kind \in {"declare", "fun"} /\ s[x].name = name
                        /\ x < t /\ \A e \in x .. t - 1 : d[e] >= d[x]}

MeantOf(s, d, name, t) ==
    LET all == DeclarationsOf(s, d, name, t) IN
    IF all = {} THEN None ELSE CHOOSE x \in all : \A y \in all : y <= x

\* The one of the longest path, and of these the first.
Nearest(vs, found) ==
    CHOOSE i \in found : \A j \in found :
        \/ Len(vs[j].path) < Len(vs[i].path)
        \/ Len(vs[j].path) = Len(vs[i].path) /\ i <= j

LEMMA DeclarationsNext ==
    \A name, t : /\ Declarations(name, t)' = DeclarationsOf(src', Depth', name, t)
                 /\ Meant(name, t)' = MeantOf(src', Depth', name, t)
BY DEF Declarations, InScope, DeclarationsOf, Meant, MeantOf

\* What getVar looks for is what is in scope.
LEMMA FoundOpen ==
    ASSUME NEW n, NEW d, NEW p, NEW id, NEW vs, Scoped(d, n, p, id, vs), NEW v \in DOMAIN vs
    PROVE  /\ Open(d, n, vs, v) <=>
                 /\ Len(vs[v].path) <= Len(p)
                 /\ vs[v].path[Len(vs[v].path)] = p[Len(vs[v].path)]
           /\ vs[v].path[Len(vs[v].path)] = p[Len(p)] <=>
                 Open(d, n, vs, v) /\ d[vs[v].tok] = d[n]
<1>1. /\ Open(d, n, vs, v) => Prefix(vs[v].path, p)
      /\ ~ Open(d, n, vs, v) => \A k \in DOMAIN p : vs[v].path[Len(vs[v].path)] # p[k]
      /\ Fork(vs[v].path, p)
  BY DEF Scoped, OpenOK
<1>2. /\ Len(vs[v].path) \in Nat /\ Len(vs[v].path) \in DOMAIN vs[v].path /\ Len(p) \in Nat
      /\ DOMAIN p = 1 .. Len(p) /\ Len(p) = d[n] + 1 /\ d[n] \in Nat /\ d[vs[v].tok] \in Nat
      /\ Len(vs[v].path) = d[vs[v].tok] + 1 /\ DOMAIN vs[v].path = 1 .. Len(vs[v].path)
  BY OpenDepth
<1>3. Len(p) \in DOMAIN p /\ Len(vs[v].path) \in 1 .. Len(vs[v].path)
  BY <1>2
<1>4. Len(vs[v].path) <= Len(p) => Len(vs[v].path) \in DOMAIN p
  BY <1>2
<1>5. Open(d, n, vs, v) => /\ Len(vs[v].path) <= Len(p)
                           /\ vs[v].path[Len(vs[v].path)] = p[Len(vs[v].path)]
  BY <1>1, <1>3 DEF Prefix
<1>6. Len(vs[v].path) = Len(p) <=> d[vs[v].tok] = d[n]
  BY <1>2
<1>7. vs[v].path[Len(vs[v].path)] = p[Len(p)] => Len(vs[v].path) = Len(p)
  BY <1>1, <1>2, <1>3 DEF Fork
<1> QED
  BY <1>1, <1>3, <1>4, <1>5, <1>6, <1>7

\* The declarations of a name in scope are its variables in scope.
LEMMA DeclaredOpen ==
    ASSUME NEW T, NEW s \in Seq(T), NEW token \in T, NEW p, NEW id,
           NEW d, NEW e, Longer(d, Len(s), e),
           NEW vs, Scoped(d, Len(s), p, id, vs), Declared(s, d, Len(s), vs),
           NEW name, name # None
    PROVE  DeclarationsOf(Append(s, token), e, name, Len(s) + 1) =
              TokensOf(vs, OpenNamed(d, Len(s), vs, name))
<1> DEFINE r == Append(s, token)
           n == Len(s)
<1>1. /\ n \in Nat /\ d \in [0 .. n -> Nat] /\ VarsOK(d, n, id, vs)
      /\ \A k \in 0 .. n : e[k] = d[k]
      /\ \A k \in 1 .. n : r[k] = s[k]
  BY Appended DEF Scoped, PathOK, Longer
<1> HIDE DEF r, n
<1>2. (n + 1) - 1 = n /\ \A x \in 1 .. n : x < n + 1
  BY <1>1
<1>3. \A x \in 1 .. n : (\A k \in x .. n : e[k] >= e[x]) <=> (\A k \in x .. n : d[k] >= d[x])
  <2>1. \A x \in 1 .. n : x \in 0 .. n /\ \A k \in x .. n : k \in 0 .. n
    BY <1>1
  <2> QED  BY <1>1, <2>1
<1>4. ASSUME NEW x \in DeclarationsOf(r, e, name, n + 1)
      PROVE  x \in {vs[v].tok : v \in OpenNamed(d, n, vs, name)}
  <2>1. /\ x \in 1 .. n /\ s[x].kind \in {"declare", "fun"} /\ s[x].name = name
        /\ \A k \in x .. n : d[k] >= d[x]
    BY <1>1, <1>2, <1>3 DEF DeclarationsOf
  <2>2. PICK v \in DOMAIN vs : vs[v].tok = x /\ vs[v].name = name
    BY <2>1 DEF Declared, n
  <2>3. v \in OpenNamed(d, n, vs, name)
    BY <2>1, <2>2 DEF OpenNamed, Open
  <2> QED  BY <2>2, <2>3
<1>5. ASSUME NEW v \in OpenNamed(d, n, vs, name)
      PROVE  vs[v].tok \in DeclarationsOf(r, e, name, n + 1)
  <2>1. v \in DOMAIN vs /\ vs[v].name = name /\ Open(d, n, vs, v)
    BY DEF OpenNamed
  <2>2. vs[v].tok \in 1 .. n
    BY <1>1, <2>1, VariableFacts
  <2>3. s[vs[v].tok].kind \in {"declare", "fun"} /\ s[vs[v].tok].name = name
    BY <2>1 DEF Declared
  <2>4. \A k \in vs[v].tok .. n : e[k] >= e[vs[v].tok]
    BY <1>3, <2>1, <2>2 DEF Open
  <2> QED  BY <1>1, <1>2, <2>2, <2>3, <2>4 DEF DeclarationsOf
<1> QED
  BY <1>4, <1>5 DEF r, n, TokensOf

\* The nearest variable of a name is the one of its latest declaration in scope.
LEMMA NearestMeant ==
    ASSUME NEW T, NEW s \in Seq(T), NEW token \in T, NEW p, NEW id,
           NEW d, NEW e, Longer(d, Len(s), e),
           NEW vs, Scoped(d, Len(s), p, id, vs), Declared(s, d, Len(s), vs),
           NEW name, name # None
    PROVE  LET found == OpenNamed(d, Len(s), vs, name)
               meant == MeantOf(Append(s, token), e, name, Len(s) + 1)
           IN  /\ found = {} <=> meant = None
               /\ found # {} => /\ Nearest(vs, found) \in found
                                /\ meant = vs[Nearest(vs, found)].tok
<1>0. DeclarationsOf(Append(s, token), e, name, Len(s) + 1) =
         TokensOf(vs, OpenNamed(d, Len(s), vs, name))
  BY DeclaredOpen
<1> DEFINE n == Len(s)
           found == OpenNamed(d, n, vs, name)
           all == DeclarationsOf(Append(s, token), e, name, n + 1)
           meant == MeantOf(Append(s, token), e, name, n + 1)
<1>1. all = {vs[v].tok : v \in found}
  BY <1>0 DEF TokensOf
<1>2. n \in Nat /\ d \in [0 .. n -> Nat] /\ VarsOK(d, n, id, vs) /\ vs \in Seq(Variable)
  BY DEF Scoped, PathOK, VarsOK
<1>3. meant = IF all = {} THEN None ELSE CHOOSE x \in all : \A y \in all : y <= x
  BY DEF MeantOf
<1>4. found \subseteq DOMAIN vs /\ DOMAIN vs = 1 .. Len(vs) /\ Len(vs) \in Nat
      /\ \A v \in found : vs[v].name = name /\ Open(d, n, vs, v)
  BY <1>2 DEF OpenNamed
<1> HIDE DEF found, all, meant, n
<1>5. CASE found = {}
  <2>1. all = {}
    BY <1>1, <1>5
  <2> QED  BY <1>3, <1>5, <2>1 DEF found, meant, n
<1>6. CASE found # {}
  <2>1. found \in SUBSET (0 .. Len(vs))
    BY <1>4
  <2>2. PICK g \in found : \A j \in found : j <= g
    BY <1>4, <1>6, <2>1, Greatest
  <2>3. ASSUME NEW u \in found, NEW v \in found, u < v
        PROVE  Len(vs[u].path) < Len(vs[v].path) /\ vs[u].tok < vs[v].tok
    <3>1. u \in DOMAIN vs /\ v \in DOMAIN vs /\ u # v
      BY <1>4, <2>3
    <3>2. vs[u].tok < vs[v].tok
      BY <1>2, <2>3, <3>1 DEF VarsOK
    <3>3. Under(d, vs, u, v)
      <4>1. vs[u].tok \in 1 .. n /\ vs[v].tok \in 1 .. n
        BY <1>2, <3>1, VariableFacts
      <4>2. \A k \in vs[u].tok .. vs[v].tok - 1 : k \in vs[u].tok .. n
        BY <1>2, <4>1
      <4> QED  BY <1>4, <3>2, <4>2 DEF Open, Under
    <3> QED  BY <1>4, <3>1, <3>2, <3>3 DEF Declared
  <2>4. \A v \in found : v \in Nat /\ Len(vs[v].path) \in Nat /\ vs[v].tok \in Nat
    <3>1. ASSUME NEW v \in found  PROVE v \in Nat /\ Len(vs[v].path) \in Nat /\ vs[v].tok \in Nat
      <4>1. v \in DOMAIN vs
        BY <1>4
      <4>2. v \in Nat /\ Len(vs[v].path) \in Nat /\ vs[v].tok \in 1 .. n
        BY <1>2, <4>1, VariableFacts
      <4> QED  BY <4>2
    <3> QED  BY <3>1
  <2>5. \A j \in found : \/ Len(vs[j].path) < Len(vs[g].path)
                         \/ Len(vs[j].path) = Len(vs[g].path) /\ g <= j
    <3> TAKE j \in found
    <3>1. CASE j = g
      BY <2>4, <3>1
    <3>2. CASE j # g
      <4>1. j < g
        BY <2>2, <2>4, <3>2
      <4> QED  BY <2>3, <4>1
    <3> QED  BY <3>1, <3>2
  <2>6. ASSUME NEW i \in found,
               \A j \in found : \/ Len(vs[j].path) < Len(vs[i].path)
                                \/ Len(vs[j].path) = Len(vs[i].path) /\ i <= j
        PROVE  i = g
    <3>1. ~ (i < g)
      <4>1. SUFFICES ASSUME i < g  PROVE FALSE
        OBVIOUS
      <4>2. Len(vs[i].path) < Len(vs[g].path)
        BY <2>3, <4>1
      <4>3. \/ Len(vs[g].path) < Len(vs[i].path)
            \/ Len(vs[g].path) = Len(vs[i].path)
        BY <2>6
      <4> QED  BY <2>4, <4>2, <4>3
    <3> QED  BY <2>2, <2>4, <3>1
  <2>7. Nearest(vs, found) = g
    BY <2>5, <2>6 DEF Nearest
  <2>8. vs[g].tok \in all /\ \A y \in all : y <= vs[g].tok
    <3>1. \A j \in found : vs[j].tok <= vs[g].tok
      <4> TAKE j \in found
      <4>1. CASE j = g
        BY <2>4, <4>1
      <4>2. CASE j # g
        <5>1. j < g
          BY <2>2, <2>4, <4>2
        <5>2. vs[j].tok < vs[g].tok
          BY <2>3, <5>1
        <5> QED  BY <2>4, <5>2
      <4> QED  BY <4>1, <4>2
    <3> QED  BY <1>1, <3>1
  <2>9. ASSUME NEW x \in all, \A y \in all : y <= x  PROVE x = vs[g].tok
    <3>1. x \in Nat
      BY <1>1, <2>4
    <3>2. vs[g].tok <= x /\ x <= vs[g].tok
      BY <2>8, <2>9
    <3> QED  BY <2>4, <3>1, <3>2
  <2>10. meant = vs[g].tok
    BY <1>3, <2>8, <2>9
  <2>11. meant # None
    BY <2>4, <2>10, NoneAssumption
  <2> QED  BY <1>6, <2>7, <2>10, <2>11 DEF found, meant, n
<1> QED
  BY <1>5, <1>6

-----------------------------------------------------------------------------
(* The steps of the parser *)

\* What the invariant says of each variable by itself.
LEMMA ParseFacts ==
    ASSUME ParseInv
    PROVE  /\ src \in Seq(Tokens) /\ Len(src) \in Nat /\ Depth \in [0 .. Len(src) -> Nat]
           /\ Depth[Len(src)] \in Nat /\ Len(scopePath) = Depth[Len(src)] + 1
           /\ VarsOK(Depth, Len(src), scopeId, vars) /\ vars \in Seq(Variable) /\ Len(vars) \in Nat
           /\ scopePath \in Seq(Nat) /\ scopeId \in Nat /\ Len(scopePath) \in Nat
           /\ offset \in Seq(Int) /\ Len(offset) = Len(vars)
           /\ scopeEsp \in Seq(Nat) /\ Len(scopeEsp) = Len(scopePath) - 1
           /\ curEsp \in Nat /\ maxDepth \in Nat /\ Top \in Nat /\ curEsp <= Top /\ maxDepth <= Top
           /\ code \in Seq(Instruction)
           /\ Len(scopePath) = 1 => curEsp = stackBase /\ scopeEsp = << >>
<1>1. /\ src \in Seq(Tokens) /\ maxDepth \in Nat
      /\ Scoped(Depth, Len(src), scopePath, scopeId, vars)
      /\ LaidOut(Depth, Len(src), scopePath, vars, offset, scopeEsp, curEsp)
      /\ CodeOK(Depth, Len(src), vars, offset, code)
  BY DEF ParseInv, Typed, Framed
<1>2. /\ Len(src) \in Nat /\ Depth \in [0 .. Len(src) -> Nat] /\ Len(scopePath) = Depth[Len(src)] + 1
      /\ VarsOK(Depth, Len(src), scopeId, vars) /\ scopePath \in Seq(Nat) /\ scopeId \in Nat
  BY <1>1 DEF Scoped, PathOK
<1>3. vars \in Seq(Variable) /\ Len(vars) \in Nat /\ Len(scopePath) \in Nat
  BY <1>2 DEF VarsOK
<1>4. /\ offset \in Seq(Int) /\ Len(offset) = Len(vars)
      /\ scopeEsp \in Seq(Nat) /\ Len(scopeEsp) = Len(scopePath) - 1
  BY <1>1 DEF LaidOut
<1>5. PICK b : Levels(b, scopeEsp, curEsp)
  BY <1>1 DEF LaidOut
<1>6. b \in [0 .. Len(scopeEsp) -> Nat] /\ curEsp = b[Len(scopeEsp)] /\ b[0] = stackBase
  BY <1>5 DEF Levels
<1>7. Len(scopeEsp) \in 0 .. Len(scopeEsp) /\ Len(src) \in 0 .. Len(src)
  BY <1>2, <1>4
<1>8. curEsp \in Nat /\ Depth[Len(src)] \in Nat
  BY <1>2, <1>6, <1>7
<1>9. Top \in Nat /\ curEsp <= Top /\ maxDepth <= Top
  BY <1>1, <1>8 DEF Top
<1>10. ASSUME Len(scopePath) = 1  PROVE curEsp = stackBase /\ scopeEsp = << >>
  <2>1. Len(scopeEsp) = 0
    BY <1>4, <1>10
  <2>2. scopeEsp = << >>
    BY <1>4, <2>1, EmptySeq
  <2> QED  BY <1>6, <2>1, <2>2
<1> QED
  BY <1>1, <1>2, <1>3, <1>4, <1>8, <1>9, <1>10 DEF CodeOK

\* The next token.
LEMMA TokenStep ==
    ASSUME ParseInv, NEW token \in Tokens, src' = Append(src, token),
           NEW delta \in Int, Steps(token) = delta, Depth[Len(src)] + delta \in Nat
    PROVE  /\ src' \in Seq(Tokens) /\ Len(src') = Len(src) + 1 /\ Len(src') \in Nat \ {0}
           /\ Longer(Depth, Len(src), Depth')
           /\ Depth'[Len(src) + 1] = Depth[Len(src)] + delta
           /\ Depth' \in [0 .. Len(src') -> Nat] /\ Depth'[Len(src)] = Depth[Len(src)]
<1>1. src \in Seq(Tokens) /\ Len(src) \in Nat /\ Depth \in [0 .. Len(src) -> Nat] /\ Depth[Len(src)] \in Nat
  BY ParseFacts
<1>2. src' \in Seq(Tokens) /\ Len(src') = Len(src) + 1
  BY <1>1, Appended
<1>3. /\ \A k \in 0 .. Len(src) : DepthOf(Append(src, token))[k] = DepthOf(src)[k]
      /\ DepthOf(Append(src, token))[Len(src) + 1] = DepthOf(src)[Len(src)] + Steps(token)
      /\ DOMAIN DepthOf(Append(src, token)) = 0 .. Len(src) + 1
  BY <1>1, DepthOfBeginning
<1>4. Depth' = DepthOf(Append(src, token))
  BY DepthIsNext
<1>5. /\ \A k \in 0 .. Len(src) : Depth'[k] = Depth[k]
      /\ Depth'[Len(src) + 1] = Depth[Len(src)] + delta
      /\ DOMAIN Depth' = 0 .. Len(src) + 1
  BY <1>3, <1>4, DepthIs
<1>6. \A k \in 0 .. Len(src) + 1 : Depth'[k] \in Nat
  <2>1. \A k \in 0 .. Len(src) + 1 : k \in 0 .. Len(src) \/ k = Len(src) + 1
    BY <1>1
  <2> QED  BY <1>1, <1>5, <2>1
<1>7. Depth' = [k \in DOMAIN DepthOf(Append(src, token)) |-> DepthOf(Append(src, token))[k]]
  <2>1. src' = Append(src, token)
    OBVIOUS
  <2>2. DepthOf(Append(src, token)) = [k \in 0 .. Len(Append(src, token)) |->
            IF k = 0 THEN 0 ELSE DepthOf(Append(src, token))[k - 1] + Steps(Append(src, token)[k])]
    BY <1>2, <2>1, DepthOfDef
  <2>3. DepthOf(Append(src, token)) = [k \in DOMAIN DepthOf(Append(src, token)) |-> DepthOf(Append(src, token))[k]]
    BY <2>2
  <2> QED  BY <1>4, <2>3
<1>8. Depth' \in [0 .. Len(src) + 1 -> Nat]
  BY <1>4, <1>5, <1>6, <1>7
<1>9. Len(src) \in 0 .. Len(src)
  BY <1>1
<1> QED
  BY <1>1, <1>2, <1>5, <1>8, <1>9 DEF Longer

LEMMA DepthStays == src' = src => Depth' = Depth
BY DepthIs, DepthIsNext

\* What a step of the parser leaves to show: the rest of Typed.
LEMMA ParseNext ==
    ASSUME ParseInv, NEW token \in Tokens, src' = Append(src, token), deepest' = deepest,
           pc' \in {"parse", "rejected"}, curFun' \in BOOLEAN,
           curFun' <=> Len(scopePath') > 1, curFun' => code' # << >>,
           maxDepth' \in Nat, maxDepth' >= stackBase,
           Framed(Depth', Len(src'), scopePath', scopeId', vars', offset', scopeEsp', curEsp', code', Top'),
           pc' # "rejected" => Declared(src', Depth', Len(src'), vars')
    PROVE  ParseInv'
<1>1. src' \in Seq(Tokens)
  BY ParseFacts, Appended
<1>2. Typed'
  BY <1>1 DEF ParseInv, Typed
<1> QED
  BY <1>2 DEF ParseInv

\* A rejected token.
LEMMA RejectStep ==
    ASSUME ParseInv, pc = "parse", NEW token \in Tokens, Parsed(token), Reject, Steps(token) = 0
    PROVE  ParseInv'
<1>1. /\ src' = Append(src, token) /\ pc' = "rejected" /\ deepest' = deepest
      /\ scopeId' = scopeId /\ scopePath' = scopePath /\ vars' = vars /\ curFun' = curFun
      /\ curEsp' = curEsp /\ scopeEsp' = scopeEsp /\ maxDepth' = maxDepth
      /\ offset' = offset /\ code' = code
  BY DEF Parsed, Reject
<1>2. Depth[Len(src)] \in Nat /\ Depth[Len(src)] + 0 = Depth[Len(src)]
  BY ParseFacts
<1>3. /\ Len(src') = Len(src) + 1 /\ Longer(Depth, Len(src), Depth')
      /\ Depth'[Len(src) + 1] = Depth[Len(src)]
  BY <1>1, <1>2, TokenStep
<1>4. Top' = Top
  BY <1>1 DEF Top
<1>5. Framed(Depth, Len(src), scopePath, scopeId, vars, offset, scopeEsp, curEsp, code, Top)
  BY DEF ParseInv
<1>6. Framed(Depth', Len(src'), scopePath', scopeId', vars', offset', scopeEsp', curEsp', code', Top')
  BY <1>1, <1>3, <1>4, <1>5, FramedNeutral
<1> QED
  BY <1>1, <1>6, ParseNext DEF ParseInv, Typed

\* A declaration outside of functions.
LEMMA GlobalStep ==
    ASSUME ParseInv, pc = "parse", ~ curFun,
           NEW name \in Names, NEW size \in Nat \ {0}, NEW token \in Tokens, Steps(token) = 0,
           token.kind = "declare", token.name = name, Parsed(token),
           ~ Redefined(name), AddVar(name, size, << >>),
           UNCHANGED <<pc, scopeId, scopePath, curFun, maxDepth>>
    PROVE  ParseInv'
<1> DEFINE w == [name |-> name, path |-> scopePath, size |-> size, tok |-> Len(src) + 1]
<1>1. /\ src' = Append(src, token) /\ pc' = pc /\ deepest' = deepest
      /\ scopeId' = scopeId /\ scopePath' = scopePath /\ vars' = Append(vars, w) /\ curFun' = curFun
      /\ curEsp' = curEsp /\ scopeEsp' = scopeEsp /\ maxDepth' = maxDepth
      /\ offset' = Append(offset, 0) /\ code' = code
  BY DEF Parsed, AddVar
<1> HIDE DEF w
<1>2. Depth[Len(src)] \in Nat /\ Depth[Len(src)] + 0 = Depth[Len(src)] /\ Depth[Len(src)] <= Depth[Len(src)]
  BY SMTT(30), ParseFacts
<1>3. /\ Len(src') = Len(src) + 1 /\ Longer(Depth, Len(src), Depth')
      /\ Depth'[Len(src) + 1] = Depth[Len(src)]
      /\ Len(src') \in Nat \ {0} /\ Depth'[Len(src)] = Depth[Len(src)]
  BY <1>1, <1>2, TokenStep
<1>4. Top' = Top
  BY <1>1 DEF Top
<1>5. Framed(Depth, Len(src), scopePath, scopeId, vars, offset, scopeEsp, curEsp, code, Top)
      /\ Declared(src, Depth, Len(src), vars)
  BY DEF ParseInv
<1>6. Framed(Depth', Len(src'), scopePath, scopeId, vars, offset, scopeEsp, curEsp, code, Top)
  BY <1>3, <1>5, FramedNeutral
<1>7. /\ Len(src) \in Nat /\ Depth \in [0 .. Len(src) -> Nat] /\ scopeId \in Nat /\ scopeId <= scopeId
      /\ VarsOK(Depth, Len(src), scopeId, vars) /\ scopePath \in Seq(Nat) /\ src \in Seq(Tokens)
  BY SMTT(30), ParseFacts
<1>8. Len(src') - 1 = Len(src) /\ VarsOK(Depth', Len(src') - 1, scopeId, vars)
  <2>1. Len(src') - 1 = Len(src)
    BY <1>3, <1>7
  <2>2. VarsOK(Depth', Len(src), scopeId, vars)
    BY <1>3, <1>7, VarsEarlier
  <2> QED  BY <2>1, <2>2
<1>9. w \in Variable /\ w.tok = Len(src') /\ w.path = scopePath /\ w.name = name
  BY <1>3, <1>7 DEF w, Variable
<1>10. Depth'[Len(src') - 1] <= Depth'[Len(src')]
  BY <1>2, <1>3, <1>8
<1>11. Framed(Depth', Len(src'), scopePath, scopeId, Append(vars, w), Append(offset, 0), scopeEsp, curEsp, code, Top)
  <2>1. 0 \in {0, 4} /\ 0 # 4
    OBVIOUS
  <2> QED  BY <1>3, <1>6, <1>8, <1>9, <1>10, <2>1, FramedOutside
<1>12. ASSUME NEW u \in DOMAIN vars, Open(Depth, Len(src), vars, u), vars[u].name = name
       PROVE  Len(vars[u].path) < Len(w.path)
  <2>1. Scoped(Depth, Len(src), scopePath, scopeId, vars)
    BY <1>5 DEF Framed
  <2>2. vars[u].path[Len(vars[u].path)] # scopePath[Len(scopePath)]
    BY <1>12 DEF Redefined, Last
  <2>3. /\ Len(vars[u].path) <= Len(scopePath) /\ Depth[vars[u].tok] # Depth[Len(src)]
    BY <1>12, <2>1, <2>2, FoundOpen
  <2>4. /\ Len(vars[u].path) = Depth[vars[u].tok] + 1 /\ Len(scopePath) = Depth[Len(src)] + 1
        /\ Depth[vars[u].tok] \in Nat /\ Depth[Len(src)] \in Nat
    BY <2>1, OpenDepth
  <2> QED  BY <1>9, <2>3, <2>4
<1>13. Declared(src', Depth', Len(src'), vars')
  <2>1. w.tok = Len(src) + 1 /\ Depth[Len(src)] <= Depth'[Len(src) + 1]
    BY <1>2, <1>3, <1>9
  <2>2. Declared(Append(src, token), Depth', Len(src) + 1, Append(vars, w))
    BY <1>3, <1>5, <1>7, <1>9, <1>12, <2>1, DeclaredVar
  <2> QED  BY <1>1, <1>3, <2>2
<1>14. Framed(Depth', Len(src'), scopePath', scopeId', vars', offset', scopeEsp', curEsp', code', Top')
  BY <1>1, <1>4, <1>11
<1> QED
  BY <1>1, <1>13, <1>14, ParseNext DEF ParseInv, Typed

\* A variable of a function, with its declaration: what of AddVar does not depend
\* on the instructions that follow.
LEMMA LocalStep ==
    ASSUME ParseInv, pc = "parse", curFun,
           NEW name \in Names \cup {None}, NEW size \in Nat \ {0},
           NEW token \in Tokens, Steps(token) = 0, Parsed(token),
           \/ name = None /\ token.kind \notin {"declare", "fun"}
           \/ name = token.name /\ token.kind \in {"declare", "fun"},
           name # None => ~ Redefined(name),
           NEW more, AddVar(name, size, more),
           UNCHANGED <<pc, scopeId, scopePath, curFun, maxDepth>>
    PROVE  LET declared == Append(code, Inst("dec", New, None)) IN
           /\ Framed(Depth', Len(src'), scopePath', scopeId', vars', offset', scopeEsp', curEsp', declared, Top')
           /\ Declared(src', Depth', Len(src'), vars')
           /\ code' = declared \o more /\ declared # << >> /\ declared \in Seq(Instruction)
           /\ New \in DOMAIN vars' /\ New \in Nat /\ Open(Depth', Len(src'), vars', New)
           /\ \A u \in DOMAIN vars : /\ u \in DOMAIN vars' /\ vars'[u] = vars[u] /\ u \in Nat
                                     /\ Open(Depth, Len(src), vars, u) => Open(Depth', Len(src'), vars', u)
<1> DEFINE w == [name |-> name, path |-> scopePath, size |-> size, tok |-> Len(src) + 1]
           room == Words(size)
           dec == Inst("dec", New, None)
           declared == Append(code, dec)
<1>1. /\ src' = Append(src, token) /\ pc' = pc /\ deepest' = deepest
      /\ scopeId' = scopeId /\ scopePath' = scopePath /\ vars' = Append(vars, w) /\ curFun' = curFun
      /\ maxDepth' = maxDepth
      /\ curEsp' = curEsp + room
      /\ scopeEsp' = [scopeEsp EXCEPT ![Len(scopeEsp)] = @ + room]
      /\ offset' = Append(offset, -(curEsp + room))
  BY DEF Parsed, AddVar
<1>2. code' = code \o << dec >> \o more
  BY DEF AddVar
<1>3. code \in Seq(Instruction) /\ code # << >> /\ dec \in Instruction /\ declared \in Seq(Instruction)
  <2>1. code \in Seq(Instruction) /\ code # << >>
    BY ParseFacts DEF ParseInv
  <2>2. New \in Nat
    BY ParseFacts DEF New
  <2>3. dec \in Instruction
    BY <2>2 DEF Inst, Instruction
  <2> QED  BY <2>1, <2>3, Appended
<1>4. code' = declared \o more
  BY <1>2, <1>3, AppendIsConcat
<1> HIDE DEF w, room, dec, declared
<1>5. Depth[Len(src)] \in Nat /\ Depth[Len(src)] + 0 = Depth[Len(src)] /\ Depth[Len(src)] <= Depth[Len(src)]
  BY SMTT(30), ParseFacts
<1>6. /\ Len(src') = Len(src) + 1 /\ Longer(Depth, Len(src), Depth')
      /\ Depth'[Len(src) + 1] = Depth[Len(src)]
      /\ Len(src') \in Nat \ {0} /\ Depth'[Len(src)] = Depth[Len(src)]
  BY <1>1, <1>5, TokenStep
<1>7. room \in Nat /\ size <= room
  BY WordsHold DEF room
<1>8. Top \in Int /\ Top' \in Int /\ Top <= Top' /\ curEsp + room <= Top'
  <2>1. curEsp \in Nat /\ maxDepth \in Nat
    BY ParseFacts
  <2>2. curEsp' = curEsp + room /\ maxDepth' = maxDepth
    BY <1>1
  <2> QED  BY <1>7, <2>1, <2>2 DEF Top
<1>9. Framed(Depth, Len(src), scopePath, scopeId, vars, offset, scopeEsp, curEsp, code, Top)
      /\ Declared(src, Depth, Len(src), vars)
  BY DEF ParseInv
<1>10. Framed(Depth', Len(src'), scopePath, scopeId, vars, offset, scopeEsp, curEsp, code, Top)
  BY <1>6, <1>9, FramedNeutral
<1>11. /\ Len(src) \in Nat /\ Depth \in [0 .. Len(src) -> Nat] /\ scopeId \in Nat /\ scopeId <= scopeId
       /\ VarsOK(Depth, Len(src), scopeId, vars) /\ scopePath \in Seq(Nat) /\ src \in Seq(Tokens)
       /\ Len(scopePath) \in Nat /\ vars \in Seq(Variable) /\ Len(vars) \in Nat
  BY SMTT(30), ParseFacts
<1>12. Len(src') - 1 = Len(src) /\ VarsOK(Depth', Len(src') - 1, scopeId, vars)
  <2>1. Len(src') - 1 = Len(src)
    BY <1>6, <1>11
  <2>2. VarsOK(Depth', Len(src), scopeId, vars)
    BY <1>6, <1>11, VarsEarlier
  <2> QED  BY <2>1, <2>2
<1>13. w \in Variable /\ w.tok = Len(src') /\ w.path = scopePath /\ w.name = name /\ w.size = size
  <2>1. Len(src') \in Nat
    BY <1>6
  <2> QED  BY <1>6, <1>11, <2>1 DEF w, Variable
<1>14. Depth'[Len(src') - 1] <= Depth'[Len(src')]
  BY <1>5, <1>6, <1>12
<1>15. Len(scopePath) >= 2
  <2>1. Len(scopePath) > 1
    BY DEF ParseInv, Typed
  <2> QED  BY <1>11, <2>1
<1>16. /\ Framed(Depth', Len(src'), scopePath, scopeId, Append(vars, w), Append(offset, -(curEsp + room)),
                 [scopeEsp EXCEPT ![Len(scopeEsp)] = @ + room], curEsp + room,
                 Append(code, Inst("dec", Len(vars) + 1, None)), Top')
       /\ Append(code, Inst("dec", Len(vars) + 1, None)) # << >>
       /\ Len(vars) + 1 \in DOMAIN Append(vars, w) /\ Open(Depth', Len(src'), Append(vars, w), Len(vars) + 1)
       /\ \A u \in DOMAIN vars : u \in DOMAIN Append(vars, w)
             /\ (Open(Depth', Len(src'), vars, u) => Open(Depth', Len(src'), Append(vars, w), u))
  BY ZenonT(60), <1>3, <1>6, <1>7, <1>8, <1>10, <1>12, <1>13, <1>14, <1>15, FramedLocal
<1>17. ASSUME name # None, NEW u \in DOMAIN vars, Open(Depth, Len(src), vars, u), vars[u].name = name
       PROVE  Len(vars[u].path) < Len(w.path)
  <2>1. Scoped(Depth, Len(src), scopePath, scopeId, vars)
    BY <1>9 DEF Framed
  <2>2. vars[u].path[Len(vars[u].path)] # scopePath[Len(scopePath)]
    BY <1>17 DEF Redefined, Last
  <2>3. /\ Len(vars[u].path) <= Len(scopePath) /\ Depth[vars[u].tok] # Depth[Len(src)]
    BY <1>17, <2>1, <2>2, FoundOpen
  <2>4. /\ Len(vars[u].path) = Depth[vars[u].tok] + 1 /\ Len(scopePath) = Depth[Len(src)] + 1
        /\ Depth[vars[u].tok] \in Nat /\ Depth[Len(src)] \in Nat
    BY <2>1, OpenDepth
  <2> QED  BY <1>13, <2>3, <2>4
<1>18. Declared(src', Depth', Len(src'), vars')
  <2>1. w.tok = Len(src) + 1 /\ Depth[Len(src)] <= Depth'[Len(src) + 1]
    BY <1>5, <1>6, <1>13
  <2>2. \/ w.name = None /\ token.kind \notin {"declare", "fun"}
        \/ w.name = token.name /\ token.kind \in {"declare", "fun"}
    BY <1>13
  <2>3. w.name # None => \A u \in DOMAIN vars :
           Open(Depth, Len(src), vars, u) /\ vars[u].name = w.name => Len(vars[u].path) < Len(w.path)
    BY <1>13, <1>17
  <2>4. Declared(Append(src, token), Depth', Len(src) + 1, Append(vars, w))
    BY <1>6, <1>9, <1>11, <2>1, <2>2, <2>3, DeclaredVar
  <2> QED  BY <1>1, <1>6, <2>4
<1>19. /\ Framed(Depth', Len(src'), scopePath', scopeId', vars', offset', scopeEsp', curEsp', declared, Top')
       /\ declared # << >>
       /\ New \in DOMAIN vars' /\ Open(Depth', Len(src'), vars', New)
  BY <1>1, <1>16 DEF declared, dec, New
<1>20. New \in Nat
  BY <1>11 DEF New
<1>21. ASSUME NEW u \in DOMAIN vars
       PROVE  /\ u \in DOMAIN vars' /\ vars'[u] = vars[u] /\ u \in Nat
              /\ Open(Depth, Len(src), vars, u) => Open(Depth', Len(src'), vars', u)
  <2>1. vars'[u] = vars[u] /\ u \in Nat
    <3>1. u \in 1 .. Len(vars) /\ vars \in Seq(Variable)
      BY <1>11
    <3>2. Append(vars, w)[u] = vars[u]
      BY <1>13, <3>1, Appended
    <3> QED  BY <1>1, <3>1, <3>2
  <2>2. Open(Depth, Len(src), vars, u) => Open(Depth', Len(src'), vars, u)
    <3>1. Open(Depth', Len(src) + 1, vars, u) <=>
             Open(Depth, Len(src), vars, u) /\ Depth[vars[u].tok] <= Depth'[Len(src) + 1]
      BY <1>6, <1>11, SameScopes
    <3>2. Open(Depth, Len(src), vars, u) => Depth[vars[u].tok] <= Depth[Len(src)]
      BY <1>9, OpenDepth DEF Framed
    <3> QED  BY <1>6, <3>1, <3>2
  <2> QED  BY <1>1, <1>16, <2>1, <2>2
<1> QED
  BY <1>3, <1>4, <1>18, <1>19, <1>20, <1>21 DEF declared, dec

\* getVar finds what the name means.
LEMMA GetVarMeant ==
    ASSUME ParseInv, pc = "parse", NEW name \in Names,
           NEW token \in Tokens, Steps(token) = 0, src' = Append(src, token)
    PROVE  LET v == GetVar(name)
               meant == MeantOf(src', Depth', name, Len(src'))
           IN  /\ v = None <=> meant = None
               /\ v # None => /\ v \in DOMAIN vars /\ Open(Depth, Len(src), vars, v)
                              /\ meant = vars[v].tok
<1> DEFINE found == OpenNamed(Depth, Len(src), vars, name)
<1>1. /\ Scoped(Depth, Len(src), scopePath, scopeId, vars) /\ Declared(src, Depth, Len(src), vars)
      /\ src \in Seq(Tokens) /\ Depth[Len(src)] \in Nat /\ vars \in Seq(Variable)
  BY ParseFacts DEF ParseInv, Framed
<1>2. Len(src') = Len(src) + 1 /\ Longer(Depth, Len(src), Depth')
  <2>1. Depth[Len(src)] + 0 \in Nat
    BY <1>1
  <2> QED  BY <2>1, TokenStep
<1> DEFINE looked == {i \in DOMAIN vars : LET len == Len(vars[i].path) IN
                        /\ vars[i].name = name
                        /\ len <= Len(scopePath)
                        /\ vars[i].path[len] = scopePath[len]}
<1>3. looked = found
  BY <1>1, FoundOpen DEF OpenNamed
<1>4. GetVar(name) = IF found = {} THEN None ELSE Nearest(vars, found)
  <2>1. GetVar(name) = IF looked = {} THEN None ELSE Nearest(vars, looked)
    BY DEF GetVar, Nearest
  <2> HIDE DEF looked, found
  <2> QED  BY <1>3, <2>1
<1>5. name # None
  BY NoneAssumption
<1>6. MeantOf(src', Depth', name, Len(src')) = MeantOf(Append(src, token), Depth', name, Len(src) + 1)
  BY <1>2
<1>7. /\ found = {} <=> MeantOf(Append(src, token), Depth', name, Len(src) + 1) = None
      /\ found # {} => /\ Nearest(vars, found) \in found
                       /\ MeantOf(Append(src, token), Depth', name, Len(src) + 1) = vars[Nearest(vars, found)].tok
  BY SMTT(30), <1>1, <1>2, <1>5, NearestMeant
<1>8. \A v \in found : v \in DOMAIN vars /\ Open(Depth, Len(src), vars, v) /\ v # None
  <2>1. \A v \in DOMAIN vars : v \in Int
    BY <1>1
  <2> QED  BY <2>1, NoneAssumption DEF OpenNamed
<1> HIDE DEF found
<1> QED
  BY <1>4, <1>6, <1>7, <1>8

\* addVar refuses just what its own block declares already.
LEMMA RedefinedMeant ==
    ASSUME ParseInv, pc = "parse", NEW name \in Names,
           NEW token \in Tokens, Steps(token) = 0, src' = Append(src, token)
    PROVE  Redefined(name) <=>
               \E x \in DeclarationsOf(src', Depth', name, Len(src')) : Depth'[x] = Depth'[Len(src')]
<1>1. /\ Scoped(Depth, Len(src), scopePath, scopeId, vars) /\ Declared(src, Depth, Len(src), vars)
      /\ src \in Seq(Tokens) /\ Depth[Len(src)] \in Nat /\ Depth[Len(src)] + 0 = Depth[Len(src)]
      /\ Len(src) \in Nat /\ Depth \in [0 .. Len(src) -> Nat] /\ VarsOK(Depth, Len(src), scopeId, vars)
  <2>1. /\ src \in Seq(Tokens) /\ Depth[Len(src)] \in Nat /\ Len(src) \in Nat
        /\ Depth \in [0 .. Len(src) -> Nat] /\ VarsOK(Depth, Len(src), scopeId, vars)
    BY ParseFacts
  <2>2. Depth[Len(src)] + 0 = Depth[Len(src)]
    BY <2>1
  <2>3. Scoped(Depth, Len(src), scopePath, scopeId, vars) /\ Declared(src, Depth, Len(src), vars)
    BY DEF ParseInv, Framed
  <2> QED  BY <2>1, <2>2, <2>3
<1>2. Len(src') = Len(src) + 1 /\ Longer(Depth, Len(src), Depth') /\ Depth'[Len(src) + 1] = Depth[Len(src)]
  BY <1>1, TokenStep
<1>3. name # None
  BY NoneAssumption
<1>4. DeclarationsOf(Append(src, token), Depth', name, Len(src) + 1) =
         TokensOf(vars, OpenNamed(Depth, Len(src), vars, name))
  BY <1>1, <1>2, <1>3, DeclaredOpen
<1>5. ASSUME NEW v \in DOMAIN vars
      PROVE  /\ Last(vars[v].path) = Last(scopePath) <=>
                   Open(Depth, Len(src), vars, v) /\ Depth[vars[v].tok] = Depth[Len(src)]
             /\ Depth'[vars[v].tok] = Depth[vars[v].tok]
  <2>1. vars[v].path[Len(vars[v].path)] = scopePath[Len(scopePath)] <=>
           Open(Depth, Len(src), vars, v) /\ Depth[vars[v].tok] = Depth[Len(src)]
    BY <1>1, FoundOpen
  <2>2. vars[v].tok \in 1 .. Len(src)
    BY <1>1, VariableFacts
  <2>3. vars[v].tok \in 0 .. Len(src)
    BY <1>1, <2>2
  <2> QED  BY <1>2, <2>1, <2>3 DEF Last, Longer
<1>6. (\E x \in TokensOf(vars, OpenNamed(Depth, Len(src), vars, name)) : Depth'[x] = Depth[Len(src)])
      <=> \E v \in DOMAIN vars : vars[v].name = name /\ Open(Depth, Len(src), vars, v) /\ Depth'[vars[v].tok] = Depth[Len(src)]
  BY DEF TokensOf, OpenNamed
<1>7. Redefined(name) <=> \E x \in TokensOf(vars, OpenNamed(Depth, Len(src), vars, name)) : Depth'[x] = Depth[Len(src)]
  BY <1>5, <1>6 DEF Redefined
<1> QED
  BY <1>2, <1>4, <1>7

\* The last token and what it makes NamesResolve say.
LEMMA LastToken ==
    ASSUME ParseInv, NEW token \in Tokens, src' = Append(src, token)
    PROVE  src'[Len(src')] = token
<1>1. src \in Seq(Tokens)
  BY ParseFacts
<1>2. Append(src, token)[Len(src) + 1] = token /\ Len(Append(src, token)) = Len(src) + 1
  BY <1>1, Appended
<1> QED
  BY <1>2

LEMMA NamesDeclare ==
    ASSUME src'[Len(src')].kind = "declare",
           pc' = "rejected" <=>
              \E x \in DeclarationsOf(src', Depth', src'[Len(src')].name, Len(src')) : Depth'[x] = Depth'[Len(src')]
    PROVE  NamesResolve'
BY DeclarationsNext DEF NamesResolve

LEMMA NamesUse ==
    ASSUME src'[Len(src')].kind = "use",
           pc' = "rejected" <=> MeantOf(src', Depth', src'[Len(src')].name, Len(src')) = None,
           pc' # "rejected" => vars'[Last(code').arg].tok = MeantOf(src', Depth', src'[Len(src')].name, Len(src'))
    PROVE  NamesResolve'
BY DeclarationsNext DEF NamesResolve

LEMMA NamesAssign ==
    ASSUME src'[Len(src')].kind = "assign",
           pc' = "rejected" <=> MeantOf(src', Depth', src'[Len(src')].name, Len(src')) = None,
           pc' # "rejected" => vars'[Last(code').res].tok = MeantOf(src', Depth', src'[Len(src')].name, Len(src'))
    PROVE  NamesResolve'
BY DeclarationsNext DEF NamesResolve

LEMMA NamesCopy ==
    ASSUME src'[Len(src')].kind = "copy",
           pc' = "rejected" <=> None \in {MeantOf(src', Depth', src'[Len(src')].name, Len(src')),
                                          MeantOf(src', Depth', src'[Len(src')].size, Len(src'))},
           pc' # "rejected" =>
              /\ vars'[Last(code').res].tok = MeantOf(src', Depth', src'[Len(src')].name, Len(src'))
              /\ vars'[Last(code').arg].tok = MeantOf(src', Depth', src'[Len(src')].size, Len(src'))
    PROVE  NamesResolve'
BY DeclarationsNext DEF NamesResolve

LEMMA NamesOther ==
    ASSUME src'[Len(src')].kind \notin {"declare", "use", "assign", "copy"}, pc' # "rejected"
    PROVE  NamesResolve'
BY DEF NamesResolve

\* The kinds of tokens and what they are.
LEMMA TokenFacts ==
    /\ \A kind \in {"declare", "fun", "condition", "assign", "copy", "use", "enter", "leave"},
          name \in Names \cup {None}, size \in Sizes \cup {0} \cup Names :
          /\ Token(kind, name, size) \in Tokens /\ Token(kind, name, size).kind = kind
          /\ Token(kind, name, size).name = name /\ Token(kind, name, size).size = size
    /\ \A kind \in {"declare", "condition", "assign", "copy", "use"} : \A name, size :
          Steps(Token(kind, name, size)) = 0
    /\ \A kind \in {"fun", "enter"} : \A name, size : Steps(Token(kind, name, size)) = 1
    /\ \A name, size : Steps(Token("leave", name, size)) = -1
<1>1. \A kind \in {"declare", "fun", "condition", "assign", "copy", "use", "enter", "leave"},
          name \in Names \cup {None}, size \in Sizes \cup {0} \cup Names :
          /\ Token(kind, name, size) \in Tokens /\ Token(kind, name, size).kind = kind
          /\ Token(kind, name, size).name = name /\ Token(kind, name, size).size = size
  BY DEF Token, Tokens
<1>2. \A kind, name, size : Token(kind, name, size).kind = kind
  BY DEF Token
<1>3. \A kind \in {"declare", "condition", "assign", "copy", "use"} : \A name, size :
          Steps(Token(kind, name, size)) = 0
  BY <1>2 DEF Steps
<1>4. \A kind \in {"fun", "enter"} : \A name, size : Steps(Token(kind, name, size)) = 1
  BY <1>2 DEF Steps
<1>5. \A name, size : Steps(Token("leave", name, size)) = -1
  BY <1>2 DEF Steps
<1> QED
  BY <1>1, <1>3, <1>4, <1>5

LEMMA DeclareStep ==
    ASSUME ParseInv, Declare
    PROVE  ParseInv' /\ NamesResolve'
<1>1. PICK name \in Names, size \in Sizes :
         /\ Parsed(Token("declare", name, size))
         /\ IF Redefined(name) THEN Reject
            ELSE /\ AddVar(name, size, << >>)
                 /\ UNCHANGED <<pc, scopeId, scopePath, curFun, maxDepth>>
  BY DEF Declare
<1> DEFINE token == Token("declare", name, size)
<1>2. token \in Tokens /\ token.kind = "declare" /\ token.name = name /\ Steps(token) = 0
  BY TokenFacts
<1> HIDE DEF token
<1>3. pc = "parse" /\ src' = Append(src, token) /\ Parsed(token) /\ deepest' = deepest
  BY <1>1 DEF Parsed, token
<1>4. size \in Nat \ {0}
  BY SizesAssumption
<1>5. src'[Len(src')] = token
  BY <1>2, <1>3, LastToken
<1>6. Redefined(name) <=>
         \E x \in DeclarationsOf(src', Depth', name, Len(src')) : Depth'[x] = Depth'[Len(src')]
  BY <1>2, <1>3, RedefinedMeant
<1>7. CASE Redefined(name)
  <2>1. Reject /\ pc' = "rejected"
    BY <1>1, <1>7 DEF Reject
  <2>2. ParseInv'
    BY <1>2, <1>3, <2>1, RejectStep
  <2>3. NamesResolve'
    BY <1>2, <1>5, <1>6, <1>7, <2>1, NamesDeclare
  <2> QED  BY <2>2, <2>3
<1>8. CASE ~ Redefined(name)
  <2>1. AddVar(name, size, << >>) /\ UNCHANGED <<pc, scopeId, scopePath, curFun, maxDepth>>
    BY <1>1, <1>8
  <2>2. NamesResolve'
    BY <1>2, <1>3, <1>5, <1>6, <1>8, <2>1, NamesDeclare
  <2>3. CASE ~ curFun
    <3>1. ParseInv'
      BY <1>2, <1>3, <1>4, <1>8, <2>1, <2>3, GlobalStep
    <3> QED  BY <2>2, <3>1
  <2>4. CASE curFun
    <3> DEFINE declared == Append(code, Inst("dec", New, None))
    <3>1. /\ Framed(Depth', Len(src'), scopePath', scopeId', vars', offset', scopeEsp', curEsp', declared, Top')
          /\ Declared(src', Depth', Len(src'), vars')
          /\ code' = declared \o << >> /\ declared # << >> /\ declared \in Seq(Instruction)
      <4>1. name \in Names \cup {None}
        OBVIOUS
      <4>2. \/ name = None /\ token.kind \notin {"declare", "fun"}
            \/ name = token.name /\ token.kind \in {"declare", "fun"}
        BY <1>2
      <4> QED  BY <1>2, <1>3, <1>4, <1>8, <2>1, <2>4, <4>1, <4>2, LocalStep
    <3> HIDE DEF declared
    <3>2. code' = declared
      BY <3>1
    <3>3. ParseInv'
      <4>1. /\ pc' \in {"parse", "rejected"} /\ curFun' \in BOOLEAN /\ (curFun' <=> Len(scopePath') > 1)
            /\ maxDepth' \in Nat /\ maxDepth' >= stackBase /\ (curFun' => code' # << >>)
        BY <1>3, <2>1, <3>1, <3>2 DEF ParseInv, Typed
      <4> QED  BY <1>2, <1>3, <3>1, <3>2, <4>1, ParseNext
    <3> QED  BY <2>2, <3>3
  <2> QED  BY <2>3, <2>4
<1> QED
  BY <1>7, <1>8

\* Two elements appended at once.
LEMMA AppendTwo ==
    ASSUME NEW T, NEW s \in Seq(T), NEW a \in T, NEW b \in T
    PROVE  s \o << a, b >> = Append(Append(s, a), b)
<1>1. Append(s, a) = s \o << a >> /\ Append(s, a) \in Seq(T) /\ << a >> \in Seq(T) /\ << b >> \in Seq(T)
  BY AppendIsConcat
<1>2. Append(Append(s, a), b) = (s \o << a >>) \o << b >>
  BY <1>1, AppendIsConcat
<1>3. << a, b >> = << a >> \o << b >>
  <2>1. << a, b >> \in Seq(T) /\ Len(<< a, b >>) = 2 /\ << a, b >>[1] = a /\ << a, b >>[2] = b
    OBVIOUS
  <2>2. /\ Append(<< a >>, b) \in Seq(T) /\ Len(Append(<< a >>, b)) = 2
        /\ Append(<< a >>, b)[1] = a /\ Append(<< a >>, b)[2] = b
    BY <1>1
  <2>3. \A k \in 1 .. 2 : k = 1 \/ k = 2
    OBVIOUS
  <2>4. Append(<< a >>, b) = << a, b >>
    BY <2>1, <2>2, <2>3, SeqEqual
  <2> QED  BY <1>1, <2>4, AppendIsConcat
<1> QED
  BY <1>1, <1>2, <1>3, ConcatAssociative

\* An operation's temporary, and the instruction that uses it.
LEMMA OperationStep ==
    ASSUME ParseInv, NEW token \in Tokens, token.kind \in {"condition", "assign"}, Steps(token) = 0,
           NEW last \in Instruction, last.op \in {"use", "as"}, last.arg = New,
           last.op = "as" <=> last.res # None,
           last.res # None => last.res \in DOMAIN vars /\ Open(Depth, Len(src), vars, last.res),
           Operation(token, last)
    PROVE  /\ ParseInv' /\ pc = "parse" /\ pc' = "parse" /\ src' = Append(src, token)
           /\ Last(code') = last /\ \A u \in DOMAIN vars : vars'[u] = vars[u]
<1> DEFINE more == << Inst("op", New, None), last >>
           declared == Append(code, Inst("dec", New, None))
           first == Append(declared, Inst("op", New, None))
           both == Append(first, last)
<1>1. /\ curFun /\ Parsed(token) /\ pc = "parse" /\ src' = Append(src, token) /\ deepest' = deepest
      /\ AddVar(None, 4, more) /\ UNCHANGED <<pc, scopeId, scopePath, curFun, maxDepth>>
  BY DEF Operation, Parsed
<1>2. None \in Names \cup {None} /\ 4 \in Nat \ {0} /\ token.kind \notin {"declare", "fun"}
  OBVIOUS
<1>3. /\ Framed(Depth', Len(src'), scopePath', scopeId', vars', offset', scopeEsp', curEsp', declared, Top')
      /\ Declared(src', Depth', Len(src'), vars')
      /\ code' = declared \o more /\ declared # << >> /\ declared \in Seq(Instruction)
      /\ New \in DOMAIN vars' /\ New \in Nat /\ Open(Depth', Len(src'), vars', New)
      /\ \A u \in DOMAIN vars : /\ u \in DOMAIN vars' /\ vars'[u] = vars[u] /\ u \in Nat
                                /\ Open(Depth, Len(src), vars, u) => Open(Depth', Len(src'), vars', u)
  <2> HIDE DEF more
  <2> QED  BY <1>1, <1>2, LocalStep
<1>4. Inst("op", New, None) \in Instruction /\ Inst("op", New, None).op = "op"
      /\ Inst("op", New, None).res = New /\ Inst("op", New, None).arg = None /\ New # None
  BY <1>3, NoneAssumption DEF Inst, Instruction
<1> HIDE DEF declared
<1>5. /\ Framed(Depth', Len(src'), scopePath', scopeId', vars', offset', scopeEsp', curEsp', first, Top')
      /\ first # << >> /\ first \in Seq(Instruction)
  <2>1. first \in Seq(Instruction)
    BY <1>3, <1>4, Appended
  <2> DEFINE i == Inst("op", New, None)
  <2>2. /\ i \in Instruction /\ i.op # "dec" /\ i.op # "entry" /\ i.arg = None /\ i.op \in {"op", "as"}
        /\ i.res # None /\ i.res \in DOMAIN vars' /\ Open(Depth', Len(src'), vars', i.res)
    BY <1>3, <1>4
  <2> HIDE DEF i
  <2>3. /\ Framed(Depth', Len(src'), scopePath', scopeId', vars', offset', scopeEsp', curEsp', Append(declared, i), Top')
        /\ Append(declared, i) # << >>
    BY SMTT(30), <1>3, <2>2, FramedInst
  <2> QED  BY <2>1, <2>3 DEF i
<1>6. both = code'
  <2>1. code' = declared \o << Inst("op", New, None), last >>
    BY <1>3
  <2> QED  BY <1>3, <1>4, <2>1, AppendTwo
<1> HIDE DEF first
<1>7. /\ Framed(Depth', Len(src'), scopePath', scopeId', vars', offset', scopeEsp', curEsp', both, Top')
      /\ both # << >> /\ Last(both) = last
  <2>1. /\ last.op # "dec" /\ last.op # "entry" /\ last.arg # None
        /\ last.arg \in DOMAIN vars' /\ Open(Depth', Len(src'), vars', last.arg)
        /\ (last.op \in {"op", "as"} => last.res # None)
        /\ (last.res # None => last.res \in DOMAIN vars' /\ Open(Depth', Len(src'), vars', last.res))
    BY <1>3, <1>4
  <2>2. /\ Framed(Depth', Len(src'), scopePath', scopeId', vars', offset', scopeEsp', curEsp', both, Top')
        /\ both # << >>
    BY <1>5, <2>1, FramedInst
  <2>3. Last(both) = last
    BY <1>5, Appended DEF Last
  <2> QED  BY <2>2, <2>3
<1> HIDE DEF both
<1>8. ParseInv'
  <2>1. /\ pc' \in {"parse", "rejected"} /\ curFun' \in BOOLEAN /\ (curFun' <=> Len(scopePath') > 1)
        /\ maxDepth' \in Nat /\ maxDepth' >= stackBase /\ (curFun' => code' # << >>)
    BY <1>1, <1>6, <1>7 DEF ParseInv, Typed
  <2> QED  BY <1>1, <1>3, <1>6, <1>7, <2>1, ParseNext
<1> QED
  BY <1>1, <1>3, <1>6, <1>7, <1>8

\* A variable is something.
LEMMA SomeVariable ==
    ASSUME ParseInv, NEW v \in DOMAIN vars
    PROVE  v # None /\ v \in Nat
<1>1. vars \in Seq(Variable)
  BY ParseFacts
<1>2. v \in Nat
  BY <1>1
<1> QED
  BY <1>2, NoneAssumption

LEMMA ConditionStep ==
    ASSUME ParseInv, Condition
    PROVE  ParseInv' /\ NamesResolve'
<1> DEFINE token == Token("condition", None, 0)
           last == Inst("use", None, New)
<1>1. token \in Tokens /\ token.kind = "condition" /\ Steps(token) = 0
  <2>1. None \in Names \cup {None} /\ 0 \in Sizes \cup {0} \cup Names
    OBVIOUS
  <2> QED  BY <2>1, TokenFacts
<1>2. last \in Instruction /\ last.op = "use" /\ last.res = None /\ last.arg = New
  <2>1. New \in Nat
    BY ParseFacts DEF New
  <2> QED  BY <2>1 DEF Inst, Instruction
<1>3. Operation(token, last)
  BY DEF Condition
<1> HIDE DEF token, last
<1>4. ParseInv' /\ pc' = "parse" /\ src' = Append(src, token)
  BY <1>1, <1>2, <1>3, OperationStep
<1>5. src'[Len(src')] = token
  BY <1>1, <1>4, LastToken
<1> QED
  BY <1>1, <1>4, <1>5, NamesOther

LEMMA AssignStep ==
    ASSUME ParseInv, Assign
    PROVE  ParseInv' /\ NamesResolve'
<1>1. PICK name \in Names : AssignTo(name)
  BY DEF Assign
<1> DEFINE token == Token("assign", name, 0)
           v == GetVar(name)
           last == Inst("as", v, New)
<1>2. token \in Tokens /\ token.kind = "assign" /\ token.name = name /\ Steps(token) = 0
  <2>1. name \in Names \cup {None} /\ 0 \in Sizes \cup {0} \cup Names
    OBVIOUS
  <2> QED  BY <2>1, TokenFacts
<1>3. IF v = None THEN Wrong(token) ELSE IsScalar(v) /\ Operation(token, last)
  BY <1>1 DEF AssignTo
<1>4. New \in Nat
  BY ParseFacts DEF New
<1>5. last.op = "as" /\ last.res = v /\ last.arg = New
  BY DEF Inst
<1>6. v \in Nat => last \in Instruction
  BY <1>4 DEF Inst, Instruction
<1> HIDE DEF token, v, last
<1>7. pc = "parse" /\ src' = Append(src, token) /\ Parsed(token)
  BY <1>3 DEF Wrong, Operation, Parsed
<1>8. src'[Len(src')] = token
  BY <1>2, <1>7, LastToken
<1>9. /\ v = None <=> MeantOf(src', Depth', name, Len(src')) = None
      /\ v # None => /\ v \in DOMAIN vars /\ Open(Depth, Len(src), vars, v)
                     /\ MeantOf(src', Depth', name, Len(src')) = vars[v].tok
  BY <1>2, <1>7, GetVarMeant DEF v
<1>10. CASE v = None
  <2>1. Reject /\ pc' = "rejected"
    BY <1>3, <1>10 DEF Wrong, Reject
  <2>2. ParseInv'
    BY <1>2, <1>7, <2>1, RejectStep
  <2>3. NamesResolve'
    BY <1>2, <1>8, <1>9, <1>10, <2>1, NamesAssign
  <2> QED  BY <2>2, <2>3
<1>11. CASE v # None
  <2>1. Operation(token, last) /\ v \in DOMAIN vars /\ v \in Nat
    BY <1>3, <1>9, <1>11, SomeVariable
  <2>2. /\ ParseInv' /\ pc' = "parse" /\ Last(code') = last
        /\ \A u \in DOMAIN vars : vars'[u] = vars[u]
    BY <1>2, <1>5, <1>6, <1>9, <1>11, <2>1, OperationStep
  <2>3. pc' # "rejected" /\ vars'[Last(code').res].tok = MeantOf(src', Depth', name, Len(src'))
    BY <1>5, <1>9, <1>11, <2>1, <2>2
  <2>4. NamesResolve'
    BY <1>2, <1>8, <1>9, <1>11, <2>3, NamesAssign
  <2> QED  BY <2>2, <2>4
<1> QED
  BY <1>10, <1>11

\* A token that only adds an instruction.
LEMMA InstStep ==
    ASSUME ParseInv, pc = "parse", curFun, NEW token \in Tokens, Steps(token) = 0, Parsed(token),
           token.kind \notin {"declare", "fun"},
           NEW i \in Instruction, i.op \in {"as", "use"}, i.op = "as" => i.res # None,
           i.res # None => i.res \in DOMAIN vars /\ Open(Depth, Len(src), vars, i.res),
           i.arg # None => i.arg \in DOMAIN vars /\ Open(Depth, Len(src), vars, i.arg),
           code' = Append(code, i),
           UNCHANGED <<pc, scopeId, scopePath, vars, curFun, curEsp, scopeEsp, maxDepth, offset, addr>>
    PROVE  ParseInv' /\ Last(code') = i
<1>1. src' = Append(src, token) /\ deepest' = deepest
  BY DEF Parsed
<1>2. Framed(Depth, Len(src), scopePath, scopeId, vars, offset, scopeEsp, curEsp, code, Top)
      /\ Declared(src, Depth, Len(src), vars) /\ code # << >>
  BY DEF ParseInv
<1>3. /\ src \in Seq(Tokens) /\ Depth \in [0 .. Len(src) -> Nat] /\ VarsOK(Depth, Len(src), scopeId, vars)
      /\ code \in Seq(Instruction) /\ Depth[Len(src)] \in Nat
  BY ParseFacts
<1>4. Depth[Len(src)] + 0 = Depth[Len(src)]
  BY <1>3
<1>5. /\ Len(src') = Len(src) + 1 /\ Longer(Depth, Len(src), Depth')
      /\ Depth'[Len(src) + 1] = Depth[Len(src)]
  BY <1>1, <1>3, <1>4, TokenStep
<1>6. Framed(Depth, Len(src), scopePath, scopeId, vars, offset, scopeEsp, curEsp, code', Top) /\ code' # << >>
  <2>1. i.op # "dec" /\ i.op # "entry" /\ (i.op \in {"op", "as"} => i.res # None)
    OBVIOUS
  <2>2. /\ Framed(Depth, Len(src), scopePath, scopeId, vars, offset, scopeEsp, curEsp, Append(code, i), Top)
        /\ Append(code, i) # << >>
    BY <1>2, <2>1, FramedInst
  <2> QED  BY <2>2
<1>7. Framed(Depth', Len(src'), scopePath, scopeId, vars, offset, scopeEsp, curEsp, code', Top)
  BY <1>5, <1>6, FramedNeutral
<1>8. Top' = Top
  BY DEF Top
<1>9. Declared(src', Depth', Len(src'), vars')
  <2>1. Declared(Append(src, token), Depth', Len(src) + 1, vars)
    BY <1>2, <1>3, <1>5, DeclaredNeutral
  <2> QED  BY <1>1, <1>5, <2>1
<1>10. ParseInv'
  <2>1. /\ pc' \in {"parse", "rejected"} /\ curFun' \in BOOLEAN /\ (curFun' <=> Len(scopePath') > 1)
        /\ maxDepth' \in Nat /\ maxDepth' >= stackBase /\ (curFun' => code' # << >>)
    BY <1>6 DEF ParseInv, Typed
  <2>2. Framed(Depth', Len(src'), scopePath', scopeId', vars', offset', scopeEsp', curEsp', code', Top')
    BY <1>7, <1>8
  <2> QED  BY <1>1, <1>9, <2>1, <2>2, ParseNext
<1>11. Last(code') = i
  BY <1>3, Appended DEF Last
<1> QED
  BY <1>10, <1>11

LEMMA UseStep ==
    ASSUME ParseInv, Use
    PROVE  ParseInv' /\ NamesResolve'
<1>1. PICK name \in Names : UseOf(name)
  BY DEF Use
<1> DEFINE token == Token("use", name, 0)
           v == GetVar(name)
           i == Inst("use", None, v)
<1>2. token \in Tokens /\ token.kind = "use" /\ token.name = name /\ Steps(token) = 0
  <2>1. name \in Names \cup {None} /\ 0 \in Sizes \cup {0} \cup Names
    OBVIOUS
  <2> QED  BY <2>1, TokenFacts
<1>3. IF v = None THEN Wrong(token)
      ELSE /\ curFun /\ IsScalar(v) /\ Parsed(token)
           /\ code' = Append(code, i)
           /\ UNCHANGED <<pc, scopeId, scopePath, vars, curFun, curEsp, scopeEsp, maxDepth, offset, addr>>
  BY <1>1 DEF UseOf
<1>4. i.op = "use" /\ i.res = None /\ i.arg = v
  BY DEF Inst
<1>5. v \in Nat => i \in Instruction
  BY DEF Inst, Instruction
<1> HIDE DEF token, v, i
<1>6. pc = "parse" /\ src' = Append(src, token) /\ Parsed(token)
  BY <1>3 DEF Wrong, Parsed
<1>7. src'[Len(src')] = token
  BY <1>2, <1>6, LastToken
<1>8. /\ v = None <=> MeantOf(src', Depth', name, Len(src')) = None
      /\ v # None => /\ v \in DOMAIN vars /\ Open(Depth, Len(src), vars, v)
                     /\ MeantOf(src', Depth', name, Len(src')) = vars[v].tok
  BY <1>2, <1>6, GetVarMeant DEF v
<1>9. CASE v = None
  <2>1. Reject /\ pc' = "rejected"
    BY <1>3, <1>9 DEF Wrong, Reject
  <2>2. ParseInv'
    BY <1>2, <1>6, <2>1, RejectStep
  <2>3. NamesResolve'
    BY <1>2, <1>7, <1>8, <1>9, <2>1, NamesUse
  <2> QED  BY <2>2, <2>3
<1>10. CASE v # None
  <2>1. v \in DOMAIN vars /\ v \in Nat
    BY <1>8, <1>10, SomeVariable
  <2>2. ParseInv' /\ Last(code') = i /\ vars' = vars /\ pc' = "parse"
    BY <1>2, <1>3, <1>4, <1>5, <1>6, <1>8, <1>10, <2>1, InstStep
  <2>3. pc' # "rejected" /\ vars'[Last(code').arg].tok = MeantOf(src', Depth', name, Len(src'))
    BY <1>4, <1>8, <1>10, <2>2
  <2>4. NamesResolve'
    BY <1>2, <1>7, <1>8, <1>10, <2>3, NamesUse
  <2> QED  BY <2>2, <2>4
<1> QED
  BY <1>9, <1>10

LEMMA CopyStep ==
    ASSUME ParseInv, Copy
    PROVE  ParseInv' /\ NamesResolve'
<1>1. PICK left \in Names, right \in Names : CopyOf(left, right)
  BY DEF Copy
<1> DEFINE token == Token("copy", left, right)
           v == GetVar(left)
           w == GetVar(right)
           i == Inst("as", v, w)
<1>2. token \in Tokens /\ token.kind = "copy" /\ token.name = left /\ token.size = right /\ Steps(token) = 0
  <2>1. left \in Names \cup {None} /\ right \in Sizes \cup {0} \cup Names
    OBVIOUS
  <2> QED  BY <2>1, TokenFacts
<1>3. IF None \in {v, w} THEN Wrong(token)
      ELSE /\ curFun /\ IsScalar(v) /\ IsScalar(w) /\ v # w /\ Parsed(token)
           /\ code' = Append(code, i)
           /\ UNCHANGED <<pc, scopeId, scopePath, vars, curFun, curEsp, scopeEsp, maxDepth, offset, addr>>
  BY <1>1 DEF CopyOf
<1>4. i.op = "as" /\ i.res = v /\ i.arg = w
  BY DEF Inst
<1>5. v \in Nat /\ w \in Nat => i \in Instruction
  BY DEF Inst, Instruction
<1> HIDE DEF token, v, w, i
<1>6. pc = "parse" /\ src' = Append(src, token) /\ Parsed(token)
  BY <1>3 DEF Wrong, Parsed
<1>7. src'[Len(src')] = token
  BY <1>2, <1>6, LastToken
<1>8. /\ v = None <=> MeantOf(src', Depth', left, Len(src')) = None
      /\ v # None => /\ v \in DOMAIN vars /\ Open(Depth, Len(src), vars, v)
                     /\ MeantOf(src', Depth', left, Len(src')) = vars[v].tok
  BY <1>2, <1>6, GetVarMeant DEF v
<1>9. /\ w = None <=> MeantOf(src', Depth', right, Len(src')) = None
      /\ w # None => /\ w \in DOMAIN vars /\ Open(Depth, Len(src), vars, w)
                     /\ MeantOf(src', Depth', right, Len(src')) = vars[w].tok
  BY <1>2, <1>6, GetVarMeant DEF w
<1>10. CASE None \in {v, w}
  <2>1. Reject /\ pc' = "rejected"
    BY <1>3, <1>10 DEF Wrong, Reject
  <2>2. ParseInv'
    BY <1>2, <1>6, <2>1, RejectStep
  <2>3. NamesResolve'
    BY <1>2, <1>7, <1>8, <1>9, <1>10, <2>1, NamesCopy
  <2> QED  BY <2>2, <2>3
<1>11. CASE None \notin {v, w}
  <2>1. v \in DOMAIN vars /\ v \in Nat /\ w \in DOMAIN vars /\ w \in Nat /\ v # None /\ w # None
    BY <1>8, <1>9, <1>11, SomeVariable
  <2>2. ParseInv' /\ Last(code') = i /\ vars' = vars /\ pc' = "parse"
    BY <1>2, <1>3, <1>4, <1>5, <1>6, <1>8, <1>9, <1>11, <2>1, InstStep
  <2>3. /\ pc' # "rejected"
        /\ vars'[Last(code').res].tok = MeantOf(src', Depth', left, Len(src'))
        /\ vars'[Last(code').arg].tok = MeantOf(src', Depth', right, Len(src'))
    BY <1>4, <1>8, <1>9, <2>1, <2>2
  <2>4. NamesResolve'
    BY <1>2, <1>7, <1>8, <1>9, <2>1, <2>3, NamesCopy
  <2> QED  BY <2>2, <2>4
<1> QED
  BY <1>10, <1>11

LEMMA EnterStep ==
    ASSUME ParseInv, EnterScope
    PROVE  ParseInv' /\ NamesResolve'
<1> DEFINE token == Token("enter", None, 0)
<1>1. token \in Tokens /\ token.kind = "enter" /\ token.name = None /\ Steps(token) = 1
  <2>1. None \in Names \cup {None} /\ 0 \in Sizes \cup {0} \cup Names
    OBVIOUS
  <2> QED  BY <2>1, TokenFacts
<1>2. /\ curFun /\ Parsed(token) /\ pc = "parse" /\ src' = Append(src, token) /\ deepest' = deepest
      /\ scopeId' = scopeId + 1 /\ scopePath' = Append(scopePath, scopeId + 1) /\ scopeEsp' = Append(scopeEsp, 0)
      /\ UNCHANGED <<pc, vars, curFun, curEsp, maxDepth, offset, code, addr>>
  BY DEF EnterScope, Parsed
<1> HIDE DEF token
<1>3. Framed(Depth, Len(src), scopePath, scopeId, vars, offset, scopeEsp, curEsp, code, Top)
      /\ Declared(src, Depth, Len(src), vars) /\ code # << >>
  BY <1>2 DEF ParseInv
<1>4. /\ src \in Seq(Tokens) /\ Depth \in [0 .. Len(src) -> Nat] /\ VarsOK(Depth, Len(src), scopeId, vars)
      /\ Depth[Len(src)] \in Nat /\ scopePath \in Seq(Nat) /\ scopeId \in Nat /\ Len(scopePath) \in Nat
  BY ParseFacts
<1>5. Depth[Len(src)] + 1 \in Nat /\ scopeId + 1 \in Nat
  BY <1>4
<1>6. /\ Len(src') = Len(src) + 1 /\ Longer(Depth, Len(src), Depth')
      /\ Depth'[Len(src) + 1] = Depth[Len(src)] + 1
  BY <1>1, <1>2, <1>5, TokenStep
<1>7. Top' = Top
  BY <1>2 DEF Top
<1>8. Framed(Depth', Len(src'), scopePath', scopeId', vars, offset, scopeEsp', curEsp, code, Top)
  BY <1>2, <1>3, <1>6, FramedPush
<1>9. Declared(src', Depth', Len(src'), vars')
  <2>1. Declared(Append(src, token), Depth', Len(src) + 1, vars)
    BY <1>1, <1>3, <1>4, <1>6, DeclaredNeutral
  <2> QED  BY <1>2, <1>6, <2>1
<1>10. Len(scopePath') > 1
  <2>1. Len(scopePath') = Len(scopePath) + 1 /\ Len(scopePath) > 1
    BY <1>2, <1>4, <1>5, Appended DEF ParseInv, Typed
  <2> QED  BY <1>4, <2>1
<1>11. ParseInv'
  <2>1. /\ pc' \in {"parse", "rejected"} /\ curFun' \in BOOLEAN /\ (curFun' <=> Len(scopePath') > 1)
        /\ maxDepth' \in Nat /\ maxDepth' >= stackBase /\ (curFun' => code' # << >>)
    BY <1>2, <1>3, <1>10 DEF ParseInv, Typed
  <2>2. Framed(Depth', Len(src'), scopePath', scopeId', vars', offset', scopeEsp', curEsp', code', Top')
    BY <1>2, <1>7, <1>8
  <2> QED  BY <1>1, <1>2, <1>9, <2>1, <2>2, ParseNext
<1>12. src'[Len(src')] = token
  BY <1>1, <1>2, LastToken
<1> QED
  BY <1>1, <1>2, <1>11, <1>12, NamesOther

\* leaveScope: what LeaveScope and EndFun have in common.
LEMMA LeavesStep ==
    ASSUME ParseInv, pc = "parse", curFun, NEW token \in Tokens, Steps(token) = -1, Parsed(token),
           token.kind \notin {"declare", "fun"},
           FunLeaves, scopePath' = Front(scopePath), UNCHANGED <<pc, scopeId, vars, offset, addr>>
    PROVE  /\ Framed(Depth', Len(src'), scopePath', scopeId', vars', offset', scopeEsp', curEsp', code, Top')
           /\ Declared(src', Depth', Len(src'), vars') /\ code # << >>
           /\ maxDepth' \in Nat /\ maxDepth' >= stackBase
           /\ Len(scopePath') = Len(scopeEsp) /\ Len(scopeEsp) \in Nat
<1>1. src' = Append(src, token) /\ deepest' = deepest
  BY DEF Parsed
<1>2. Framed(Depth, Len(src), scopePath, scopeId, vars, offset, scopeEsp, curEsp, code, Top)
      /\ Declared(src, Depth, Len(src), vars) /\ code # << >> /\ Len(scopePath) > 1 /\ maxDepth >= stackBase
  BY DEF ParseInv, Typed
<1>3. /\ src \in Seq(Tokens) /\ Depth \in [0 .. Len(src) -> Nat] /\ VarsOK(Depth, Len(src), scopeId, vars)
      /\ Depth[Len(src)] \in Nat /\ scopePath \in Seq(Nat) /\ scopeId \in Nat /\ Len(scopePath) \in Nat
      /\ maxDepth \in Nat /\ Len(scopePath) = Depth[Len(src)] + 1
      /\ Len(scopeEsp) = Len(scopePath) - 1
  BY ParseFacts
<1>4. Depth[Len(src)] + (-1) \in Nat /\ Depth[Len(src)] + (-1) = Depth[Len(src)] - 1 /\ -1 \in Int
  BY <1>2, <1>3
<1>5. /\ Len(src') = Len(src) + 1 /\ Longer(Depth, Len(src), Depth')
      /\ Depth'[Len(src) + 1] = Depth[Len(src)] - 1
  BY <1>1, <1>4, TokenStep
<1>6. /\ Framed(Depth', Len(src'), scopePath', scopeId, vars, offset, Front(scopeEsp), curEsp - Last(scopeEsp), code, Top)
      /\ curEsp \in Nat /\ Last(scopeEsp) \in Nat /\ curEsp - Last(scopeEsp) \in Nat
  BY <1>2, <1>5, FramedPop
<1>7. maxDepth' = Top /\ curEsp' = curEsp - Last(scopeEsp) /\ scopeEsp' = Front(scopeEsp)
  BY DEF FunLeaves, Top
<1>8. Top' = Top /\ maxDepth' \in Nat /\ maxDepth' >= stackBase
  <2>1. Top \in Nat /\ curEsp <= Top /\ maxDepth <= Top
    BY ParseFacts
  <2>2. curEsp' <= Top /\ curEsp' \in Nat
    BY <1>6, <1>7, <2>1
  <2>3. Top' = IF curEsp' > maxDepth' THEN curEsp' ELSE maxDepth'
    BY DEF Top
  <2>4. Top' = Top
    BY <1>7, <2>1, <2>2, <2>3
  <2> QED  BY <1>2, <1>3, <1>7, <2>1, <2>4 DEF stackBase
<1>9. Framed(Depth', Len(src'), scopePath', scopeId', vars', offset', scopeEsp', curEsp', code, Top')
  BY <1>6, <1>7, <1>8
<1>10. Declared(src', Depth', Len(src'), vars')
  <2>1. Declared(Append(src, token), Depth', Len(src) + 1, vars)
    BY <1>2, <1>3, <1>5, DeclaredNeutral
  <2> QED  BY <1>1, <1>5, <2>1
<1>11. Len(scopePath') = Len(scopeEsp) /\ Len(scopeEsp) \in Nat
  <2>1. Len(scopePath) > 0
    BY <1>2, <1>3
  <2>2. Len(scopePath') = Len(scopePath) - 1
    BY <1>3, <2>1, Fronted
  <2> QED  BY <1>2, <1>3, <2>2
<1> QED
  BY <1>2, <1>8, <1>9, <1>10, <1>11

LEMMA LeaveFacts ==
    LET token == Token("leave", None, 0) IN
    token \in Tokens /\ token.kind = "leave" /\ token.name = None /\ Steps(token) = -1
<1>1. None \in Names \cup {None} /\ 0 \in Sizes \cup {0} \cup Names
  OBVIOUS
<1> QED
  BY <1>1, TokenFacts

LEMMA LeaveStep ==
    ASSUME ParseInv, LeaveScope
    PROVE  ParseInv' /\ NamesResolve'
<1> DEFINE token == Token("leave", None, 0)
<1>1. token \in Tokens /\ token.kind = "leave" /\ token.name = None /\ Steps(token) = -1
  BY LeaveFacts
<1>2. /\ curFun /\ Len(scopeEsp) > 1 /\ Parsed(token) /\ pc = "parse" /\ src' = Append(src, token) /\ deepest' = deepest
      /\ scopePath' = Front(scopePath) /\ FunLeaves
      /\ UNCHANGED <<pc, scopeId, vars, curFun, offset, code, addr>>
  BY DEF LeaveScope, Parsed
<1> HIDE DEF token
<1>3. /\ Framed(Depth', Len(src'), scopePath', scopeId', vars', offset', scopeEsp', curEsp', code, Top')
      /\ Declared(src', Depth', Len(src'), vars') /\ code # << >>
      /\ maxDepth' \in Nat /\ maxDepth' >= stackBase
      /\ Len(scopePath') = Len(scopeEsp)
  BY <1>1, <1>2, LeavesStep
<1>4. ParseInv'
  <2>1. /\ pc' \in {"parse", "rejected"} /\ curFun' \in BOOLEAN /\ (curFun' <=> Len(scopePath') > 1)
        /\ (curFun' => code' # << >>)
    BY <1>2, <1>3 DEF ParseInv, Typed
  <2>2. Framed(Depth', Len(src'), scopePath', scopeId', vars', offset', scopeEsp', curEsp', code', Top')
    BY <1>2, <1>3
  <2> QED  BY <1>1, <1>2, <1>3, <2>1, <2>2, ParseNext
<1>5. src'[Len(src')] = token
  BY <1>1, <1>2, LastToken
<1> QED
  BY <1>1, <1>2, <1>4, <1>5, NamesOther

LEMMA EndFunStep ==
    ASSUME ParseInv, EndFun
    PROVE  ParseInv' /\ NamesResolve'
<1> DEFINE token == Token("leave", None, 0)
           i == Inst("exit", None, None)
<1>1. token \in Tokens /\ token.kind = "leave" /\ token.name = None /\ Steps(token) = -1
  BY LeaveFacts
<1>2. /\ curFun /\ Len(scopeEsp) = 1 /\ Parsed(token) /\ pc = "parse" /\ src' = Append(src, token) /\ deepest' = deepest
      /\ scopePath' = Front(scopePath) /\ FunLeaves /\ curFun' = FALSE /\ code' = Append(code, i)
      /\ UNCHANGED <<pc, scopeId, vars, offset, addr>>
  BY DEF EndFun, Parsed
<1>3. i \in Instruction /\ i.op = "exit" /\ i.res = None /\ i.arg = None
  BY DEF Inst, Instruction
<1> HIDE DEF token, i
<1>4. /\ Framed(Depth', Len(src'), scopePath', scopeId', vars', offset', scopeEsp', curEsp', code, Top')
      /\ Declared(src', Depth', Len(src'), vars') /\ code # << >>
      /\ maxDepth' \in Nat /\ maxDepth' >= stackBase
      /\ Len(scopePath') = Len(scopeEsp)
  BY <1>1, <1>2, LeavesStep
<1>5. Framed(Depth', Len(src'), scopePath', scopeId', vars', offset', scopeEsp', curEsp', code', Top')
  BY <1>2, <1>3, <1>4, FramedInst
<1>6. ParseInv'
  <2>1. ~ (1 > 1)
    OBVIOUS
  <2>2. Len(scopePath') = 1
    BY <1>2, <1>4
  <2>3. ~ (Len(scopePath') > 1)
    BY <2>1, <2>2
  <2>4. /\ pc' \in {"parse", "rejected"} /\ curFun' \in BOOLEAN /\ (curFun' <=> Len(scopePath') > 1)
        /\ (curFun' => code' # << >>)
    BY <1>2, <2>3
  <2> QED  BY <1>1, <1>2, <1>4, <1>5, <2>4, ParseNext
<1>7. src'[Len(src')] = token
  BY <1>1, <1>2, LastToken
<1> QED
  BY <1>1, <1>2, <1>6, <1>7, NamesOther

LEMMA BeginFunStep ==
    ASSUME ParseInv, BeginFun
    PROVE  ParseInv' /\ NamesResolve'
<1>1. PICK name \in Names \cup {None} :
        /\ ~ curFun /\ Parsed(Token("fun", name, 0))
        /\ scopeId' = scopeId + 1
        /\ scopePath' = Append(scopePath, scopeId + 1)
        /\ IF name = None THEN UNCHANGED <<vars, offset, addr>>
           ELSE /\ vars' = Append(vars, [name |-> name, path |-> scopePath', size |-> 4,
                                         tok |-> Len(src')])
                /\ offset' = Append(offset, 4)
                /\ addr' = Append(addr, 4)
        /\ curFun' = TRUE
        /\ curEsp' = stackBase /\ maxDepth' = stackBase /\ scopeEsp' = << 0 >>
        /\ code' = Append(code, Inst("entry", None, None))
        /\ UNCHANGED pc
  BY DEF BeginFun
<1> DEFINE token == Token("fun", name, 0)
           i == Inst("entry", None, None)
           w == [name |-> name, path |-> scopePath', size |-> 4, tok |-> Len(src')]
<1>2. token \in Tokens /\ token.kind = "fun" /\ token.name = name /\ Steps(token) = 1
  <2>1. 0 \in Sizes \cup {0} \cup Names
    OBVIOUS
  <2> QED  BY <2>1, TokenFacts
<1>3. i \in Instruction /\ i.op = "entry" /\ i.res = None /\ i.arg = None
  BY DEF Inst, Instruction
<1>4. pc = "parse" /\ src' = Append(src, token) /\ deepest' = deepest /\ pc' = "parse"
  BY <1>1 DEF Parsed
<1> HIDE DEF token, i
<1>5. Framed(Depth, Len(src), scopePath, scopeId, vars, offset, scopeEsp, curEsp, code, Top)
      /\ Declared(src, Depth, Len(src), vars)
  BY <1>4 DEF ParseInv
<1>6. /\ src \in Seq(Tokens) /\ Depth \in [0 .. Len(src) -> Nat] /\ VarsOK(Depth, Len(src), scopeId, vars)
      /\ Depth[Len(src)] \in Nat /\ scopePath \in Seq(Nat) /\ scopeId \in Nat /\ Len(scopePath) \in Nat
      /\ Len(src) \in Nat /\ Len(scopePath) = Depth[Len(src)] + 1
      /\ code \in Seq(Instruction) /\ Len(offset) = Len(vars) /\ offset \in Seq(Int)
      /\ Len(scopePath) = 1 => curEsp = stackBase /\ scopeEsp = << >>
  BY ParseFacts
<1>7. Len(scopePath) = 1 /\ Depth[Len(src)] = 0 /\ curEsp = stackBase /\ scopeEsp = << >>
  <2>1. ~ (Len(scopePath) > 1)
    BY <1>1 DEF ParseInv, Typed
  <2>2. Len(scopePath) = 1 /\ Depth[Len(src)] = 0
    BY <1>6, <2>1
  <2> QED  BY <1>6, <2>2
<1>8. Depth[Len(src)] + 1 \in Nat /\ scopeId + 1 \in Nat /\ scopeId <= scopeId + 1
  BY <1>6
<1>9. /\ Len(src') = Len(src) + 1 /\ Longer(Depth, Len(src), Depth')
      /\ Depth'[Len(src) + 1] = Depth[Len(src)] + 1
      /\ Len(src') \in Nat \ {0} /\ Depth'[Len(src)] = Depth[Len(src)]
      /\ Depth' \in [0 .. Len(src') -> Nat]
  BY <1>2, <1>4, <1>8, TokenStep
<1>10. Append(scopeEsp, 0) = << 0 >>
  BY <1>7
<1>11. Framed(Depth', Len(src'), scopePath', scopeId', vars, offset, scopeEsp', curEsp', code, Top)
  BY <1>1, <1>5, <1>7, <1>9, <1>10, FramedPush
<1>12. Len(src') - 1 = Len(src) /\ VarsOK(Depth', Len(src') - 1, scopeId', vars)
  <2>1. Len(src') - 1 = Len(src)
    BY <1>6, <1>9
  <2>2. VarsOK(Depth', Len(src), scopeId + 1, vars)
    BY <1>6, <1>8, <1>9, VarsEarlier
  <2> QED  BY <1>1, <2>1, <2>2
<1>13. /\ scopePath' \in Seq(Nat) /\ Len(scopePath') = 2 /\ Len(scopePath') >= 2 /\ Len(scopePath') > 1
       /\ w \in Variable /\ w.tok = Len(src') /\ w.path = scopePath' /\ w.name = name /\ w.size = 4
  <2>1. scopePath' \in Seq(Nat) /\ Len(scopePath') = 2
    <3>1. scopePath \in Seq(Nat) /\ scopeId + 1 \in Nat /\ Len(scopePath) = 1 /\ scopePath' = Append(scopePath, scopeId + 1)
      BY <1>1, <1>6, <1>7, <1>8
    <3>2. scopePath' \in Seq(Nat) /\ Len(scopePath') = Len(scopePath) + 1
      BY <3>1, Appended
    <3>3. 1 + 1 = 2
      OBVIOUS
    <3> QED  BY <3>1, <3>2, <3>3
  <2> QED  BY <1>9, <2>1 DEF Variable
<1>14. Depth'[Len(src') - 1] <= Depth'[Len(src')]
  BY <1>6, <1>9, <1>12
<1>15. ASSUME NEW u \in DOMAIN vars, Open(Depth, Len(src), vars, u)
       PROVE  offset[u] = 0 /\ Len(vars[u].path) = 1
  <2>1. Depth[vars[u].tok] <= Depth[Len(src)] /\ Len(vars[u].path) = Depth[vars[u].tok] + 1
        /\ Depth[vars[u].tok] \in Nat
    BY <1>5, <1>15, OpenDepth DEF Framed
  <2>2. Len(vars[u].path) = 1
    BY <1>7, <2>1
  <2>3. offset[u] # 0 => Len(vars[u].path) >= 2
    BY <1>5 DEF Framed, LaidOut, PlacesOK
  <2> QED  BY <2>2, <2>3
<1> HIDE DEF w
<1>16. \A u \in DOMAIN vars : Open(Depth', Len(src'), vars, u) => Open(Depth, Len(src), vars, u)
  <2>1. \A u \in DOMAIN vars : Open(Depth', Len(src) + 1, vars, u) => Open(Depth, Len(src), vars, u)
    BY <1>6, <1>9, SameScopes
  <2>2. Len(src') = Len(src) + 1
    BY <1>9
  <2> QED  BY <2>1, <2>2
<1>17. Framed(Depth', Len(src'), scopePath', scopeId', vars, offset, scopeEsp', curEsp', code', Top')
  <2>1. i.op = "entry" => \A v \in DOMAIN vars : offset[v] < 0 => ~ Open(Depth', Len(src'), vars, v)
    <3>1. ASSUME NEW v \in DOMAIN vars, Open(Depth', Len(src'), vars, v)  PROVE ~ (offset[v] < 0)
      <4>1. offset[v] = 0
        BY <1>15, <1>16, <3>1
      <4> QED  BY <4>1
    <3> QED  BY <3>1
  <2>2. code' = Append(code, i)
    BY <1>1 DEF i
  <2> QED  BY <1>3, <1>11, <2>1, <2>2, FramedInst
<1>18. Framed(Depth', Len(src'), scopePath', scopeId', vars', offset', scopeEsp', curEsp', code', Top')
  <2>1. CASE name = None
    <3>1. vars' = vars /\ offset' = offset
      BY <1>1, <2>1
    <3> QED  BY <1>17, <3>1
  <2>2. CASE name # None
    <3>1. vars' = Append(vars, w) /\ offset' = Append(offset, 4)
      BY <1>1, <2>2 DEF w
    <3>2. 4 \in {0, 4} /\ \A u \in DOMAIN vars : Open(Depth', Len(src'), vars, u) => offset[u] = 0
      BY <1>15, <1>16
    <3>3. Framed(Depth', Len(src'), scopePath', scopeId', Append(vars, w), Append(offset, 4), scopeEsp', curEsp', code', Top')
      BY <1>9, <1>12, <1>13, <1>14, <1>17, <3>2, FramedOutside
    <3> QED  BY <3>1, <3>3
  <2> QED  BY <2>1, <2>2
<1>19. Declared(src', Depth', Len(src'), vars')
  <2>1. CASE name = None
    <3>1. vars' = vars
      BY <1>1, <2>1
    <3>2. Declared(Append(src, token), Depth', Len(src) + 1, vars)
      BY <1>2, <1>5, <1>6, <1>9, <2>1, DeclaredNeutral
    <3> QED  BY <1>4, <1>9, <3>1, <3>2
  <2>2. CASE name # None
    <3>1. vars' = Append(vars, w)
      BY <1>1, <2>2 DEF w
    <3>2. w.name # None => \A u \in DOMAIN vars :
             Open(Depth, Len(src), vars, u) /\ vars[u].name = w.name => Len(vars[u].path) < Len(w.path)
      <4>1. 1 < 2
        OBVIOUS
      <4> QED  BY <1>13, <1>15, <4>1
    <3>3. w.tok = Len(src) + 1 /\ Depth[Len(src)] <= Depth'[Len(src) + 1]
      <4>1. Depth[Len(src)] <= Depth[Len(src)] + 1
        BY <1>6
      <4> QED  BY <1>9, <1>13, <4>1
    <3>4. Declared(Append(src, token), Depth', Len(src) + 1, Append(vars, w))
      BY <1>2, <1>5, <1>6, <1>9, <1>13, <3>2, <3>3, DeclaredVar
    <3> QED  BY <1>4, <1>9, <3>1, <3>4
  <2> QED  BY <2>1, <2>2
<1>20. ParseInv'
  <2>1. maxDepth' \in Nat /\ maxDepth' >= stackBase
    BY <1>1 DEF stackBase
  <2>2. code' # << >>
    BY SMTT(30), <1>1, <1>3, <1>6, Appended
  <2>3. curFun' \in BOOLEAN /\ (curFun' <=> Len(scopePath') > 1) /\ pc' \in {"parse", "rejected"}
    BY <1>1, <1>4, <1>13
  <2> QED  BY <1>2, <1>4, <1>18, <1>19, <2>1, <2>2, <2>3, ParseNext
<1>21. src'[Len(src')] = token
  BY <1>2, <1>4, LastToken
<1> QED
  BY <1>2, <1>4, <1>20, <1>21, NamesOther

-----------------------------------------------------------------------------
(* The addresses, while the parser works: nothing is placed yet *)

\* At most one variable is added, with no address or as the parameter.
Grown ==
    \/ UNCHANGED <<vars, addr, offset>>
    \/ \E x \in {None, 4} : \E w, o :
          /\ vars' = Append(vars, w) /\ addr' = Append(addr, x) /\ offset' = Append(offset, o)
          /\ x = 4 => o = 4

\* The scopes around one in a tree of only the root.
LEMMA RootOnly ==
    ASSUME NEW n \in Nat, NEW d \in [0 .. n -> Nat], NEW id, NEW vs, VarsOK(d, n, id, vs), UnderOK(d, vs)
    PROVE  \A v \in DOMAIN vs : \A k \in DOMAIN vs[v].path :
              /\ \A j \in 1 .. k : vs[v].path[k] = 0 => vs[v].path[j] = 0
              /\ vs[v].path[k] = 0 => k = 1
<1> TAKE v \in DOMAIN vs
<1> TAKE k \in DOMAIN vs[v].path
<1>1. Fork(vs[v].path, vs[v].path)
  BY DEF UnderOK
<1>2. vs[v].path[1] = 0 /\ 1 \in DOMAIN vs[v].path
  <2>1. /\ vs[v].path[1] = 0 /\ DOMAIN vs[v].path = 1 .. Len(vs[v].path)
        /\ Len(vs[v].path) \in Nat /\ Len(vs[v].path) \in DOMAIN vs[v].path
    BY VariableFacts
  <2>2. \A m \in Nat : m \in 1 .. m => 1 \in 1 .. m
    OBVIOUS
  <2> QED  BY <2>1, <2>2
<1>3. ASSUME vs[v].path[k] = 0  PROVE k = 1
  BY <1>1, <1>2, <1>3 DEF Fork
<1>4. ASSUME NEW j \in 1 .. k, vs[v].path[k] = 0  PROVE vs[v].path[j] = 0
  <2>1. j \in 1 .. 1
    BY <1>3, <1>4
  <2>2. j = 1
    BY <2>1
  <2> QED  BY <1>2, <2>2
<1> QED
  BY <1>3, <1>4

LEMMA ParsedAddr ==
    ASSUME IInv, ParseInv', pc = "parse", pc' \in {"parse", "rejected"}, Grown,
           UNCHANGED <<cursor, tree, deepest>>
    PROVE  TreeOK' /\ AddrOK'
<1>1. cursor = 1 /\ cursor' = 1 /\ cursor - 1 = 0 /\ 1 .. cursor - 1 = {} /\ 1 .. cursor' - 1 = {}
  <2>1. cursor = 1
    BY DEF IInv, AddrOK, AddrTyped
  <2>2. cursor' = 1
    BY <2>1
  <2>3. 1 - 1 = 0 /\ 1 .. 0 = {}
    OBVIOUS
  <2> QED  BY <2>1, <2>2, <2>3
<1>2. DOMAIN tree = {0} /\ tree' = tree
  BY <1>1 DEF IInv, TreeOK
<1>3. /\ Len(src') \in Nat /\ Depth' \in [0 .. Len(src') -> Nat]
      /\ VarsOK(Depth', Len(src'), scopeId', vars') /\ UnderOK(Depth', vars')
  BY DEF ParseInv, Framed, Scoped, PathOK
<1>4. \A v \in DOMAIN vars' : \A k \in DOMAIN vars'[v].path : \A j \in 1 .. k :
         vars'[v].path[k] = 0 => vars'[v].path[j] = 0
  BY <1>3, RootOnly
<1>5. TreeOK'
  BY <1>1, <1>2, <1>4 DEF IInv, TreeOK
<1>6. /\ vars' \in Seq(Variable) /\ Len(vars') \in Nat /\ code' \in Seq(Instruction)
      /\ offset' \in Seq(Int) /\ Len(offset') = Len(vars')
  <2>1. vars' \in Seq(Variable)
    BY <1>3 DEF VarsOK
  <2> QED  BY <2>1 DEF ParseInv, Framed, LaidOut, CodeOK
<1>7. /\ vars \in Seq(Variable) /\ Len(vars) \in Nat /\ offset \in Seq(Int) /\ Len(offset) = Len(vars)
      /\ addr \in Seq(Int \cup {None}) /\ Len(addr) = Len(vars)
  BY ParseFacts DEF IInv, AddrOK, AddrTyped
<1>8. \A v \in DOMAIN vars : addr[v] = None \/ (addr[v] = 4 /\ offset[v] = 4)
  BY <1>1 DEF IInv, AddrOK, AddrTyped
<1>9. /\ addr' \in Seq(Int \cup {None}) /\ Len(addr') = Len(vars')
      /\ \A v \in DOMAIN vars' : addr'[v] = None \/ (addr'[v] = 4 /\ offset'[v] = 4)
  <2>1. CASE UNCHANGED <<vars, addr, offset>>
    BY <1>7, <1>8, <2>1
  <2>2. ASSUME NEW x \in {None, 4}, NEW w, NEW o,
               vars' = Append(vars, w), addr' = Append(addr, x), offset' = Append(offset, o), x = 4 => o = 4
        PROVE  /\ addr' \in Seq(Int \cup {None}) /\ Len(addr') = Len(vars')
               /\ \A v \in DOMAIN vars' : addr'[v] = None \/ (addr'[v] = 4 /\ offset'[v] = 4)
    <3>1. x \in Int \cup {None}
      OBVIOUS
    <3>2. /\ addr' \in Seq(Int \cup {None}) /\ Len(addr') = Len(addr) + 1
          /\ addr'[Len(addr) + 1] = x /\ \A k \in 1 .. Len(addr) : addr'[k] = addr[k]
      BY <1>7, <2>2, <3>1, Appended
    <3>3. Len(vars') = Len(vars) + 1
      BY <1>7, <2>2
    <3>4. offset'[Len(vars) + 1] = o /\ \A k \in 1 .. Len(vars) : offset'[k] = offset[k]
      BY <1>7, <2>2
    <3>5. ASSUME NEW v \in DOMAIN vars'
          PROVE  addr'[v] = None \/ (addr'[v] = 4 /\ offset'[v] = 4)
      <4>1. v \in 1 .. Len(vars) + 1
        BY <1>6, <3>3
      <4>2. v \in 1 .. Len(vars) \/ v = Len(vars) + 1
        BY <1>7, <4>1
      <4>3. CASE v \in 1 .. Len(vars)
        <5>1. v \in DOMAIN vars /\ v \in 1 .. Len(addr)
          BY <1>7, <4>3
        <5> QED  BY <1>8, <3>2, <3>4, <4>3, <5>1
      <4>4. CASE v = Len(vars) + 1
        BY <1>7, <2>2, <3>2, <3>4, <4>4
      <4> QED  BY <4>2, <4>3, <4>4
    <3> QED  BY <1>7, <3>2, <3>3, <3>5
  <2> QED  BY <2>1, <2>2 DEF Grown
<1>10. \A v \in DOMAIN vars' : ~ (addr'[v] \in Int /\ addr'[v] < 0)
  <2>1. None \notin Int /\ ~ (4 < 0)
    BY NoneAssumption
  <2> QED  BY <1>9, <2>1
<1>11. 1 \in 1 .. Len(code') + 1
  BY <1>6
<1> QED
  BY <1>1, <1>5, <1>9, <1>10, <1>11 DEF AddrOK, AddrTyped, AddrApart, AddrDeep, AddrBelow, Placed

-----------------------------------------------------------------------------
(* The addresses, while stackAlloc works *)

\* What is known of the declarations and of the scopes of their variables.
LEMMA AllocFacts ==
    ASSUME ParseInv
    PROVE  /\ vars \in Seq(Variable) /\ Len(vars) \in Nat /\ code \in Seq(Instruction) /\ Len(code) \in Nat
           /\ DOMAIN code = 1 .. Len(code) /\ DOMAIN vars = 1 .. Len(vars)
           /\ \A v \in DOMAIN vars : LET path == vars[v].path IN
                 /\ path \in Seq(Nat) /\ Len(path) \in Nat /\ Len(path) > 0 /\ path[1] = 0
                 /\ DOMAIN path = 1 .. Len(path) /\ 1 \in DOMAIN path /\ Len(path) \in DOMAIN path
                 /\ Last(path) = path[Len(path)] /\ vars[v].size \in Nat \ {0}
           /\ \A k \in DOMAIN code : IsDec(k) => code[k].res \in DOMAIN vars /\ code[k].res \in Nat
           /\ \A k, m \in DOMAIN code : k < m /\ IsDec(k) /\ IsDec(m) => code[k].res < code[m].res
           /\ \A u, v \in DOMAIN vars : Under(Depth, vars, u, v) =>
                 /\ u < v /\ Prefix(vars[u].path, vars[v].path) /\ Younger(vars, u, vars[v].path)
           /\ \A u, v \in DOMAIN vars : Fork(vars[u].path, vars[v].path)
<1>1. /\ Len(src) \in Nat /\ Depth \in [0 .. Len(src) -> Nat] /\ VarsOK(Depth, Len(src), scopeId, vars)
      /\ vars \in Seq(Variable) /\ Len(vars) \in Nat /\ code \in Seq(Instruction)
  BY ParseFacts
<1>2. UnderOK(Depth, vars) /\ CodeOK(Depth, Len(src), vars, offset, code)
  BY DEF ParseInv, Framed, Scoped
<1>3. Len(code) \in Nat /\ DOMAIN code = 1 .. Len(code) /\ DOMAIN vars = 1 .. Len(vars)
  BY <1>1
<1>4. ASSUME NEW v \in DOMAIN vars
      PROVE  LET path == vars[v].path IN
                 /\ path \in Seq(Nat) /\ Len(path) \in Nat /\ Len(path) > 0 /\ path[1] = 0
                 /\ DOMAIN path = 1 .. Len(path) /\ 1 \in DOMAIN path /\ Len(path) \in DOMAIN path
                 /\ Last(path) = path[Len(path)] /\ vars[v].size \in Nat \ {0}
  <2>1. /\ vars[v].path \in Seq(Nat) /\ Len(vars[v].path) \in Nat /\ Len(vars[v].path) \in DOMAIN vars[v].path
        /\ vars[v].size \in Nat \ {0} /\ vars[v].path[1] = 0 /\ DOMAIN vars[v].path = 1 .. Len(vars[v].path)
    <3>1. /\ Len(src) \in Nat /\ Depth \in [0 .. Len(src) -> Nat]
          /\ VarsOK(Depth, Len(src), scopeId, vars) /\ v \in DOMAIN vars
      BY <1>1
    <3>2. vars[v].path \in Seq(Nat) /\ Len(vars[v].path) \in Nat /\ Len(vars[v].path) \in DOMAIN vars[v].path
      BY <3>1, VariableFacts
    <3>3. vars[v].size \in Nat \ {0} /\ vars[v].path[1] = 0
      BY <3>1, VariableFacts
    <3>4. DOMAIN vars[v].path = 1 .. Len(vars[v].path)
      BY <3>1, VariableFacts
    <3> QED  BY <3>2, <3>3, <3>4
  <2>2. \A n \in Nat : n \in 1 .. n => n > 0 /\ 1 \in 1 .. n
    OBVIOUS
  <2>3. Len(vars[v].path) > 0 /\ 1 \in DOMAIN vars[v].path
    BY <2>1, <2>2
  <2> QED  BY <2>1, <2>3 DEF Last
<1>5. \A k \in DOMAIN code : IsDec(k) => code[k].res \in DOMAIN vars
  BY <1>2 DEF CodeOK, IsDec
<1>6. \A v \in DOMAIN vars : v \in Nat
  BY <1>1
<1>7. \A k, m \in DOMAIN code : k < m /\ IsDec(k) /\ IsDec(m) => code[k].res < code[m].res
  BY <1>2 DEF CodeOK, IsDec
<1>8. ASSUME NEW u \in DOMAIN vars, NEW v \in DOMAIN vars, Under(Depth, vars, u, v)  PROVE u < v
  <2>1. vars[u].tok < vars[v].tok
    BY <1>8 DEF Under
  <2>2. \A x, y \in DOMAIN vars : x < y => vars[x].tok < vars[y].tok
    BY <1>1 DEF VarsOK
  <2>3. vars[u].tok \in Nat /\ vars[v].tok \in Nat /\ u \in Nat /\ v \in Nat
    BY SMTT(30), <1>1, VariableFacts
  <2>4. ~ (v < u) /\ u # v
    BY <2>1, <2>2, <2>3
  <2> QED  BY <2>3, <2>4
<1>9. \A u, v \in DOMAIN vars :
         /\ Under(Depth, vars, u, v) =>
               Prefix(vars[u].path, vars[v].path) /\ Younger(vars, u, vars[v].path)
         /\ Fork(vars[u].path, vars[v].path)
  BY <1>2 DEF UnderOK
<1> QED
  BY <1>1, <1>3, <1>4, <1>5, <1>6, <1>7, <1>8, <1>9

\* The parser has finished.
LEMMA AllocKeeps ==
    ASSUME ParseInv, UNCHANGED parsing, pc # "rejected", pc' \in {"alloc", "done"}, ~ curFun, deepest' \in Nat
    PROVE  ParseInv' /\ Depth' = Depth /\ NamesResolve'
<1>1. /\ src' = src /\ scopeId' = scopeId /\ scopePath' = scopePath /\ vars' = vars /\ curFun' = curFun
      /\ curEsp' = curEsp /\ scopeEsp' = scopeEsp /\ maxDepth' = maxDepth /\ offset' = offset /\ code' = code
  BY DEF parsing
<1>2. Depth' = Depth
  BY <1>1, DepthStays
<1>3. Typed'
  BY <1>1 DEF ParseInv, Typed
<1>4. Top' = Top
  BY <1>1 DEF Top
<1>5. pc # "rejected" /\ pc' # "rejected"
  OBVIOUS
<1>6. Framed(Depth, Len(src), scopePath, scopeId, vars, offset, scopeEsp, curEsp, code, Top)'
  BY <1>1, <1>2, <1>4 DEF ParseInv
<1>7. Declared(src, Depth, Len(src), vars)'
  BY <1>1, <1>2, <1>5 DEF ParseInv
<1>8. ParseInv'
  BY <1>1, <1>3, <1>6, <1>7 DEF ParseInv
<1>9. NamesResolve'
  BY DEF NamesResolve
<1> QED
  BY <1>2, <1>8, <1>9

\* Scope::find: a scope that is missing begins where the lowest one above it ends.
LEMMA FindFacts ==
    ASSUME NEW path \in Seq(Nat), Len(path) > 0, path[1] \in DOMAIN tree
    PROVE  \E last \in DOMAIN path :
              /\ path[last] \in DOMAIN tree
              /\ \A k \in DOMAIN path : path[k] \in DOMAIN tree => k <= last
              /\ DOMAIN Find(path) = DOMAIN tree \cup {path[k] : k \in DOMAIN path}
              /\ Find(path) = [id \in DOMAIN Find(path) |-> IF id \in DOMAIN tree THEN tree[id] ELSE tree[path[last]]]
              /\ Find(path)[Last(path)] = tree[path[last]]
<1> DEFINE known == {k \in DOMAIN path : path[k] \in DOMAIN tree}
           last  == CHOOSE k \in known : \A m \in known : m <= k
<1>1. Len(path) \in Nat /\ DOMAIN path = 1 .. Len(path) /\ 1 \in DOMAIN path /\ Len(path) \in DOMAIN path
  OBVIOUS
<1>2. known \in SUBSET (0 .. Len(path)) /\ known # {}
  BY <1>1
<1>3. last \in known /\ \A m \in known : m <= last
  <2> HIDE DEF known
  <2> QED  BY <1>1, <1>2, Greatest
<1>4. /\ Find(path) = [id \in DOMAIN tree \cup {path[k] : k \in DOMAIN path} |->
                          IF id \in DOMAIN tree THEN tree[id] ELSE tree[path[last]]]
  BY DEF Find
<1>5. last \in DOMAIN path /\ path[last] \in DOMAIN tree
      /\ \A k \in DOMAIN path : path[k] \in DOMAIN tree => k <= last
  BY <1>3
<1> HIDE DEF last, known
<1>6. DOMAIN Find(path) = DOMAIN tree \cup {path[k] : k \in DOMAIN path}
  BY <1>4
<1>7. Find(path)[Last(path)] = tree[path[last]]
  <2>1. Last(path) = path[Len(path)] /\ path[Len(path)] \in {path[k] : k \in DOMAIN path}
    BY <1>1 DEF Last
  <2>2. CASE path[Len(path)] \in DOMAIN tree
    <3>1. Len(path) <= last /\ last \in 1 .. Len(path)
      BY <1>1, <1>5, <2>2
    <3>2. \A n \in Nat : \A x \in 1 .. n : n <= x => x = n
      OBVIOUS
    <3>3. last = Len(path)
      BY <1>1, <3>1, <3>2
    <3> QED  BY <1>4, <2>1, <2>2, <3>3
  <2>3. CASE path[Len(path)] \notin DOMAIN tree
    BY <1>4, <2>1, <2>3
  <2> QED  BY <2>2, <2>3
<1> QED
  BY <1>4, <1>5, <1>6, <1>7

\* The instructions before the cursor and after it.
LEMMA CursorMoves ==
    ASSUME NEW n \in Nat, NEW c \in 1 .. n
    PROVE  /\ c + 1 \in 1 .. n + 1 /\ (c + 1) - 1 = c /\ c \in Nat /\ c - 1 \in Nat
           /\ \A k \in 1 .. c - 1 : k \in 1 .. c /\ k \in 1 .. n /\ k < c
           /\ \A k \in 1 .. c : k \in 1 .. n /\ (k = c \/ k \in 1 .. c - 1)
           /\ \A m \in c + 1 .. n : m \in c .. n /\ m \in 1 .. n /\ c < m
           /\ \A k \in 1 .. c - 1, m \in c + 1 .. n : k < m
           /\ c \in c .. n /\ c \in 1 .. c
           /\ \A k \in 1 .. c : \A h \in k .. c - 1 : h \in k .. c
           /\ \A k \in 1 .. c : c \in k .. c
OBVIOUS

\* A declaration that has still to be looked at is of a variable with no place,
\* and each before it is of an earlier variable.
LEMMA NotPlacedYet ==
    ASSUME ParseInv, AddrOK, NEW m \in cursor .. Len(code), IsDec(m)
    PROVE  /\ code[m].res \in DOMAIN vars /\ ~ Placed(code[m].res)
           /\ \A k \in 1 .. cursor - 1 : IsDec(k) => code[k].res < code[m].res
<1>1. /\ DOMAIN code = 1 .. Len(code) /\ Len(code) \in Nat
      /\ \A k \in DOMAIN code : IsDec(k) => code[k].res \in DOMAIN vars /\ code[k].res \in Nat
      /\ \A j, k \in DOMAIN code : j < k /\ IsDec(j) /\ IsDec(k) => code[j].res < code[k].res
  BY AllocFacts
<1>2. cursor \in 1 .. Len(code) + 1
  BY DEF AddrOK, AddrTyped
<1>3. m \in DOMAIN code /\ \A k \in 1 .. cursor - 1 : k \in DOMAIN code /\ k < m
  BY <1>1, <1>2
<1>4. \A k \in 1 .. cursor - 1 : IsDec(k) => code[k].res < code[m].res
  BY <1>1, <1>3
<1>5. code[m].res \in DOMAIN vars /\ ~ (code[m].res < code[m].res)
  BY <1>1, <1>3
<1>6. ASSUME Placed(code[m].res)  PROVE FALSE
  <2>1. addr[code[m].res] \in Int /\ addr[code[m].res] < 0 /\ None \notin Int
    BY <1>6, NoneAssumption DEF Placed
  <2>2. addr[code[m].res] # None /\ addr[code[m].res] # 4
    BY <2>1
  <2>3. \E k \in 1 .. cursor - 1 : IsDec(k) /\ code[k].res = code[m].res
    BY <1>5, <2>2 DEF AddrOK, AddrTyped
  <2> QED  BY <1>4, <1>5, <2>3
<1> QED
  BY <1>4, <1>5, <1>6

LEMMA InRegisterStep ==
    ASSUME IInv, InRegister
    PROVE  IInv' /\ NamesResolve'
<1>1. /\ pc = "alloc" /\ cursor <= Len(code) /\ IsDec(cursor) /\ cursor' = cursor + 1
      /\ UNCHANGED parsing /\ pc' = "alloc" /\ tree' = tree /\ addr' = addr /\ deepest' = deepest
  BY DEF InRegister, IsDec
<1>2. ParseInv /\ AddrOK /\ TreeOK /\ ~ curFun /\ deepest \in Nat
  BY <1>1 DEF IInv, ParseInv, Typed
<1>3. ParseInv' /\ Depth' = Depth /\ NamesResolve'
  BY <1>1, <1>2, AllocKeeps
<1>4. vars' = vars /\ code' = code /\ offset' = offset
  BY <1>1 DEF parsing
<1>5. Len(code) \in Nat /\ cursor \in 1 .. Len(code)
  <2>1. Len(code) \in Nat /\ cursor \in 1 .. Len(code) + 1
    BY <1>2, AllocFacts DEF AddrOK, AddrTyped
  <2> QED  BY <1>1, <2>1
<1>6. /\ cursor' \in 1 .. Len(code) + 1 /\ cursor' - 1 = cursor
      /\ \A k \in 1 .. cursor - 1 : k \in 1 .. cursor
      /\ \A k \in 1 .. cursor : k = cursor \/ k \in 1 .. cursor - 1
      /\ \A m \in cursor' .. Len(code) : m \in cursor .. Len(code)
      /\ cursor \in cursor .. Len(code)
      /\ \A k \in 1 .. cursor : \A h \in k .. cursor - 1 : h \in k .. cursor
  BY <1>1, <1>5, CursorMoves
<1>7. ~ Placed(code[cursor].res)
  BY <1>1, <1>2, <1>6, NotPlacedYet
<1>8. TreeOK'
  BY <1>1, <1>2, <1>4, <1>6 DEF TreeOK, IsDec
<1>9. AddrTyped'
  BY <1>1, <1>2, <1>4, <1>6 DEF AddrOK, AddrTyped, IsDec
<1>10. AddrApart'
  BY <1>1, <1>2, <1>3, <1>4 DEF AddrOK, AddrApart, Placed
<1>11. AddrDeep'
  BY <1>1, <1>2, <1>4, <1>6, <1>7 DEF AddrOK, AddrDeep, Placed, IsDec, SameFun
<1>12. AddrBelow'
  <2>1. ASSUME NEW k \in 1 .. cursor, NEW m \in cursor' .. Len(code), IsDec(k), IsDec(m),
               Placed(code[k].res), Under(Depth, vars, code[k].res, code[m].res)
        PROVE  Below(code[k].res, code[m].res)
    <3>1. k \in 1 .. cursor - 1 /\ m \in cursor .. Len(code)
      BY <1>6, <1>7, <2>1
    <3> QED  BY <1>2, <2>1, <3>1 DEF AddrOK, AddrBelow
  <2>2. SUFFICES ASSUME NEW k \in 1 .. cursor' - 1, NEW m \in cursor' .. Len(code'),
                        IsDec(k)', IsDec(m)', Placed(code[k].res)', Under(Depth, vars, code[k].res, code[m].res)'
                 PROVE  Below(code[k].res, code[m].res)'
    BY DEF AddrBelow
  <2>3. k \in 1 .. cursor /\ m \in cursor' .. Len(code) /\ IsDec(k) /\ IsDec(m)
    BY <1>4, <1>6, <2>2 DEF IsDec
  <2>4. Placed(code[k].res) /\ Under(Depth, vars, code[k].res, code[m].res)
    BY <1>1, <1>3, <1>4, <2>2 DEF Placed
  <2>5. Below(code[k].res, code[m].res)
    BY <2>1, <2>3, <2>4
  <2> QED  BY <1>1, <1>4, <2>5 DEF Below
<1> QED
  BY <1>3, <1>8, <1>9, <1>10, <1>11, <1>12 DEF IInv, AddrOK

\* The cursor inside the code.
LEMMA CursorFacts ==
    ASSUME ParseInv, AddrOK, cursor <= Len(code), cursor' = cursor + 1
    PROVE  /\ cursor \in 1 .. Len(code) /\ cursor \in DOMAIN code
           /\ cursor' \in 1 .. Len(code) + 1 /\ cursor' - 1 = cursor
           /\ \A k \in 1 .. cursor - 1 : k \in 1 .. cursor /\ k \in DOMAIN code /\ k < cursor
           /\ \A k \in 1 .. cursor : k \in DOMAIN code /\ (k = cursor \/ k \in 1 .. cursor - 1)
           /\ \A m \in cursor' .. Len(code) : m \in cursor .. Len(code) /\ m \in DOMAIN code /\ cursor < m
           /\ cursor \in cursor .. Len(code) /\ cursor \in 1 .. cursor
           /\ \A k \in 1 .. cursor : cursor \in k .. cursor /\ \A h \in k .. cursor - 1 : h \in k .. cursor
<1>1. Len(code) \in Nat /\ DOMAIN code = 1 .. Len(code) /\ cursor \in 1 .. Len(code) + 1
  BY AllocFacts DEF AddrOK, AddrTyped
<1>2. cursor \in 1 .. Len(code)
  <2>1. \A n \in Nat : \A c \in 1 .. n + 1 : c <= n => c \in 1 .. n
    OBVIOUS
  <2> QED  BY <1>1, <2>1
<1> QED
  BY <1>1, <1>2, CursorMoves

LEMMA OtherInstStep ==
    ASSUME IInv, OtherInst
    PROVE  IInv' /\ NamesResolve'
<1>1. /\ pc = "alloc" /\ cursor <= Len(code) /\ ~ IsDec(cursor) /\ cursor' = cursor + 1
      /\ UNCHANGED parsing /\ pc' = "alloc" /\ addr' = addr
      /\ \/ code[cursor].op = "entry" /\ tree' = Root /\ deepest' = 0
         \/ code[cursor].op # "entry" /\ tree' = tree /\ deepest' = deepest
  BY DEF OtherInst, IsDec
<1>2. ParseInv /\ AddrOK /\ TreeOK /\ ~ curFun /\ deepest \in Nat
  BY <1>1 DEF IInv, ParseInv, Typed
<1>3. ParseInv' /\ Depth' = Depth /\ NamesResolve'
  BY <1>1, <1>2, AllocKeeps
<1>4. vars' = vars /\ code' = code /\ offset' = offset
  BY <1>1 DEF parsing
<1>5. /\ cursor \in DOMAIN code /\ cursor' \in 1 .. Len(code) + 1 /\ cursor' - 1 = cursor
      /\ \A k \in 1 .. cursor - 1 : k \in 1 .. cursor /\ k \in DOMAIN code /\ k < cursor
      /\ \A k \in 1 .. cursor : k = cursor \/ k \in 1 .. cursor - 1
      /\ \A m \in cursor' .. Len(code) : m \in cursor .. Len(code) /\ m \in DOMAIN code /\ cursor < m
      /\ \A k \in 1 .. cursor : cursor \in k .. cursor /\ \A h \in k .. cursor - 1 : h \in k .. cursor
  BY <1>1, <1>2, CursorFacts
<1>6. \A k \in 1 .. cursor : IsDec(k) => k \in 1 .. cursor - 1
  BY <1>1, <1>5
<1>7. AddrTyped'
  BY <1>1, <1>2, <1>4, <1>5 DEF AddrOK, AddrTyped, IsDec
<1>8. AddrApart'
  BY <1>1, <1>2, <1>3, <1>4 DEF AddrOK, AddrApart, Placed
<1>9. CASE code[cursor].op = "entry"
  <2>1. tree' = [x \in {0} |-> 0] /\ deepest' = 0
    BY <1>1, <1>9 DEF Root
  <2>2. DOMAIN tree' = {0} /\ tree'[0] = 0
    BY <2>1
  <2>3. TreeOK'
    <3>1. /\ Len(src) \in Nat /\ Depth \in [0 .. Len(src) -> Nat]
          /\ VarsOK(Depth, Len(src), scopeId, vars) /\ UnderOK(Depth, vars)
      BY <1>2, ParseFacts DEF ParseInv, Framed, Scoped
    <3>2. \A v \in DOMAIN vars : \A k \in DOMAIN vars[v].path : \A j \in 1 .. k :
             vars[v].path[k] = 0 => vars[v].path[j] = 0
      BY <3>1, RootOnly
    <3>3. 0 \in Nat
      OBVIOUS
    <3> QED  BY <1>4, <2>2, <3>2, <3>3 DEF TreeOK
  <2>4. AddrDeep'
    BY <1>4, <1>5, <1>9 DEF AddrDeep, SameFun
  <2>5. AddrBelow'
    <3>1. SUFFICES ASSUME NEW k \in 1 .. cursor' - 1, NEW m \in cursor' .. Len(code'),
                          IsDec(k)', IsDec(m)', Placed(code[k].res)', Under(Depth, vars, code[k].res, code[m].res)'
                   PROVE  FALSE
      BY DEF AddrBelow
    <3>2. k \in 1 .. cursor /\ m \in DOMAIN code /\ cursor < m /\ IsDec(k) /\ IsDec(m)
      BY <1>4, <1>5, <3>1 DEF IsDec
    <3>3. k \in DOMAIN code /\ k < cursor
      BY <1>5, <1>6, <3>2
    <3>4. Under(Depth, vars, code[k].res, code[m].res)
      BY <1>3, <1>4, <3>1
    <3>5. CodeOK(Depth, Len(src), vars, offset, code)
      BY <1>2 DEF ParseInv, Framed
    <3> QED  BY <1>5, <1>9, <3>2, <3>3, <3>4, <3>5 DEF CodeOK, IsDec
  <2> QED  BY <1>3, <1>7, <1>8, <2>3, <2>4, <2>5 DEF IInv, AddrOK
<1>10. CASE code[cursor].op # "entry"
  <2>1. tree' = tree /\ deepest' = deepest
    BY <1>1, <1>10
  <2>2. TreeOK'
    BY <1>2, <1>4, <1>5, <2>1 DEF TreeOK, IsDec
  <2>3. AddrDeep'
    BY <1>1, <1>2, <1>4, <1>5, <1>6, <2>1 DEF AddrOK, AddrDeep, Placed, IsDec, SameFun
  <2>4. AddrBelow'
    <3>1. SUFFICES ASSUME NEW k \in 1 .. cursor' - 1, NEW m \in cursor' .. Len(code'),
                          IsDec(k)', IsDec(m)', Placed(code[k].res)', Under(Depth, vars, code[k].res, code[m].res)'
                   PROVE  Below(code[k].res, code[m].res)'
      BY DEF AddrBelow
    <3>2. k \in 1 .. cursor /\ m \in cursor .. Len(code) /\ IsDec(k) /\ IsDec(m)
      BY <1>4, <1>5, <3>1 DEF IsDec
    <3>3. k \in 1 .. cursor - 1
      BY <1>6, <3>2
    <3>4. Placed(code[k].res) /\ Under(Depth, vars, code[k].res, code[m].res)
      BY <1>1, <1>3, <1>4, <3>1 DEF Placed
    <3>5. Below(code[k].res, code[m].res)
      BY <1>2, <3>2, <3>3, <3>4 DEF AddrOK, AddrBelow
    <3> QED  BY <1>1, <1>4, <2>1, <3>5 DEF Below
  <2> QED  BY <1>3, <1>7, <1>8, <2>2, <2>3, <2>4 DEF IInv, AddrOK
<1> QED
  BY <1>9, <1>10

LEMMA AllocPcStep ==
    ASSUME IInv, UNCHANGED <<parsing, allocating>>, pc # "rejected", pc' \in {"alloc", "done"}, ~ curFun
    PROVE  IInv' /\ NamesResolve'
<1>1. /\ UNCHANGED parsing /\ cursor' = cursor /\ tree' = tree /\ addr' = addr /\ deepest' = deepest
      /\ pc' \notin {"parse", "rejected"}
  BY DEF allocating
<1>2. ParseInv /\ AddrOK /\ TreeOK /\ deepest \in Nat
  BY DEF IInv, ParseInv, Typed
<1>3. ParseInv' /\ Depth' = Depth /\ NamesResolve'
  BY <1>1, <1>2, AllocKeeps
<1>4. vars' = vars /\ code' = code /\ offset' = offset
  BY <1>1 DEF parsing
<1>5. TreeOK'
  BY <1>1, <1>2, <1>4 DEF TreeOK, IsDec
<1>6. AddrTyped'
  BY <1>1, <1>2, <1>4 DEF AddrOK, AddrTyped, IsDec
<1>7. AddrApart'
  BY <1>1, <1>2, <1>3, <1>4 DEF AddrOK, AddrApart, Placed
<1>8. AddrDeep'
  BY <1>1, <1>2, <1>4 DEF AddrOK, AddrDeep, Placed, IsDec, SameFun
<1>9. AddrBelow'
  <2>1. SUFFICES ASSUME NEW k \in 1 .. cursor' - 1, NEW m \in cursor' .. Len(code'),
                        IsDec(k)', IsDec(m)', Placed(code[k].res)', Under(Depth, vars, code[k].res, code[m].res)'
                 PROVE  Below(code[k].res, code[m].res)'
    BY DEF AddrBelow
  <2>2. k \in 1 .. cursor - 1 /\ m \in cursor .. Len(code) /\ IsDec(k) /\ IsDec(m)
    BY <1>1, <1>4, <2>1 DEF IsDec
  <2>3. Placed(code[k].res) /\ Under(Depth, vars, code[k].res, code[m].res)
    BY <1>1, <1>3, <1>4, <2>1 DEF Placed
  <2>4. Below(code[k].res, code[m].res)
    BY <1>2, <2>2, <2>3 DEF AddrOK, AddrBelow
  <2> QED  BY <1>1, <1>4, <2>4 DEF Below
<1> QED
  BY <1>3, <1>5, <1>6, <1>7, <1>8, <1>9 DEF IInv, AddrOK

\* What a declaration that is placed in the frame does to the tree: scopes of its
\* path are added, and none gets smaller.
LEMMA PlaceFacts ==
    ASSUME ParseInv, TreeOK, NEW v \in DOMAIN vars,
           LET found == Find(vars[v].path)
               esp   == found[Last(vars[v].path)] + Words(vars[v].size)
           IN  /\ tree' = [found EXCEPT ![Last(vars[v].path)] = esp]
               /\ addr' = [addr EXCEPT ![v] = -esp]
               /\ deepest' = IF esp > deepest THEN esp ELSE deepest,
           DOMAIN addr = DOMAIN vars, deepest \in Nat
    PROVE  \E last \in DOMAIN vars[v].path, esp \in Nat :
              LET p == vars[v].path IN
              /\ p[last] \in DOMAIN tree
              /\ \A k \in DOMAIN p : p[k] \in DOMAIN tree => k <= last
              /\ tree[p[last]] \in Nat /\ tree[p[last]] + vars[v].size <= esp
              /\ addr' = [addr EXCEPT ![v] = -esp] /\ deepest' \in Nat /\ esp <= deepest' /\ deepest <= deepest'
              /\ DOMAIN tree' = DOMAIN tree \cup {p[k] : k \in DOMAIN p}
              /\ tree'[p[Len(p)]] = esp
              /\ \A id \in DOMAIN tree : tree'[id] \in Nat /\ tree[id] <= tree'[id]
              /\ \A k \in DOMAIN p : p[k] \notin DOMAIN tree => tree'[p[k]] \in Nat /\ tree[p[last]] <= tree'[p[k]]
<1> DEFINE p == vars[v].path
           found == Find(p)
           room == Words(vars[v].size)
           esp == found[Last(p)] + room
<1>1. /\ p \in Seq(Nat) /\ Len(p) > 0 /\ p[1] = 0 /\ DOMAIN p = 1 .. Len(p) /\ Last(p) = p[Len(p)]
      /\ Len(p) \in DOMAIN p /\ vars[v].size \in Nat \ {0}
  BY AllocFacts
<1>2. /\ tree' = [found EXCEPT ![Last(p)] = esp] /\ addr' = [addr EXCEPT ![v] = -esp]
      /\ deepest' = IF esp > deepest THEN esp ELSE deepest
  OBVIOUS
<1>3. 0 \in DOMAIN tree /\ \A id \in DOMAIN tree : tree[id] \in Nat
  BY DEF TreeOK
<1>4. room \in Nat /\ vars[v].size <= room
  BY <1>1, WordsHold
<1> HIDE DEF p, room
<1>5. PICK last \in DOMAIN p :
              /\ p[last] \in DOMAIN tree
              /\ \A k \in DOMAIN p : p[k] \in DOMAIN tree => k <= last
              /\ DOMAIN Find(p) = DOMAIN tree \cup {p[k] : k \in DOMAIN p}
              /\ Find(p) = [id \in DOMAIN Find(p) |-> IF id \in DOMAIN tree THEN tree[id] ELSE tree[p[last]]]
              /\ Find(p)[Last(p)] = tree[p[last]]
  BY <1>1, <1>3, FindFacts
<1> HIDE DEF found
<1>6. /\ DOMAIN found = DOMAIN tree \cup {p[k] : k \in DOMAIN p} /\ found[Last(p)] = tree[p[last]]
      /\ \A id \in DOMAIN found : found[id] = IF id \in DOMAIN tree THEN tree[id] ELSE tree[p[last]]
  BY <1>5 DEF found
<1>7. tree[p[last]] \in Nat /\ esp = tree[p[last]] + room
  BY <1>3, <1>5, <1>6
<1>8. esp \in Nat /\ tree[p[last]] + vars[v].size <= esp /\ tree[p[last]] <= esp
  BY <1>1, <1>4, <1>7
<1> HIDE DEF esp
<1>9. deepest' \in Nat /\ esp <= deepest' /\ deepest <= deepest'
  BY <1>2, <1>8
<1>10. DOMAIN tree' = DOMAIN tree \cup {p[k] : k \in DOMAIN p}
  BY <1>2, <1>6
<1>11. Last(p) \in DOMAIN found
  BY <1>1, <1>6
<1>12. tree'[p[Len(p)]] = esp
  BY <1>1, <1>2, <1>11
<1>13. \A id \in DOMAIN found : tree'[id] = IF id = Last(p) THEN esp ELSE found[id]
  BY <1>2
<1>14. ASSUME NEW id \in DOMAIN tree  PROVE tree'[id] \in Nat /\ tree[id] <= tree'[id]
  <2>1. id \in DOMAIN found /\ found[id] = tree[id] /\ tree[id] \in Nat
    BY <1>3, <1>6, <1>14
  <2>2. CASE id = Last(p)
    <3>1. tree'[id] = esp /\ tree[id] = tree[p[last]]
      BY <1>6, <1>13, <2>1, <2>2
    <3> QED  BY <1>8, <3>1
  <2>3. CASE id # Last(p)
    <3>1. tree'[id] = tree[id]
      BY <1>13, <2>1, <2>3
    <3> QED  BY <2>1, <3>1
  <2> QED  BY <2>2, <2>3
<1>15. ASSUME NEW k \in DOMAIN p, p[k] \notin DOMAIN tree  PROVE tree'[p[k]] \in Nat /\ tree[p[last]] <= tree'[p[k]]
  <2>1. p[k] \in DOMAIN found /\ found[p[k]] = tree[p[last]]
    BY <1>6, <1>15
  <2>2. CASE p[k] = Last(p)
    <3>1. tree'[p[k]] = esp
      BY <1>13, <2>1, <2>2
    <3> QED  BY <1>8, <3>1
  <2>3. CASE p[k] # Last(p)
    <3>1. tree'[p[k]] = tree[p[last]]
      BY <1>13, <2>1, <2>3
    <3> QED  BY <1>7, <3>1
  <2> QED  BY <2>2, <2>3
<1> QED
  BY <1>2, <1>5, <1>7, <1>8, <1>9, <1>10, <1>12, <1>14, <1>15 DEF p

LEMMA InFrameStep ==
    ASSUME IInv, InFrame
    PROVE  IInv' /\ NamesResolve'
<1> DEFINE v == code[cursor].res
           p == vars[v].path
<1>1. /\ pc = "alloc" /\ cursor <= Len(code) /\ IsDec(cursor) /\ cursor' = cursor + 1
      /\ UNCHANGED parsing /\ pc' = "alloc"
      /\ LET found == Find(p)
             esp   == found[Last(p)] + Words(vars[v].size)
         IN  /\ tree' = [found EXCEPT ![Last(p)] = esp]
             /\ addr' = [addr EXCEPT ![v] = -esp]
             /\ deepest' = IF esp > deepest THEN esp ELSE deepest
  BY DEF InFrame, IsDec
<1>2. ParseInv /\ AddrOK /\ TreeOK /\ ~ curFun /\ deepest \in Nat
  BY <1>1 DEF IInv, ParseInv, Typed
<1>3. /\ cursor \in DOMAIN code /\ cursor' \in 1 .. Len(code) + 1 /\ cursor' - 1 = cursor
      /\ \A k \in 1 .. cursor - 1 : k \in 1 .. cursor /\ k \in DOMAIN code /\ k < cursor
      /\ \A k \in 1 .. cursor : k = cursor \/ k \in 1 .. cursor - 1
      /\ \A m \in cursor' .. Len(code) : m \in cursor .. Len(code) /\ m \in DOMAIN code /\ cursor < m
      /\ cursor \in cursor .. Len(code) /\ cursor \in 1 .. cursor
      /\ \A k \in 1 .. cursor : cursor \in k .. cursor /\ \A h \in k .. cursor - 1 : h \in k .. cursor
  BY <1>1, <1>2, CursorFacts
<1>4. /\ v \in DOMAIN vars /\ v \in Nat /\ ~ Placed(v)
      /\ \A k \in 1 .. cursor - 1 : IsDec(k) => code[k].res \in DOMAIN vars /\ code[k].res \in Nat /\ code[k].res < v
  <2>1. v \in DOMAIN vars /\ ~ Placed(v) /\ \A k \in 1 .. cursor - 1 : IsDec(k) => code[k].res < v
    BY <1>1, <1>2, <1>3, NotPlacedYet
  <2>2. \A k \in DOMAIN code : IsDec(k) => code[k].res \in DOMAIN vars /\ code[k].res \in Nat
    BY <1>2, AllocFacts
  <2> QED  BY <1>1, <1>3, <2>1, <2>2
<1>5. /\ addr \in Seq(Int \cup {None}) /\ Len(addr) = Len(vars) /\ DOMAIN addr = DOMAIN vars
      /\ \A u \in DOMAIN vars : vars[u].size \in Nat \ {0} /\ addr[u] \in Int \cup {None}
  <2>1. addr \in Seq(Int \cup {None}) /\ Len(addr) = Len(vars)
    BY <1>2 DEF AddrOK, AddrTyped
  <2>2. DOMAIN vars = 1 .. Len(vars) /\ \A u \in DOMAIN vars : vars[u].size \in Nat \ {0}
    BY <1>2, AllocFacts
  <2>3. DOMAIN addr = 1 .. Len(addr) /\ \A u \in 1 .. Len(addr) : addr[u] \in Int \cup {None}
    BY <2>1
  <2> QED  BY <2>1, <2>2, <2>3
<1>6. PICK last \in DOMAIN p, esp \in Nat :
              /\ p[last] \in DOMAIN tree
              /\ \A k \in DOMAIN p : p[k] \in DOMAIN tree => k <= last
              /\ tree[p[last]] \in Nat /\ tree[p[last]] + vars[v].size <= esp
              /\ addr' = [addr EXCEPT ![v] = -esp] /\ deepest' \in Nat /\ esp <= deepest' /\ deepest <= deepest'
              /\ DOMAIN tree' = DOMAIN tree \cup {p[k] : k \in DOMAIN p}
              /\ tree'[p[Len(p)]] = esp
              /\ \A id \in DOMAIN tree : tree'[id] \in Nat /\ tree[id] <= tree'[id]
              /\ \A k \in DOMAIN p : p[k] \notin DOMAIN tree => tree'[p[k]] \in Nat /\ tree[p[last]] <= tree'[p[k]]
  BY <1>1, <1>2, <1>4, <1>5, PlaceFacts
<1>7. ParseInv' /\ Depth' = Depth /\ NamesResolve'
  BY <1>1, <1>2, <1>6, AllocKeeps
<1>8. vars' = vars /\ code' = code /\ offset' = offset
  BY <1>1 DEF parsing
<1>9. /\ \A u \in DOMAIN vars : LET path == vars[u].path IN
            /\ path \in Seq(Nat) /\ Len(path) \in Nat /\ Len(path) > 0 /\ path[1] = 0
            /\ DOMAIN path = 1 .. Len(path) /\ 1 \in DOMAIN path /\ Len(path) \in DOMAIN path
      /\ \A u, x \in DOMAIN vars : Under(Depth, vars, u, x) =>
            /\ u < x /\ Prefix(vars[u].path, vars[x].path) /\ Younger(vars, u, vars[x].path)
      /\ \A u, x \in DOMAIN vars : Fork(vars[u].path, vars[x].path)
      /\ DOMAIN vars = 1 .. Len(vars) /\ Len(vars) \in Nat
  BY <1>2, AllocFacts
<1>10. addr'[v] = -esp /\ \A u \in DOMAIN vars : u # v => addr'[u] = addr[u]
  BY <1>4, <1>5, <1>6
<1>11. tree[p[last]] \in Nat /\ -esp + vars[v].size <= -tree[p[last]] /\ -esp + vars[v].size <= 0 /\ -esp < 0 /\ -esp \in Int
  <2>1. tree[p[last]] \in Nat /\ tree[p[last]] + vars[v].size <= esp /\ vars[v].size \in Nat \ {0}
    BY <1>4, <1>5, <1>6
  <2>2. \A x \in Nat, s \in Nat \ {0} : x + s <= esp => -esp + s <= -x /\ -esp + s <= 0 /\ -esp < 0 /\ -esp \in Int
    OBVIOUS
  <2> QED  BY <2>1, <2>2
<1> HIDE DEF v, p
<1>12. TreeOK'
  <2>1. \A id \in DOMAIN tree' : tree'[id] \in Nat
    BY <1>6
  <2>2. 0 \in DOMAIN tree'
    BY <1>2, <1>6 DEF TreeOK
  <2>3. ASSUME NEW u \in DOMAIN vars, NEW k \in DOMAIN vars[u].path, NEW j \in 1 .. k, vars[u].path[k] \in DOMAIN tree'
        PROVE  vars[u].path[j] \in DOMAIN tree'
    <3>1. CASE vars[u].path[k] \in DOMAIN tree
      BY <1>2, <1>6, <2>3, <3>1 DEF TreeOK
    <3>2. CASE vars[u].path[k] \notin DOMAIN tree
      <4>1. PICK m \in DOMAIN p : vars[u].path[k] = p[m]
        BY <1>6, <2>3, <3>2
      <4>2. Fork(vars[u].path, p)
        BY <1>4, <1>9 DEF p
      <4>3. k = m /\ vars[u].path[j] = p[j]
        BY <4>1, <4>2 DEF Fork
      <4>4. DOMAIN p = 1 .. Len(p) /\ Len(p) \in Nat
        BY <1>4, <1>9 DEF p
      <4>5. \A n \in Nat : \A x \in 1 .. n : \A y \in 1 .. x : y \in 1 .. n
        OBVIOUS
      <4>6. j \in DOMAIN p
        BY <4>3, <4>4, <4>5
      <4> QED  BY <1>6, <4>3, <4>6
    <3> QED  BY <3>1, <3>2
  <2>4. ASSUME NEW id \in DOMAIN tree', id # 0
        PROVE  \E k \in 1 .. cursor : IsDec(k) /\
                  \E j \in DOMAIN vars[code[k].res].path : vars[code[k].res].path[j] = id
    <3>1. CASE id \in DOMAIN tree
      BY <1>2, <1>3, <2>4, <3>1 DEF TreeOK
    <3>2. CASE id \notin DOMAIN tree
      <4>1. PICK j \in DOMAIN p : id = p[j]
        BY <1>6, <2>4, <3>2
      <4>2. cursor \in 1 .. cursor /\ IsDec(cursor) /\ j \in DOMAIN vars[code[cursor].res].path
            /\ vars[code[cursor].res].path[j] = id
        BY <1>1, <1>3, <4>1 DEF p, v
      <4> QED  BY <4>2
    <3> QED  BY <3>1, <3>2
  <2> QED  BY <1>3, <1>8, <2>1, <2>2, <2>3, <2>4 DEF TreeOK, IsDec
<1>13. AddrTyped'
  <2>1. addr' \in Seq(Int \cup {None}) /\ Len(addr') = Len(vars)
    <3>1. -esp \in Int \cup {None}
      BY <1>11
    <3>2. v \in 1 .. Len(addr)
      BY <1>4, <1>5, <1>9
    <3>3. addr' = [addr EXCEPT ![v] = -esp]
      BY <1>6
    <3> QED  BY <1>5, <3>1, <3>2, <3>3
  <2>2. ASSUME NEW u \in DOMAIN vars
        PROVE  \/ addr'[u] = None
               \/ addr'[u] = 4 /\ offset[u] = 4
               \/ /\ addr'[u] \in Int /\ addr'[u] + vars[u].size <= 0
                  /\ \E k \in 1 .. cursor : IsDec(k) /\ code[k].res = u
    <3>1. CASE u = v
      <4>1. addr'[u] \in Int /\ addr'[u] + vars[u].size <= 0
        BY <1>10, <1>11, <3>1
      <4>2. cursor \in 1 .. cursor /\ IsDec(cursor) /\ code[cursor].res = u
        BY <1>1, <1>3, <3>1 DEF v
      <4> QED  BY <4>1, <4>2
    <3>2. CASE u # v
      <4>1. addr'[u] = addr[u]
        BY <1>10, <3>2
      <4>2. \/ addr[u] = None
            \/ addr[u] = 4 /\ offset[u] = 4
            \/ /\ addr[u] \in Int /\ addr[u] + vars[u].size <= 0
               /\ \E k \in 1 .. cursor - 1 : IsDec(k) /\ code[k].res = u
        BY <1>2 DEF AddrOK, AddrTyped
      <4> QED  BY <1>3, <4>1, <4>2
    <3> QED  BY <3>1, <3>2
  <2> QED  BY <1>1, <1>3, <1>8, <2>1, <2>2 DEF AddrTyped, IsDec
<1>14. \A u \in DOMAIN vars : u # v =>
          /\ Placed(u)' <=> Placed(u)
          /\ Placed(u) => \E k \in 1 .. cursor - 1 : IsDec(k) /\ code[k].res = u
  <2>1. ASSUME NEW u \in DOMAIN vars, u # v  PROVE Placed(u)' <=> Placed(u)
    BY <1>10, <2>1 DEF Placed
  <2>2. ASSUME NEW u \in DOMAIN vars, Placed(u)  PROVE \E k \in 1 .. cursor - 1 : IsDec(k) /\ code[k].res = u
    <3>1. addr[u] \in Int /\ addr[u] < 0 /\ None \notin Int
      BY <2>2, NoneAssumption DEF Placed
    <3>2. addr[u] # None /\ addr[u] # 4
      BY <3>1
    <3> QED  BY <1>2, <3>2 DEF AddrOK, AddrTyped
  <2> QED  BY <2>1, <2>2
<1>15. AddrApart'
  <2>1. SUFFICES ASSUME NEW u \in DOMAIN vars, NEW x \in DOMAIN vars, Under(Depth, vars, u, x), Placed(u)', Placed(x)'
                 PROVE  addr'[x] + vars[x].size <= addr'[u]
    BY <1>7, <1>8 DEF AddrApart
  <2>2. u < x /\ Prefix(vars[u].path, vars[x].path) /\ u \in Nat /\ x \in Nat
    BY <1>9, <2>1
  <2>3. CASE x = v
    <3>1. u # v /\ Placed(u) /\ addr'[u] = addr[u]
      BY <1>10, <1>14, <2>1, <2>2, <2>3
    <3>2. PICK k \in 1 .. cursor - 1 : IsDec(k) /\ code[k].res = u
      BY <1>14, <3>1
    <3>3. Below(u, v)
      BY <1>1, <1>2, <1>3, <2>1, <2>3, <3>1, <3>2 DEF AddrOK, AddrBelow, v
    <3>4. /\ vars[u].path[Len(vars[u].path)] \in DOMAIN tree
          /\ \A m \in Len(vars[u].path) .. Len(p) : p[m] \in DOMAIN tree => -addr[u] <= tree[p[m]]
      BY <3>3 DEF Below, p
    <3>5. Len(vars[u].path) \in 1 .. Len(p) /\ p[Len(vars[u].path)] = vars[u].path[Len(vars[u].path)]
      <4>1. Prefix(vars[u].path, p) /\ Len(vars[u].path) \in Nat /\ Len(vars[u].path) > 0 /\ Len(p) \in Nat
        BY <1>4, <1>9, <2>2, <2>3 DEF p
      <4>2. Len(vars[u].path) \in 1 .. Len(vars[u].path) /\ Len(vars[u].path) \in 1 .. Len(p)
        BY <4>1 DEF Prefix
      <4> QED  BY <4>1, <4>2 DEF Prefix
    <3>6. DOMAIN p = 1 .. Len(p) /\ Len(p) \in Nat
      BY <1>4, <1>9 DEF p
    <3>7. Len(vars[u].path) <= last
      BY <1>6, <3>4, <3>5, <3>6
    <3>8. last \in Len(vars[u].path) .. Len(p)
      BY <3>5, <3>6, <3>7
    <3>9. -addr[u] <= tree[p[last]]
      BY <1>6, <3>4, <3>8
    <3>10. addr[u] \in Int
      BY <3>1 DEF Placed
    <3>11. -esp + vars[v].size <= addr[u]
      <4>1. vars[v].size \in Nat
        BY <1>4, <1>5
      <4>2. \A a \in Int, t \in Nat, s \in Nat : -esp + s <= -t /\ -a <= t => -esp + s <= a
        OBVIOUS
      <4> QED  BY <1>11, <3>9, <3>10, <4>1, <4>2
    <3> QED  BY <1>10, <2>3, <3>1, <3>11
  <2>4. CASE u = v
    <3>1. x # v /\ Placed(x)
      BY <1>14, <2>1, <2>2, <2>4
    <3>2. PICK k \in 1 .. cursor - 1 : IsDec(k) /\ code[k].res = x
      BY <1>14, <3>1
    <3>3. x < v
      BY <1>4, <3>2
    <3> QED  BY <2>2, <2>4, <3>3
  <2>5. CASE u # v /\ x # v
    <3>1. Placed(u) /\ Placed(x) /\ addr'[u] = addr[u] /\ addr'[x] = addr[x]
      BY <1>10, <1>14, <2>1, <2>5
    <3> QED  BY <1>2, <2>1, <3>1 DEF AddrOK, AddrApart
  <2> QED  BY <2>3, <2>4, <2>5
<1>16. AddrDeep'
  <2>1. SUFFICES ASSUME NEW k \in 1 .. cursor, IsDec(k), SameFun(k, cursor), Placed(code[k].res)'
                 PROVE  -addr'[code[k].res] <= deepest'
    BY <1>3, <1>8 DEF AddrDeep, IsDec, SameFun, Placed
  <2>2. CASE k = cursor
    <3>1. addr'[code[k].res] = -esp /\ - -esp = esp
      BY <1>10, <2>2 DEF v
    <3> QED  BY <1>6, <3>1
  <2>3. CASE k # cursor
    <3>1. k \in 1 .. cursor - 1
      BY <1>3, <2>3
    <3>2. code[k].res \in DOMAIN vars /\ code[k].res # v
      BY <1>4, <2>1, <3>1
    <3>3. Placed(code[k].res) /\ addr'[code[k].res] = addr[code[k].res]
      <4>1. addr'[code[k].res] = addr[code[k].res]
        BY <1>10, <3>2
      <4> QED  BY <1>8, <2>1, <4>1 DEF Placed
    <3>4. SameFun(k, cursor - 1)
      BY <1>3, <2>1 DEF SameFun
    <3>5. -addr[code[k].res] <= deepest
      BY <1>2, <2>1, <3>1, <3>3, <3>4 DEF AddrOK, AddrDeep
    <3>6. -addr[code[k].res] \in Int
      BY <3>3 DEF Placed
    <3>7. \A a \in Int, x, y \in Nat : a <= x /\ x <= y => a <= y
      OBVIOUS
    <3> QED  BY <1>2, <1>6, <3>3, <3>5, <3>6, <3>7
  <2> QED  BY <2>2, <2>3
<1>17. AddrBelow'
  <2>1. SUFFICES ASSUME NEW k \in 1 .. cursor, NEW m \in cursor' .. Len(code), IsDec(k), IsDec(m),
                        Placed(code[k].res)', Under(Depth, vars, code[k].res, code[m].res)
                 PROVE  Below(code[k].res, code[m].res)'
    <3>1. ASSUME NEW k \in 1 .. cursor' - 1, NEW m \in cursor' .. Len(code'),
                 IsDec(k)', IsDec(m)', Placed(code[k].res)', Under(Depth, vars, code[k].res, code[m].res)'
          PROVE  /\ k \in 1 .. cursor /\ m \in cursor' .. Len(code) /\ IsDec(k) /\ IsDec(m)
                 /\ Under(Depth, vars, code[k].res, code[m].res)
      BY <1>3, <1>7, <1>8, <3>1 DEF IsDec
    <3> QED  BY <3>1 DEF AddrBelow
  <2> DEFINE u == code[k].res
             x == code[m].res
             s == vars[u].path
             q == vars[x].path
  <2>2. m \in cursor .. Len(code) /\ m \in DOMAIN code /\ cursor < m
    BY <1>3, <2>1
  <2>3. u \in DOMAIN vars /\ u \in Nat /\ x \in DOMAIN vars
    <3>1. \A j \in DOMAIN code : IsDec(j) => code[j].res \in DOMAIN vars /\ code[j].res \in Nat
      BY <1>2, AllocFacts
    <3> QED  BY <1>3, <2>1, <2>2, <3>1
  <2>4. Prefix(s, q) /\ Younger(vars, u, q) /\ Fork(q, p)
    BY <1>4, <1>9, <2>1, <2>3 DEF p
  <2>5. /\ Len(s) \in Nat /\ Len(s) > 0 /\ s[1] = 0 /\ DOMAIN s = 1 .. Len(s)
        /\ Len(q) \in Nat /\ DOMAIN q = 1 .. Len(q) /\ q[1] = 0
        /\ Len(p) \in Nat /\ DOMAIN p = 1 .. Len(p) /\ 1 \in DOMAIN p /\ p[1] = 0
        /\ \A i \in DOMAIN q : q[i] \in Nat
    <3>1. \A y \in DOMAIN vars : \A i \in DOMAIN vars[y].path : vars[y].path[i] \in Nat
      <4>1. \A y \in DOMAIN vars : vars[y].path \in Seq(Nat)
        BY <1>9
      <4> QED  BY <4>1
    <3> QED  BY <1>4, <1>9, <2>3, <3>1 DEF p
  <2>6. Len(s) \in DOMAIN s /\ Len(s) \in DOMAIN q /\ q[Len(s)] = s[Len(s)] /\ Len(s) \in Len(s) .. Len(q)
        /\ \A i \in Len(s) .. Len(q) : i \in DOMAIN q /\ i \in Nat /\ (i = Len(s) \/ i \in Len(s) + 1 .. Len(q))
    <3>1. \A a, b \in Nat : a > 0 /\ a <= b =>
             /\ a \in 1 .. a /\ a \in 1 .. b /\ a \in a .. b
             /\ \A i \in a .. b : i \in 1 .. b /\ i \in Nat /\ (i = a \/ i \in a + 1 .. b)
      OBVIOUS
    <3>2. Len(s) <= Len(q) /\ \A i \in 1 .. Len(s) : s[i] = q[i]
      BY <2>4 DEF Prefix
    <3> HIDE DEF s, q
    <3>3. /\ Len(s) \in 1 .. Len(s) /\ Len(s) \in 1 .. Len(q) /\ Len(s) \in Len(s) .. Len(q)
          /\ \A i \in Len(s) .. Len(q) : i \in 1 .. Len(q) /\ i \in Nat /\ (i = Len(s) \/ i \in Len(s) + 1 .. Len(q))
      BY <2>5, <3>1, <3>2
    <3> QED  BY <2>5, <3>2, <3>3
  <2>7. code'[k].res = u /\ code'[m].res = x /\ vars' = vars
    BY <1>8
  <2> HIDE DEF s, q
  <2>8. SUFFICES /\ s[Len(s)] \in DOMAIN tree'
                 /\ \A i \in Len(s) .. Len(q) : q[i] \in DOMAIN tree' => -addr'[u] <= tree'[q[i]]
    BY <2>7 DEF Below, s, q
  <2>9. CASE k = cursor
    <3>1. u = v /\ s = p /\ addr'[u] = -esp
      BY <1>10, <2>9 DEF v, s, p
    <3>2. s[Len(s)] \in DOMAIN tree' /\ tree'[s[Len(s)]] = esp
      BY <1>6, <2>5, <2>6, <3>1
    <3>3. ASSUME NEW i \in Len(s) .. Len(q), q[i] \in DOMAIN tree'
          PROVE  i = Len(s)
      <4>1. SUFFICES ASSUME i \in Len(s) + 1 .. Len(q)  PROVE FALSE
        BY <2>6
      <4>2. \A y \in 1 .. v : \A j \in DOMAIN vars[y].path : vars[y].path[j] < q[i]
        BY <2>4, <3>1, <4>1 DEF Younger, s
      <4>3. v \in 1 .. v
        BY <1>4, <1>9
      <4>4. q[i] \in Nat
        BY <2>5, <2>6
      <4>5. \A j \in DOMAIN p : p[j] # q[i]
        BY <4>2, <4>3, <4>4 DEF p
      <4>6. q[i] \in DOMAIN tree
        BY <1>6, <3>3, <4>5
      <4>7. q[i] # 0
        BY <2>5, <2>6, <3>1, <4>5
      <4>8. PICK h \in 1 .. cursor - 1 : IsDec(h) /\
                 \E j \in DOMAIN vars[code[h].res].path : vars[code[h].res].path[j] = q[i]
        BY <1>2, <4>6, <4>7 DEF TreeOK
      <4>9. code[h].res \in 1 .. v
        <5>1. code[h].res \in DOMAIN vars /\ code[h].res < v
          BY <1>4, <4>8
        <5>2. code[h].res \in 1 .. Len(vars)
          BY <1>9, <5>1
        <5> QED  BY <1>4, <1>9, <5>1, <5>2
      <4>10. PICK j \in DOMAIN vars[code[h].res].path : vars[code[h].res].path[j] = q[i]
        BY <4>8
      <4>11. vars[code[h].res].path[j] < q[i]
        BY <4>2, <4>9
      <4> QED  BY <4>4, <4>10, <4>11
    <3>4. - -esp = esp /\ esp <= esp
      OBVIOUS
    <3> QED  BY <2>6, <3>1, <3>2, <3>3, <3>4
  <2>10. CASE k # cursor
    <3>1. k \in 1 .. cursor - 1
      BY <1>3, <2>1, <2>10
    <3>2. u # v /\ addr'[u] = addr[u] /\ Placed(u)
      <4>1. u # v
        BY <1>4, <2>1, <3>1
      <4>2. addr'[u] = addr[u]
        BY <1>10, <2>3, <4>1
      <4> QED  BY <1>8, <2>1, <4>1, <4>2 DEF Placed
    <3>3. Below(u, x)
      BY <1>2, <2>1, <2>2, <3>1, <3>2 DEF AddrOK, AddrBelow
    <3>4. /\ s[Len(s)] \in DOMAIN tree
          /\ \A i \in Len(s) .. Len(q) : q[i] \in DOMAIN tree => -addr[u] <= tree[q[i]]
      BY <3>3 DEF Below, s, q
    <3>5. -addr[u] \in Int
      BY <3>2 DEF Placed
    <3>6. s[Len(s)] \in DOMAIN tree'
      BY <1>6, <3>4
    <3>7. ASSUME NEW i \in Len(s) .. Len(q), q[i] \in DOMAIN tree'
          PROVE  -addr[u] <= tree'[q[i]]
      <4>1. CASE q[i] \in DOMAIN tree
        <5>1. -addr[u] <= tree[q[i]] /\ tree[q[i]] <= tree'[q[i]] /\ tree'[q[i]] \in Nat /\ tree[q[i]] \in Nat
          BY <1>2, <1>6, <3>4, <3>7, <4>1 DEF TreeOK
        <5> HIDE DEF u
        <5> QED  BY <3>5, <5>1
      <4>2. CASE q[i] \notin DOMAIN tree
        <5>1. PICK j \in DOMAIN p : q[i] = p[j]
          BY <1>6, <3>7, <4>2
        <5>2. i = j /\ \A h \in 1 .. i : q[h] = p[h]
          BY <2>4, <2>6, <5>1 DEF Fork
        <5>3. tree'[q[i]] \in Nat /\ tree[p[last]] <= tree'[q[i]]
          BY <1>6, <4>2, <5>1
        <5>4. Len(s) \in 1 .. i /\ Len(s) \in DOMAIN p /\ i \in Nat /\ i \in DOMAIN p
          <6>1. i \in 1 .. Len(p)
            BY <2>5, <5>1, <5>2
          <6>2. Len(s) <= i
            BY <2>5
          <6> QED  BY <2>5, <6>1, <6>2
        <5>5. Len(s) <= last
          BY <1>6, <2>6, <3>4, <5>2, <5>4
        <5>6. last <= i
          <6>1. last # i
            BY <1>6, <4>2, <5>1, <5>2
          <6>2. ~ (i < last)
            <7>1. SUFFICES ASSUME i < last  PROVE FALSE
              OBVIOUS
            <7>2. i \in 1 .. last /\ last \in DOMAIN vars[v].path /\ p[last] \in DOMAIN tree
              BY <1>6, <2>5, <5>4, <7>1 DEF p
            <7>3. p[i] \in DOMAIN tree
              BY <1>2, <1>4, <7>2 DEF TreeOK, p
            <7> QED  BY <4>2, <5>1, <5>2, <7>3
          <6>3. last \in 1 .. Len(p)
            BY <2>5
          <6> QED  BY <2>5, <5>4, <6>2, <6>3
        <5>7. last \in 1 .. i /\ last \in Len(s) .. Len(q)
          <6>1. last \in 1 .. Len(p) /\ i \in Len(s) .. Len(q)
            BY <2>5
          <6> QED  BY <2>5, <5>4, <5>5, <5>6, <6>1
        <5>8. q[last] = p[last]
          BY <5>2, <5>7
        <5>9. -addr[u] <= tree[p[last]]
          BY <1>6, <3>4, <5>7, <5>8
        <5> HIDE DEF u
        <5> QED  BY <1>6, <3>5, <5>3, <5>9
      <4> QED  BY <4>1, <4>2
    <3> QED  BY <3>2, <3>6, <3>7
  <2> QED  BY <2>9, <2>10
<1> QED
  BY <1>7, <1>12, <1>13, <1>15, <1>16, <1>17 DEF IInv, AddrOK

-----------------------------------------------------------------------------
(* The theorems *)

ParserActs ==
    Declare \/ Condition \/ Assign \/ Copy \/ Use \/ BeginFun \/ EnterScope \/ LeaveScope \/ EndFun

LEMMA AddVarGrows ==
    ASSUME NEW name, NEW size, NEW more, AddVar(name, size, more)
    PROVE  Grown
<1>1. PICK w : vars' = Append(vars, w) /\ addr' = Append(addr, None)
  BY DEF AddVar
<1>2. PICK o : offset' = Append(offset, o)
  BY DEF AddVar
<1>3. None # 4
  BY NoneAssumption
<1> QED
  BY <1>1, <1>2, <1>3 DEF Grown

LEMMA ParserGrows ==
    ASSUME ParserActs
    PROVE  Grown /\ pc = "parse" /\ pc' \in {"parse", "rejected"} /\ UNCHANGED <<cursor, tree, deepest>>
<1> DEFINE Goal == Grown /\ pc = "parse" /\ pc' \in {"parse", "rejected"} /\ UNCHANGED <<cursor, tree, deepest>>
<1>1. ASSUME NEW token, Parsed(token)
      PROVE  pc = "parse" /\ UNCHANGED <<cursor, tree, deepest>>
  BY <1>1 DEF Parsed
<1>2. Reject => Grown /\ pc' = "rejected"
  BY DEF Reject, Grown
<1>3. ASSUME NEW token, Wrong(token)  PROVE Goal
  BY <1>1, <1>2, <1>3 DEF Wrong
<1>4. ASSUME NEW token, NEW last, Operation(token, last)  PROVE Goal
  BY <1>1, <1>4, AddVarGrows DEF Operation
<1> SUFFICES Goal
  OBVIOUS
<1> HIDE DEF Goal
<1>5. CASE Declare
  <2>1. PICK name \in Names, size \in Sizes :
          /\ Parsed(Token("declare", name, size))
          /\ IF Redefined(name) THEN Reject
             ELSE AddVar(name, size, << >>) /\ pc' = pc
    BY <1>5 DEF Declare
  <2> QED  BY <1>1, <1>2, <2>1, AddVarGrows DEF Goal
<1>6. CASE Condition
  BY <1>4, <1>6 DEF Condition
<1>7. CASE Assign
  BY <1>3, <1>4, <1>7 DEF Assign, AssignTo
<1>8. CASE Copy
  <2>1. PICK left, right \in Names : CopyOf(left, right)
    BY <1>8 DEF Copy
  <2>2. \/ Wrong(Token("copy", left, right))
        \/ Parsed(Token("copy", left, right)) /\ UNCHANGED <<pc, vars, offset, addr>>
    BY <2>1 DEF CopyOf
  <2> QED  BY <1>1, <1>3, <2>2 DEF Goal, Grown
<1>9. CASE Use
  <2>1. PICK name \in Names : UseOf(name)
    BY <1>9 DEF Use
  <2>2. \/ Wrong(Token("use", name, 0))
        \/ Parsed(Token("use", name, 0)) /\ UNCHANGED <<pc, vars, offset, addr>>
    BY <2>1 DEF UseOf
  <2> QED  BY <1>1, <1>3, <2>2 DEF Goal, Grown
<1>10. CASE BeginFun
  <2>1. PICK name \in Names \cup {None} :
          /\ Parsed(Token("fun", name, 0)) /\ pc' = pc
          /\ IF name = None THEN UNCHANGED <<vars, offset, addr>>
             ELSE /\ vars' = Append(vars, [name |-> name, path |-> scopePath', size |-> 4,
                                           tok |-> Len(src')])
                  /\ offset' = Append(offset, 4)
                  /\ addr' = Append(addr, 4)
    BY <1>10 DEF BeginFun
  <2>2. Grown
    BY <2>1 DEF Grown
  <2> QED  BY <1>1, <2>1, <2>2 DEF Goal
<1>11. CASE EnterScope
  BY <1>1, <1>11 DEF EnterScope, Goal, Grown
<1>12. CASE LeaveScope
  BY <1>1, <1>12 DEF LeaveScope, Goal, Grown
<1>13. CASE EndFun
  BY <1>1, <1>13 DEF EndFun, Goal, Grown
<1> QED
  BY <1>5, <1>6, <1>7, <1>8, <1>9, <1>10, <1>11, <1>12, <1>13 DEF ParserActs

LEMMA ParserStep ==
    ASSUME IInv, ParserActs
    PROVE  IInv' /\ NamesResolve'
<1>1. ParseInv
  BY DEF IInv
<1>2. ParseInv' /\ NamesResolve'
  BY <1>1, DeclareStep, ConditionStep, AssignStep, CopyStep, UseStep, BeginFunStep, EnterStep, LeaveStep,
     EndFunStep DEF ParserActs
<1>3. TreeOK' /\ AddrOK'
  BY <1>2, ParserGrows, ParsedAddr
<1> QED
  BY <1>2, <1>3 DEF IInv

LEMMA InitOK == Init => IInv /\ NamesResolve
<1> SUFFICES ASSUME Init  PROVE IInv /\ NamesResolve
  OBVIOUS
<1>1. /\ src = << >> /\ vars = << >> /\ code = << >> /\ offset = << >> /\ addr = << >> /\ scopeEsp = << >>
      /\ scopeId = 0 /\ scopePath = << 0 >> /\ curFun = FALSE /\ curEsp = stackBase /\ maxDepth = stackBase
      /\ pc = "parse" /\ cursor = 1 /\ tree = [id \in {0} |-> 0] /\ deepest = 0
  BY DEF Init, Root
<1>2. Len(src) = 0 /\ src \in Seq(Tokens) /\ DOMAIN vars = {} /\ DOMAIN code = {} /\ Len(code) = 0
      /\ Len(scopePath) = 1 /\ DOMAIN scopePath = {1} /\ scopePath[1] = 0 /\ scopePath \in Seq(Nat)
      /\ Len(scopeEsp) = 0 /\ Len(vars) = 0 /\ Len(offset) = 0 /\ Len(addr) = 0
      /\ vars \in Seq(Variable) /\ code \in Seq(Instruction) /\ offset \in Seq(Int)
      /\ scopeEsp \in Seq(Nat) /\ addr \in Seq(Int \cup {None})
  BY <1>1
<1>3. Depth = [k \in 0 .. 0 |-> 0]
  <2>1. Depth = [k \in 0 .. Len(src) |-> IF k = 0 THEN 0 ELSE DepthOf(src)[k - 1] + Steps(src[k])]
    BY <1>2, DepthIs, DepthOfDef
  <2> QED  BY <1>2, <2>1
<1>4. Depth \in [0 .. 0 -> Nat] /\ Depth[0] = 0
  BY <1>3
<1>5. stackBase \in Nat /\ Top = stackBase /\ stackBase >= stackBase
  BY <1>1 DEF stackBase, Top
<1>6. Typed
  <2>1. ~ (1 > 1) /\ 0 \in Nat
    OBVIOUS
  <2> QED  BY <1>1, <1>2, <1>5, <2>1 DEF Typed
<1>7. Scoped(Depth, Len(src), scopePath, scopeId, vars)
  <2>1. PathOK(Depth, 0, scopePath, 0)
    BY <1>2, <1>4 DEF PathOK
  <2> QED  BY <1>1, <1>2, <2>1 DEF Scoped, VarsOK, OpenOK, UnderOK
<1>8. LaidOut(Depth, Len(src), scopePath, vars, offset, scopeEsp, curEsp)
  <2> DEFINE b == [k \in 0 .. 0 |-> stackBase]
  <2>1. Levels(b, scopeEsp, curEsp)
    BY <1>1, <1>2, <1>5 DEF Levels
  <2>2. Held(Depth, Len(src), vars, offset, b)
    BY <1>2 DEF Held
  <2> HIDE DEF b
  <2> QED  BY <1>2, <2>1, <2>2 DEF LaidOut, PlacesOK
<1>9. CodeOK(Depth, Len(src), vars, offset, code) /\ KeptOK(Depth, Len(src), vars, offset, code) /\ DeepOK(offset, code, Top)
  BY <1>1, <1>2 DEF CodeOK, KeptOK, DeepOK
<1>10. Declared(src, Depth, Len(src), vars)
  <2>1. 1 .. 0 = {}
    OBVIOUS
  <2> QED  BY <1>2, <2>1 DEF Declared
<1>11. ParseInv
  BY <1>1, <1>5, <1>6, <1>7, <1>8, <1>9, <1>10 DEF ParseInv, Framed
<1>12. TreeOK
  BY <1>1, <1>2 DEF TreeOK
<1>13. AddrOK
  <2>1. 1 .. 1 - 1 = {} /\ 1 \in 1 .. 0 + 1
    OBVIOUS
  <2> QED  BY <1>1, <1>2, <2>1 DEF AddrOK, AddrTyped, AddrApart, AddrDeep, AddrBelow
<1>14. NamesResolve
  <2>1. ~ (0 > 0)
    OBVIOUS
  <2> QED  BY <1>2, <2>1 DEF NamesResolve
<1> QED
  BY <1>11, <1>12, <1>13, <1>14 DEF IInv

LEMMA NextOK ==
    ASSUME IInv, NamesResolve, [Next]_allVars
    PROVE  IInv' /\ NamesResolve'
<1>1. ParseInv
  BY DEF IInv
<1>2. CASE ParserActs
  BY <1>2, ParserStep
<1>3. CASE EndProgram
  <2>1. pc # "rejected" /\ pc' \in {"alloc", "done"} /\ ~ curFun /\ UNCHANGED <<parsing, allocating>>
    BY <1>3 DEF EndProgram
  <2> QED  BY <2>1, AllocPcStep
<1>4. CASE InFrame
  BY <1>4, InFrameStep
<1>5. CASE InRegister
  BY <1>5, InRegisterStep
<1>6. CASE OtherInst
  BY <1>6, OtherInstStep
<1>7. CASE AllocEnds
  <2>1. pc # "rejected" /\ pc' \in {"alloc", "done"} /\ UNCHANGED <<parsing, allocating>> /\ pc \in {"alloc", "done"}
    BY <1>7 DEF AllocEnds
  <2>2. ~ curFun
    BY <1>1, <2>1 DEF ParseInv, Typed
  <2> QED  BY <2>1, <2>2, AllocPcStep
<1>8. CASE UNCHANGED allVars
  <2>1. /\ src' = src /\ scopeId' = scopeId /\ scopePath' = scopePath /\ vars' = vars /\ curFun' = curFun
        /\ curEsp' = curEsp /\ scopeEsp' = scopeEsp /\ maxDepth' = maxDepth /\ offset' = offset /\ code' = code
        /\ pc' = pc /\ cursor' = cursor /\ tree' = tree /\ addr' = addr /\ deepest' = deepest
    BY <1>8 DEF allVars, parsing, allocating
  <2>2. Depth' = Depth
    BY <2>1, DepthStays
  <2>3. Top' = Top
    BY <2>1 DEF Top
  <2>4. ParseInv'
    BY <1>1, <2>1, <2>2, <2>3 DEF ParseInv, Typed
  <2>5. TreeOK'
    BY <2>1 DEF IInv, TreeOK, IsDec
  <2>6. AddrTyped' /\ AddrApart' /\ AddrDeep' /\ AddrBelow'
    BY <2>1, <2>2 DEF IInv, AddrOK, AddrTyped, AddrApart, AddrDeep, AddrBelow, Placed, Below, IsDec, SameFun
  <2>7. NamesResolve'
    <3>1. \A name, t : /\ Declarations(name, t)' = Declarations(name, t)
                       /\ Meant(name, t)' = Meant(name, t)
      BY <2>1, <2>2, DeclarationsNext DEF Declarations, InScope, DeclarationsOf, Meant, MeantOf
    <3> QED  BY <2>1, <2>2, <3>1 DEF NamesResolve
  <2> QED  BY <2>4, <2>5, <2>6, <2>7 DEF IInv, AddrOK
<1> QED
  BY <1>2, <1>3, <1>4, <1>5, <1>6, <1>7, <1>8 DEF Next, ParserActs

\* The invariant holds in every state, with what the symbol table has answered.
THEOREM Invariance == Spec => [](IInv /\ NamesResolve)
<1>1. Init => IInv /\ NamesResolve
  BY InitOK
<1>2. IInv /\ NamesResolve /\ [Next]_allVars => (IInv /\ NamesResolve)'
  BY NextOK
<1> QED
  BY <1>1, <1>2, PTL DEF Spec

LEMMA TypeFollows == IInv => TypeOK
<1> SUFFICES ASSUME IInv  PROVE TypeOK
  OBVIOUS
<1>1. ParseInv /\ AddrTyped
  BY DEF IInv, AddrOK
<1>2. /\ pc \in {"parse", "rejected", "alloc", "done"}
      /\ curFun \in BOOLEAN /\ maxDepth \in Nat /\ deepest \in Nat
  BY <1>1 DEF ParseInv, Typed
<1>3. /\ vars \in Seq(Variable) /\ Len(vars) \in Nat /\ scopePath \in Seq(Nat) /\ scopeId \in Nat
      /\ offset \in Seq(Int) /\ Len(offset) = Len(vars) /\ Len(scopeEsp) = Len(scopePath) - 1
      /\ curEsp \in Nat /\ code \in Seq(Instruction)
      /\ Depth[Len(src)] \in Nat /\ Len(scopePath) = Depth[Len(src)] + 1
  BY <1>1, ParseFacts
<1>4. PathOK(Depth, Len(src), scopePath, scopeId) /\ CodeOK(Depth, Len(src), vars, offset, code)
  BY <1>1 DEF ParseInv, Framed, Scoped
<1>5. Len(scopePath) > 0
  BY <1>3
<1>6. \A k \in DOMAIN scopePath : scopePath[k] \in 0 .. scopeId
  <2>1. \A k \in DOMAIN scopePath : scopePath[k] \in Nat /\ scopePath[k] <= scopeId
    BY <1>3, <1>4 DEF PathOK
  <2> QED  BY <1>3, <2>1
<1>7. \A v \in DOMAIN vars : vars[v].name \in Names \cup {None} /\ vars[v].size > 0
  <2>1. \A v \in DOMAIN vars : vars[v] \in Variable
    BY <1>3
  <2>2. \A n \in Nat \ {0} : n > 0
    OBVIOUS
  <2> QED  BY <2>1, <2>2 DEF Variable
<1>8. DOMAIN offset = DOMAIN vars /\ DOMAIN addr = DOMAIN vars
  BY <1>1, <1>3 DEF AddrTyped
<1>9. \A k \in DOMAIN code :
          /\ code[k].op \in {"entry", "exit", "dec", "op", "as", "use"}
          /\ {code[k].res, code[k].arg} \subseteq DOMAIN vars \cup {None}
  <2>1. \A k \in DOMAIN code : code[k] \in Instruction
    BY <1>3
  <2>2. \A k \in DOMAIN code : {code[k].res, code[k].arg} \subseteq DOMAIN vars \cup {None}
    BY <1>4 DEF CodeOK
  <2> QED  BY <2>1, <2>2 DEF Instruction
<1> QED
  BY <1>2, <1>3, <1>5, <1>6, <1>7, <1>8, <1>9 DEF TypeOK

\* The symbol table, the function's shares of its frame and the code fit together
\* at every token: there is one share for each open scope, a place and an address
\* for each variable, and no instruction names what is not a variable.
THEOREM TypeCorrect == Spec => []TypeOK
BY Invariance, TypeFollows, PTL

\* For programs of every length, SymTab::getVar and addVar resolve names as C's
\* block scoping says: a use finds the latest declaration in scope and is refused
\* just when there is none, and a declaration is refused just when its own block
\* has the name.
THEOREM NamesRight == Spec => []NamesResolve
BY Invariance, PTL

\* The byte ranges of two variables, one of which ends before the other begins.
LEMMA ApartBytes ==
    ASSUME NEW place, NEW u \in DOMAIN vars, NEW v \in DOMAIN vars,
           vars[u].size \in Nat, vars[v].size \in Nat,
           place[u] \in {0, None} \/ place[u] \in Int, place[v] \in {0, None} \/ place[v] \in Int,
           \/ place[u] \in {0, None} \/ place[v] \in {0, None}
           \/ place[u] + vars[u].size <= place[v] \/ place[v] + vars[v].size <= place[u]
    PROVE  Bytes(place, u) \cap Bytes(place, v) = {}
<1>1. CASE place[u] \in {0, None} \/ place[v] \in {0, None}
  BY <1>1 DEF Bytes
<1>2. CASE place[u] \notin {0, None} /\ place[v] \notin {0, None}
  <2>1. \A a, b \in Int : \A m, n \in Nat : a + m <= b \/ b + n <= a => (a .. a + m - 1) \cap (b .. b + n - 1) = {}
    OBVIOUS
  <2>2. place[u] \in Int /\ place[v] \in Int
        /\ (place[u] + vars[u].size <= place[v] \/ place[v] + vars[v].size <= place[u])
    BY <1>2
  <2> QED  BY <1>2, <2>1, <2>2 DEF Bytes
<1> QED
  BY <1>1, <1>2

LEMMA FramesFollow == IInv => FramesSound
<1> SUFFICES ASSUME IInv  PROVE FramesSound
  OBVIOUS
<1>1. /\ ParseInv /\ AddrTyped /\ AddrApart /\ AddrDeep
  BY DEF IInv, AddrOK
<1>2. /\ CodeOK(Depth, Len(src), vars, offset, code) /\ DeepOK(offset, code, Top)
      /\ PlacesOK(Depth, vars, offset)
  BY <1>1 DEF ParseInv, Framed, LaidOut
<1>3. /\ code \in Seq(Instruction) /\ Len(code) \in Nat /\ DOMAIN code = 1 .. Len(code)
      /\ \A v \in DOMAIN vars : vars[v].size \in Nat \ {0}
      /\ \A k \in DOMAIN code : code[k].op = "dec" => code[k].res \in DOMAIN vars /\ offset[code[k].res] < 0
  <2>1. \A k \in DOMAIN code : code[k].op = "dec" => code[k].res \in DOMAIN vars /\ offset[code[k].res] < 0
    BY <1>2 DEF CodeOK
  <2> QED  BY <1>1, <2>1, AllocFacts
<1>4. None \notin Int
  BY NoneAssumption
<1>5. ASSUME pc = "parse", ~ curFun, code # << >>
      PROVE  LET begin == CHOOSE k \in DOMAIN code :
                             /\ code[k].op = "entry"
                             /\ \A m \in k + 1 .. Len(code) : code[m].op # "entry"
             IN  \A k \in begin .. Len(code) :
                    code[k].op = "dec" =>
                       Bytes(offset, code[k].res) \subseteq -maxDepth .. -(stackBase + 1)
  <2> DEFINE begin == CHOOSE k \in DOMAIN code :
                         /\ code[k].op = "entry"
                         /\ \A m \in k + 1 .. Len(code) : code[m].op # "entry"
             heads == {k \in 1 .. Len(code) : code[k].op = "entry"}
  <2>1. 1 \in DOMAIN code /\ code[1].op = "entry"
    <3>1. Len(code) # 0
      BY <1>3, <1>5
    <3> QED  BY <1>2, <1>3, <1>5, <3>1 DEF CodeOK
  <2>2. PICK h \in heads : \A x \in heads : x <= h
    <3>1. heads # {} /\ heads \in SUBSET (0 .. Len(code))
      BY <1>3, <2>1
    <3> HIDE DEF heads
    <3> QED  BY <1>3, <3>1, Greatest
  <2>3. h \in DOMAIN code /\ code[h].op = "entry" /\ \A m \in h + 1 .. Len(code) : code[m].op # "entry"
    <3>1. h \in 1 .. Len(code) /\ code[h].op = "entry"
      BY <2>2
    <3>2. \A m \in h + 1 .. Len(code) : m \in 1 .. Len(code) /\ ~ (m <= h)
      BY <1>3, <3>1
    <3> QED  BY <1>3, <2>2, <3>1, <3>2
  <2>4. begin \in DOMAIN code /\ code[begin].op = "entry" /\ \A m \in begin + 1 .. Len(code) : code[m].op # "entry"
    <3>1. \E k \in DOMAIN code : code[k].op = "entry" /\ \A m \in k + 1 .. Len(code) : code[m].op # "entry"
      BY <2>3
    <3> QED  BY <3>1
  <2> HIDE DEF begin
  <2>5. Top = maxDepth /\ maxDepth \in Nat
    <3>1. ~ (Len(scopePath) > 1) /\ Len(scopePath) \in Nat /\ Len(scopePath) = Depth[Len(src)] + 1
          /\ Depth[Len(src)] \in Nat /\ maxDepth \in Nat
      BY <1>1, <1>5, ParseFacts DEF ParseInv, Typed
    <3>2. Len(scopePath) = 1
      BY <3>1
    <3>3. curEsp = stackBase /\ maxDepth >= stackBase /\ stackBase \in Nat
      BY <1>1, <3>2, ParseFacts DEF ParseInv, stackBase
    <3> QED  BY <3>1, <3>3 DEF Top
  <2>6. ASSUME NEW k \in begin .. Len(code), code[k].op = "dec"
        PROVE  Bytes(offset, code[k].res) \subseteq -maxDepth .. -(stackBase + 1)
    <3>1. k # begin /\ begin \in 1 .. Len(code)
      BY <1>3, <2>4, <2>6
    <3>2. k \in DOMAIN code /\ \A m \in k .. Len(code) : m \in begin + 1 .. Len(code)
      BY <1>3, <3>1
    <3>3. \A m \in k .. Len(code) : code[m].op # "entry"
      BY <2>4, <3>2
    <3>4. -offset[code[k].res] <= maxDepth
      BY <1>2, <2>5, <2>6, <3>2, <3>3 DEF DeepOK
    <3>5. /\ code[k].res \in DOMAIN vars /\ offset[code[k].res] < 0 /\ offset[code[k].res] \in Int
          /\ vars[code[k].res].size \in Nat
      BY <1>2, <1>3, <2>6, <3>2 DEF PlacesOK
    <3>6. offset[code[k].res] # 0 /\ offset[code[k].res] # 4
      BY <3>5
    <3>7. offset[code[k].res] + vars[code[k].res].size <= -stackBase
      BY <1>2, <3>5, <3>6 DEF PlacesOK
    <3>8. \A a \in Int : \A s, t \in Nat : -a <= t /\ a + s <= -stackBase =>
             a .. a + s - 1 \subseteq -t .. -(stackBase + 1)
      BY DEF stackBase
    <3> QED  BY <1>4, <2>5, <3>4, <3>5, <3>6, <3>7, <3>8 DEF Bytes
  <2> QED  BY <2>6 DEF begin
<1>6. ASSUME pc = "alloc", cursor > 1, NEW k \in 1 .. cursor - 1, code[k].op = "dec",
             \A m \in k .. cursor - 1 : code[m].op # "entry"
      PROVE  Bytes(addr, code[k].res) \subseteq -deepest .. -1
  <2> DEFINE v == code[k].res
  <2>1. k \in DOMAIN code
    BY <1>1, <1>3 DEF AddrTyped
  <2>2. v \in DOMAIN vars /\ offset[v] < 0 /\ vars[v].size \in Nat \ {0} /\ offset[v] # 4
    <3>1. v \in DOMAIN vars /\ offset[v] < 0 /\ vars[v].size \in Nat \ {0}
      BY <1>3, <1>6, <2>1
    <3> QED  BY <3>1
  <2>3. \/ addr[v] = None
        \/ addr[v] \in Int /\ addr[v] + vars[v].size <= 0
    BY <1>1, <2>2 DEF AddrTyped
  <2>4. CASE addr[v] = None
    BY <2>4 DEF Bytes
  <2>5. CASE addr[v] \in Int /\ addr[v] + vars[v].size <= 0
    <3>1. addr[v] < 0
      BY <2>2, <2>5
    <3>2. -addr[v] <= deepest
      BY <1>1, <1>6, <2>5, <3>1 DEF AddrDeep, IsDec, SameFun, Placed
    <3>3. deepest \in Nat
      BY <1>1 DEF ParseInv, Typed
    <3>4. \A a \in Int : \A s, t \in Nat : -a <= t /\ a + s <= 0 => a .. a + s - 1 \subseteq -t .. -1
      OBVIOUS
    <3>5. Bytes(addr, v) \in {{}, addr[v] .. addr[v] + vars[v].size - 1}
      BY DEF Bytes
    <3>6. vars[v].size \in Nat
      BY <2>2
    <3> HIDE DEF v
    <3>7. Bytes(addr, v) \subseteq -deepest .. -1
      BY <2>5, <3>2, <3>3, <3>4, <3>5, <3>6
    <3> QED  BY <3>7 DEF v
  <2> QED  BY <2>3, <2>4, <2>5
<1>7. FramesHold
  BY <1>5, <1>6 DEF FramesHold
<1>8. ASSUME NEW u \in DOMAIN vars, NEW v \in DOMAIN vars, InScope(vars[u].tok, vars[v].tok)
      PROVE  /\ Bytes(offset, u) \cap Bytes(offset, v) = {}
             /\ pc = "done" => Bytes(addr, u) \cap Bytes(addr, v) = {}
  <2>1. Under(Depth, vars, u, v)
    BY <1>8 DEF InScope, Under
  <2>2. /\ offset[u] \in Int /\ offset[v] \in Int /\ vars[u].size \in Nat /\ vars[v].size \in Nat
        /\ vars[u].size \in Nat \ {0} /\ vars[v].size \in Nat \ {0}
        /\ offset[u] = 0 \/ (offset[u] = 4 /\ vars[u].size = 4) \/ offset[u] + vars[u].size <= -stackBase
        /\ offset[v] = 0 \/ (offset[v] = 4 /\ vars[v].size = 4) \/ offset[v] + vars[v].size <= -stackBase
        /\ offset[v] = 4 => offset[u] = 0
        /\ offset[u] < 0 /\ offset[v] < 0 => offset[v] + vars[v].size <= offset[u]
    BY <1>2, <1>3, <2>1 DEF PlacesOK
  <2>3. Bytes(offset, u) \cap Bytes(offset, v) = {}
    <3>1. \A a, b \in Int : \A m, n \in Nat \ {0} :
             /\ a = 0 \/ (a = 4 /\ m = 4) \/ a + m <= -stackBase
             /\ b = 0 \/ (b = 4 /\ n = 4) \/ b + n <= -stackBase
             /\ b = 4 => a = 0
             /\ a < 0 /\ b < 0 => b + n <= a
             => a = 0 \/ b = 0 \/ a + m <= b \/ b + n <= a
      BY DEF stackBase
    <3>2. offset[u] = 0 \/ offset[v] = 0 \/ offset[u] + vars[u].size <= offset[v] \/ offset[v] + vars[v].size <= offset[u]
      BY <2>2, <3>1
    <3> QED  BY <2>2, <3>2, ApartBytes
  <2>4. ASSUME NEW x \in DOMAIN vars
        PROVE  \/ addr[x] = None
               \/ addr[x] = 4 /\ offset[x] = 4
               \/ addr[x] \in Int /\ addr[x] < 0 /\ addr[x] + vars[x].size <= 0 /\ offset[x] < 0 /\ Placed(x)
    <3>1. \/ addr[x] = None
          \/ addr[x] = 4 /\ offset[x] = 4
          \/ addr[x] \in Int /\ addr[x] + vars[x].size <= 0 /\ \E k \in 1 .. cursor - 1 : IsDec(k) /\ code[k].res = x
      BY <1>1 DEF AddrTyped
    <3>2. CASE addr[x] \in Int /\ addr[x] + vars[x].size <= 0 /\ \E k \in 1 .. cursor - 1 : IsDec(k) /\ code[k].res = x
      <4>1. PICK k \in 1 .. cursor - 1 : IsDec(k) /\ code[k].res = x
        BY <3>2
      <4>2. k \in DOMAIN code
        BY <1>1, <1>3 DEF AddrTyped
      <4>3. offset[x] < 0
        BY <1>3, <4>1, <4>2 DEF IsDec
      <4>4. addr[x] < 0
        <5>1. vars[x].size \in Nat \ {0}
          BY <1>3
        <5>2. \A a \in Int, s \in Nat \ {0} : a + s <= 0 => a < 0
          OBVIOUS
        <5> QED  BY <3>2, <5>1, <5>2
      <4> QED  BY <3>2, <4>3, <4>4 DEF Placed
    <3> QED  BY <3>1, <3>2
  <2>5. Bytes(addr, u) \cap Bytes(addr, v) = {}
    <3>1. CASE addr[u] = None \/ addr[v] = None
      BY <3>1 DEF Bytes
    <3>2. CASE addr[u] # None /\ addr[v] # None
      <4>1. ~ (addr[v] = 4 /\ offset[v] = 4)
        <5>1. SUFFICES ASSUME offset[v] = 4  PROVE FALSE
          OBVIOUS
        <5>2. offset[u] = 0
          BY <2>2, <5>1
        <5> QED  BY <2>4, <3>2, <5>2
      <4>2. addr[v] \in Int /\ addr[v] + vars[v].size <= 0 /\ Placed(v)
        BY <2>4, <3>2, <4>1
      <4>3. addr[u] \in Int /\ addr[v] + vars[v].size <= addr[u]
        <5>1. CASE addr[u] = 4
          BY <2>2, <4>2, <5>1
        <5>2. CASE addr[u] # 4
          BY <1>1, <2>1, <2>4, <3>2, <4>2, <5>2 DEF AddrApart
        <5> QED  BY <5>1, <5>2
      <4> QED  BY <2>2, <4>2, <4>3, ApartBytes
    <3> QED  BY <3>1, <3>2
  <2> QED  BY <2>3, <2>5
<1>9. InScopeApart
  BY <1>8 DEF InScopeApart
<1> QED
  BY <1>7, <1>9 DEF FramesSound

\* For programs of every length, Fun::locate and leaveScope while parsing, and
\* CoGraph::stackAlloc with Scope::find afterwards, give every function a frame
\* that holds its locals, and no two of its variables that are in scope together
\* a byte in common.
THEOREM FramesAreSound == Spec => []FramesSound
BY Invariance, FramesFollow, PTL

LEMMA KeepsFollows == IInv => PlainKeepsLive
<1> SUFFICES ASSUME IInv  PROVE Keeps(code, offset)
  BY DEF PlainKeepsLive
<1>1. ParseInv
  BY DEF IInv
<1>2. KeptOK(Depth, Len(src), vars, offset, code) /\ PlacesOK(Depth, vars, offset)
  BY <1>1 DEF ParseInv, Framed, LaidOut
<1>3. DOMAIN code = 1 .. Len(code) /\ Len(code) \in Nat /\ \A v \in DOMAIN vars : vars[v].size \in Nat
  BY <1>1, AllocFacts
<1> SUFFICES ASSUME NEW k \in DOMAIN code, NEW v \in DOMAIN vars, NEW w \in DOMAIN vars,
                    Writes(code[k], w), v # w, Holds(code, k, v)
             PROVE  Bytes(offset, v) \cap Bytes(offset, w) = {}
  BY DEF Keeps
<1>4. PICK j \in 1 .. k - 1, u \in k + 1 .. Len(code) : Writes(code[j], v) /\ code[u].arg = v
  BY DEF Holds
<1>5. j \in DOMAIN code /\ j < k /\ u \in DOMAIN code /\ k < u
  BY <1>3
<1>6. Clear(vars, offset, v, w)
  BY <1>2, <1>4, <1>5 DEF KeptOK
<1>7. offset[v] \in Int /\ offset[w] \in Int
  BY <1>2 DEF PlacesOK
<1> QED
  BY <1>3, <1>6, <1>7, ApartBytes DEF Clear

\* In code that is not optimised, no instruction writes over a value that a later
\* one reads: the places that Fun::locate gives again after a scope has ended are
\* those of variables nothing reads any more.
THEOREM PlainCodeKeepsLive == Spec => []PlainKeepsLive
BY Invariance, KeepsFollows, PTL
=============================================================================
