-------------------------- MODULE Lowering_proofs --------------------------
(***************************************************************************)
(* Proofs about Lowering, for function bodies of every length: the types   *)
(* of its variables, which bound every label by those that were made; that *)
(* break and continue are rejected just where they have no statement to    *)
(* leave or to go on with; and that the code, walked, does what the source *)
(* says in the source's order.                                             *)
(*                                                                         *)
(* The last is shown in two parts.  While the body is parsed, an account   *)
(* is kept (Parsed) of what each token belongs to, where its labels begin  *)
(* and which instructions are its own.  When it is walked, the account     *)
(* says which event is next at each instruction (Values): that is what the *)
(* instruction does, or what the label it goes to stands for.              *)
(***************************************************************************)
EXTENDS Lowering, WellFoundedInduction, SequenceTheorems, TLAPS

-----------------------------------------------------------------------------
(* Numbers: the least number principle and induction, with sets in place of *)
(* the library's predicates.                                                *)

Less == {p \in Nat \X Nat : p[1] < p[2]}

LEMMA LessWellFounded == IsWellFoundedOn(Less, Nat)
BY NatLessThanWellFounded DEF OpToRel, Less

\* A set of natural numbers that is not empty has a least element.
LEMMA Least ==
    ASSUME NEW S \in SUBSET Nat, S # {}
    PROVE  \E x \in S : \A y \in S : x <= y
<1>1. PICK x \in S : \A y \in S : ~ (<< y, x >> \in Less)
  BY LessWellFounded, WFMin
<1>2. ASSUME NEW y \in S  PROVE x <= y
  <2>1. x \in Nat /\ y \in Nat /\ ~ (<< y, x >> \in Less)
    BY <1>1
  <2>2. ~ (y < x)
    BY <2>1 DEF Less
  <2> QED  BY <2>1, <2>2
<1> QED
  BY <1>1, <1>2

\* One that is bounded has a greatest.
LEMMA Greatest ==
    ASSUME NEW n \in Nat, NEW S \in SUBSET (0 .. n), S # {}
    PROVE  \E x \in S : \A y \in S : y <= x
<1> DEFINE T == {k \in Nat : n - k \in S}
<1>1. T # {}
  <2>1. PICK x \in S : TRUE
    OBVIOUS
  <2>2. n - x \in Nat /\ n - (n - x) = x
    OBVIOUS
  <2> QED  BY <2>1, <2>2
<1>2. T \in SUBSET Nat
  OBVIOUS
<1> HIDE DEF T
<1>3. PICK k \in T : \A m \in T : k <= m
  BY <1>1, <1>2, Least
<1>4. n - k \in S /\ k \in Nat
  BY <1>3 DEF T
<1>5. ASSUME NEW y \in S  PROVE y <= n - k
  <2>1. n - y \in T
    <3>1. n - y \in Nat /\ n - (n - y) = y
      OBVIOUS
    <3> QED  BY <3>1 DEF T
  <2>2. k <= n - y
    BY <1>3, <2>1
  <2> QED  BY <1>4, <2>2
<1> QED
  BY <1>4, <1>5

\* Induction.
LEMMA Induction ==
    ASSUME NEW S \in SUBSET Nat, 0 \in S, \A n \in S : n + 1 \in S
    PROVE  S = Nat
<1>1. SUFFICES ASSUME Nat \ S # {}  PROVE FALSE
  OBVIOUS
<1>2. PICK x \in Nat \ S : \A y \in Nat \ S : x <= y
  BY <1>1, Least
<1>3. x # 0 /\ x - 1 \in Nat /\ ~ (x <= x - 1) /\ x - 1 + 1 = x
  BY <1>2
<1>4. x - 1 \in S
  BY <1>2, <1>3
<1> QED
  BY <1>2, <1>3, <1>4

-----------------------------------------------------------------------------
(* The inductive invariant *)

Jumpable == Loop \cup {"switch"}

Place  == Nat \cup {None}
Event  == {None} \cup (Nat \X Part)
Method == [kind : Opener, tok : Nat, lb : Nat]
Instr(l) == [op : {"label", "jmp", "do", "jt", "jf", "jne"},
             ev : Event, to : 0 .. l \cup {None}]

\* The variables have their types; an end for everything open still fits.
Typed ==
    /\ src \in Seq(Opener \cup Closer \cup Single)
    /\ Len(src) + Len(open) <= MaxTokens
    /\ open \in Seq(Method)
    /\ labels \in Nat
    /\ code \in Seq(Instr(labels))
    /\ heads \in Seq(0 .. labels \cup {None})
    /\ tails \in Seq(0 .. labels \cup {None})
    /\ rejected \subseteq DOMAIN src
    /\ at \in Nat \ {0}
    /\ pc \in {"parse", "walk"}

\* The labels of a method of its own: lb, lb + 1, ...
Own(kind) ==
    CASE kind = "for"                                -> 4
      [] kind \in {"while", "do", "if", "else"}      -> 2
      [] kind \in {"switch", "case"}                 -> 1
      [] OTHER                                       -> 0

\* The labels of an active method have been made, its token has been read, and
\* the branches of a switch lie right in it.
Nested ==
    \A k \in DOMAIN open :
        /\ open[k].tok \in DOMAIN src
        /\ open[k].lb + Own(open[k].kind) <= labels + 1
        /\ open[k].kind \in {"case", "default"} => k > 1 /\ open[k - 1].kind = "switch"

\* Where continue and break go in a method of its own.
HeadOf(m) ==
    IF m.kind = "switch" THEN None ELSE IF m.kind = "for" THEN m.lb + 3 ELSE m.lb
TailOf(m) == IF m.kind = "switch" THEN m.lb ELSE m.lb + 1

\* own says for which loop or switch the last n entries of the stacks are.
Owns(own, n, o, h, t) ==
    /\ own \in [1 .. n -> DOMAIN o]
    /\ \A m \in 1 .. n :
          /\ o[own[m]].kind \in Jumpable
          /\ t[m + 1] = TailOf(o[own[m]])
          /\ h[m + 1] = HeadOf(o[own[m]])
    /\ \A m, k \in 1 .. n : m < k => own[m] < own[k]
    /\ \A k \in DOMAIN o : o[k].kind \in Jumpable => \E m \in 1 .. n : own[m] = k

\* Above the None that the constructor pushes, the stacks have an entry for
\* every active loop and switch and none for anything else.
Mirrors(o, h, t) ==
    /\ Len(h) = Len(t) /\ Len(h) >= 1 /\ h[1] = None /\ t[1] = None
    /\ \E own : Owns(own, Len(h) - 1, o, h, t)

IInv == Typed /\ Nested /\ Mirrors(open, heads, tails)

-----------------------------------------------------------------------------
(* Sequences *)

\* What Popped and Back do to a sequence that is not empty.
LEMMA PoppedType ==
    ASSUME NEW S, NEW s \in Seq(S), Len(s) >= 1
    PROVE  /\ Popped(s) \in Seq(S) /\ Len(Popped(s)) = Len(s) - 1
           /\ \A k \in 1 .. Len(s) - 1 : Popped(s)[k] = s[k]
           /\ Back(s) \in S
<1>1. Len(s) \in Nat
  BY LenProperties
<1>2. \A k \in 1 .. Len(s) - 1 : s[k] \in S
  BY <1>1, ElementOfSeq
<1> DEFINE n == Len(s) - 1
           p == SubSeq(s, 1, n)
<1>3. /\ p \in Seq(S) /\ Len(p) = IF 1 <= n THEN n - 1 + 1 ELSE 0
      /\ \A k \in 1 .. n - 1 + 1 : p[k] = s[1 + k - 1]
  BY <1>1, <1>2, SubSeqProperties
<1>4. Back(s) \in S
  BY <1>1, ElementOfSeq DEF Back
<1>5. n \in Nat
  BY <1>1
<1> HIDE DEF n, p
<1>6. ASSUME NEW k \in 1 .. n  PROVE p[k] = s[k]
  <2>1. k \in 1 .. n - 1 + 1 /\ 1 + k - 1 = k
    BY <1>5
  <2> QED  BY <1>3, <2>1
<1>7. Len(p) = n
  BY <1>3, <1>5
<1> QED
  BY <1>3, <1>4, <1>6, <1>7 DEF Popped, n, p

\* What Append does.
LEMMA AppendType ==
    ASSUME NEW S, NEW s \in Seq(S), NEW e \in S
    PROVE  /\ Append(s, e) \in Seq(S) /\ Len(Append(s, e)) = Len(s) + 1
           /\ \A k \in 1 .. Len(s) : Append(s, e)[k] = s[k]
           /\ Append(s, e)[Len(s) + 1] = e
           /\ Len(s) \in Nat
BY LenProperties, AppendProperties

\* More labels and more instructions.
LEMMA CodeGrows ==
    ASSUME NEW l \in Nat, NEW m \in Nat, l <= m,
           NEW c \in Seq(Instr(l)), NEW d \in Seq(Instr(m))
    PROVE  c \o d \in Seq(Instr(m))
<1>1. Instr(l) \subseteq Instr(m)
  <2>1. 0 .. l \subseteq 0 .. m
    OBVIOUS
  <2> QED  BY <2>1 DEF Instr
<1>2. c \in Seq(Instr(m))
  BY <1>1, SeqMonotonic
<1> QED
  BY <1>2, ConcatProperties

\* A stack of labels stays one when more are made.
LEMMA StackGrows ==
    ASSUME NEW l \in Nat, NEW m \in Nat, l <= m, NEW s \in Seq(0 .. l \cup {None})
    PROVE  s \in Seq(0 .. m \cup {None})
<1>1. 0 .. l \cup {None} \subseteq 0 .. m \cup {None}
  OBVIOUS
<1> QED
  BY <1>1, SeqMonotonic

\* The instructions that the statements add.
LEMMA InstrType ==
    ASSUME NEW m \in Nat
    PROVE  /\ \A l \in 0 .. m : Label(l) \in Instr(m) /\ Jmp(l) \in Instr(m)
           /\ \A t \in Nat : \A part \in {"init", "step", "value", "run", "return", "exit"} :
                 Do(t, part) \in Instr(m)
           /\ \A t \in Nat : \A l \in 0 .. m : \A op \in {"jt", "jf", "jne"} :
                 Branch(op, t, l) \in Instr(m)
BY DEF Label, Jmp, Do, Branch, Instr, Event, Part

-----------------------------------------------------------------------------
(* The stacks of labels *)

\* A loop or a switch begins.
LEMMA MirrorPush ==
    ASSUME NEW o \in Seq(Method), NEW h \in Seq(Place), NEW t \in Seq(Place),
           Mirrors(o, h, t),
           NEW meth \in Method, meth.kind \in Jumpable,
           NEW head \in Place, NEW tail \in Place,
           tail = TailOf(meth), head = HeadOf(meth)
    PROVE  Mirrors(Append(o, meth), Append(h, head), Append(t, tail))
<1> DEFINE n  == Len(h) - 1
           o2 == Append(o, meth)
           h2 == Append(h, head)
           t2 == Append(t, tail)
<1>1. PICK own : Owns(own, n, o, h, t)
  BY DEF Mirrors
<1>2. /\ Len(h) \in Nat /\ Len(h) >= 1 /\ Len(t) = Len(h) /\ h[1] = None /\ t[1] = None
      /\ Len(o) \in Nat /\ DOMAIN o = 1 .. Len(o)
  BY LenProperties DEF Mirrors
<1>3. /\ o2 \in Seq(Method) /\ Len(o2) = Len(o) + 1 /\ o2[Len(o) + 1] = meth
      /\ DOMAIN o2 = 1 .. Len(o) + 1 /\ \A k \in 1 .. Len(o) : o2[k] = o[k]
  <2>1. o2 \in Seq(Method) /\ Len(o2) = Len(o) + 1 /\ o2[Len(o) + 1] = meth
        /\ \A k \in 1 .. Len(o) : o2[k] = o[k]
    BY AppendType
  <2> QED  BY <2>1, LenProperties
<1>4. /\ Len(h2) = Len(h) + 1 /\ h2[Len(h) + 1] = head /\ \A k \in 1 .. Len(h) : h2[k] = h[k]
      /\ Len(t2) = Len(h) + 1 /\ t2[Len(h) + 1] = tail /\ \A k \in 1 .. Len(h) : t2[k] = t[k]
  <2>1. /\ Len(h2) = Len(h) + 1 /\ h2[Len(h) + 1] = head /\ \A k \in 1 .. Len(h) : h2[k] = h[k]
    BY AppendType
  <2>2. /\ Len(t2) = Len(t) + 1 /\ t2[Len(t) + 1] = tail /\ \A k \in 1 .. Len(t) : t2[k] = t[k]
    BY AppendType
  <2> QED  BY <1>2, <2>1, <2>2
<1> DEFINE own2 == [m \in 1 .. n + 1 |-> IF m = n + 1 THEN Len(o) + 1 ELSE own[m]]
<1> HIDE DEF o2, h2, t2
<1>5. Len(h2) - 1 = n + 1 /\ n \in Nat /\ n + 1 = Len(h)
  BY <1>2, <1>4
<1> HIDE DEF n
<1>6. ASSUME NEW m \in 1 .. n
      PROVE  own2[m] = own[m] /\ own[m] \in 1 .. Len(o)
  <2>1. m \in 1 .. n + 1 /\ m # n + 1
    BY <1>5
  <2> QED  BY <1>1, <1>2, <2>1 DEF Owns
<1>7. own2[n + 1] = Len(o) + 1
  BY <1>5
<1>8. own2 \in [1 .. n + 1 -> DOMAIN o2]
  BY SMTT(30), <1>1, <1>2, <1>3, <1>5 DEF Owns
<1> HIDE DEF own2
<1>9. ASSUME NEW m \in 1 .. n + 1
      PROVE  /\ o2[own2[m]].kind \in Jumpable
             /\ t2[m + 1] = TailOf(o2[own2[m]])
             /\ h2[m + 1] = HeadOf(o2[own2[m]])
  <2>1. CASE m = n + 1
    BY <1>3, <1>4, <1>5, <1>7, <2>1
  <2>2. CASE m # n + 1
    <3>1. m \in 1 .. n /\ m + 1 \in 1 .. Len(h)
      BY <1>5, <2>2
    <3>2. o2[own2[m]] = o[own[m]] /\ t2[m + 1] = t[m + 1] /\ h2[m + 1] = h[m + 1]
      BY <1>3, <1>4, <1>6, <3>1
    <3> QED  BY <1>1, <3>1, <3>2 DEF Owns
  <2> QED  BY <2>1, <2>2
<1>10. ASSUME NEW m \in 1 .. n + 1, NEW k \in 1 .. n + 1, m < k
       PROVE  own2[m] < own2[k]
  <2>1. m \in 1 .. n
    BY <1>5, <1>10
  <2>2. CASE k = n + 1
    BY <1>2, <1>6, <1>7, <2>1, <2>2
  <2>3. CASE k # n + 1
    <3>1. k \in 1 .. n
      BY <1>5, <2>3
    <3> QED  BY <1>1, <1>6, <1>10, <2>1, <3>1 DEF Owns
  <2> QED  BY <2>2, <2>3
<1>11. ASSUME NEW k \in DOMAIN o2, o2[k].kind \in Jumpable
       PROVE  \E m \in 1 .. n + 1 : own2[m] = k
  <2>1. CASE k = Len(o) + 1
    BY <1>5, <1>7, <2>1
  <2>2. CASE k # Len(o) + 1
    <3>1. k \in DOMAIN o /\ o2[k] = o[k]
      BY <1>2, <1>3, <2>2
    <3>2. PICK m \in 1 .. n : own[m] = k
      BY <1>1, <1>11, <3>1 DEF Owns
    <3>3. m \in 1 .. n + 1 /\ own2[m] = k
      BY <1>5, <1>6, <3>2
    <3> QED  BY <3>3
  <2> QED  BY <2>1, <2>2
<1>12. /\ Len(h2) = Len(t2) /\ Len(h2) >= 1 /\ h2[1] = None /\ t2[1] = None
  BY <1>2, <1>4
<1>13. Owns(own2, n + 1, o2, h2, t2)
  BY <1>8, <1>9, <1>10, <1>11 DEF Owns
<1>14. Mirrors(o2, h2, t2)
  BY <1>5, <1>12, <1>13 DEF Mirrors
<1> QED
  BY <1>14 DEF o2, h2, t2

\* A statement of another kind begins, or ends, or changes its kind.
LEMMA MirrorSame ==
    ASSUME NEW o \in Seq(Method), NEW h, NEW t, Mirrors(o, h, t),
           NEW o2 \in Seq(Method),
           \A k \in DOMAIN o : o[k].kind \in Jumpable =>
              k \in DOMAIN o2 /\ o2[k] = o[k],
           \A k \in DOMAIN o2 : o2[k].kind \in Jumpable =>
              k \in DOMAIN o /\ o[k] = o2[k]
    PROVE  Mirrors(o2, h, t)
<1> DEFINE n == Len(h) - 1
<1>1. PICK own : Owns(own, n, o, h, t)
  BY DEF Mirrors
<1> HIDE DEF n
<1>2. \A m \in 1 .. n : own[m] \in DOMAIN o2 /\ o2[own[m]] = o[own[m]]
  BY <1>1 DEF Owns
<1>3. own \in [1 .. n -> DOMAIN o2]
  BY <1>1, <1>2 DEF Owns
<1>4. Owns(own, n, o2, h, t)
  BY <1>1, <1>2, <1>3 DEF Owns
<1> QED
  BY <1>4 DEF Mirrors, n

\* The innermost active loop or switch ends.
LEMMA MirrorPop ==
    ASSUME NEW o \in Seq(Method), NEW h \in Seq(Place), NEW t \in Seq(Place),
           Mirrors(o, h, t), Len(o) >= 1, Back(o).kind \in Jumpable
    PROVE  /\ Mirrors(Popped(o), Popped(h), Popped(t))
           /\ Len(h) >= 2 /\ Len(t) >= 2
<1> DEFINE n  == Len(h) - 1
           o2 == Popped(o)
           h2 == Popped(h)
           t2 == Popped(t)
           own(f) == [m \in 1 .. n - 1 |-> f[m]]
<1>1. PICK f : Owns(f, n, o, h, t)
  BY DEF Mirrors
<1>2. /\ Len(h) \in Nat /\ Len(h) >= 1 /\ Len(t) = Len(h) /\ h[1] = None /\ t[1] = None
      /\ Len(o) \in Nat /\ DOMAIN o = 1 .. Len(o)
  BY LenProperties DEF Mirrors
<1>3. /\ o2 \in Seq(Method) /\ Len(o2) = Len(o) - 1 /\ DOMAIN o2 = 1 .. Len(o) - 1
      /\ \A k \in 1 .. Len(o) - 1 : o2[k] = o[k]
  <2>1. /\ o2 \in Seq(Method) /\ Len(o2) = Len(o) - 1
        /\ \A k \in 1 .. Len(o) - 1 : o2[k] = o[k]
    BY PoppedType
  <2> QED  BY <2>1, LenProperties
<1>4. /\ Len(h2) = n /\ \A k \in 1 .. n : h2[k] = h[k]
      /\ Len(t2) = n /\ \A k \in 1 .. n : t2[k] = t[k]
  <2>1. Len(h2) = n /\ \A k \in 1 .. n : h2[k] = h[k]
    BY <1>2, PoppedType
  <2>2. Len(t2) = Len(t) - 1 /\ \A k \in 1 .. Len(t) - 1 : t2[k] = t[k]
    BY <1>2, PoppedType
  <2> QED  BY <1>2, <2>1, <2>2
<1> HIDE DEF o2, h2, t2
<1>5. n \in Nat /\ n = Len(h) - 1
  BY <1>2
<1> HIDE DEF n
\* The last entry is for the last method.
<1>6. PICK last \in 1 .. n : f[last] = Len(o)
  <2>1. Len(o) \in DOMAIN o /\ o[Len(o)].kind \in Jumpable
    BY <1>2 DEF Back
  <2> QED  BY <1>1, <2>1 DEF Owns
<1>7. \A m \in 1 .. n : f[m] \in 1 .. Len(o)
  BY <1>1, <1>2 DEF Owns
<1>8. last = n /\ n >= 1
  <2>1. n \in 1 .. n
    BY <1>5, <1>6
  <2>2. ~ (last < n)
    <3>1. last < n => f[last] < f[n]
      BY <1>1, <1>6, <2>1 DEF Owns
    <3> QED  BY <1>2, <1>6, <1>7, <2>1, <3>1
  <2> QED  BY <1>5, <1>6, <2>2
<1>9. ASSUME NEW m \in 1 .. n - 1
      PROVE  own(f)[m] = f[m] /\ f[m] \in 1 .. Len(o) - 1 /\ m \in 1 .. n
  <2>1. m \in 1 .. n /\ n \in 1 .. n /\ m < n
    BY <1>5, <1>8
  <2>2. f[m] < f[n]
    BY <1>1, <2>1 DEF Owns
  <2> QED  BY <1>2, <1>6, <1>7, <1>8, <2>1, <2>2
<1>10. own(f) \in [1 .. n - 1 -> DOMAIN o2]
  BY <1>3, <1>9
<1> HIDE DEF own
<1>11. ASSUME NEW m \in 1 .. n - 1
       PROVE  /\ o2[own(f)[m]].kind \in Jumpable
              /\ t2[m + 1] = TailOf(o2[own(f)[m]])
              /\ h2[m + 1] = HeadOf(o2[own(f)[m]])
  <2>1. m + 1 \in 1 .. n /\ m \in 1 .. n
    BY <1>5
  <2>2. o2[own(f)[m]] = o[f[m]] /\ t2[m + 1] = t[m + 1] /\ h2[m + 1] = h[m + 1]
    BY <1>3, <1>4, <1>9, <2>1
  <2> QED  BY <1>1, <2>1, <2>2 DEF Owns
<1>12. ASSUME NEW m \in 1 .. n - 1, NEW k \in 1 .. n - 1, m < k
       PROVE  own(f)[m] < own(f)[k]
  BY <1>1, <1>9, <1>12 DEF Owns
<1>13. ASSUME NEW k \in DOMAIN o2, o2[k].kind \in Jumpable
       PROVE  \E m \in 1 .. n - 1 : own(f)[m] = k
  <2>1. k \in DOMAIN o /\ o2[k] = o[k] /\ k # Len(o)
    BY <1>2, <1>3, SMTT(30)
  <2>2. PICK m \in 1 .. n : f[m] = k
    BY <1>1, <1>13, <2>1 DEF Owns
  <2>3. m # n
    BY <1>6, <1>8, <2>1, <2>2
  <2>4. m \in 1 .. n - 1
    BY <1>5, <2>3
  <2> QED  BY <1>9, <2>2, <2>4
<1>14. Owns(own(f), n - 1, o2, h2, t2)
  BY <1>10, <1>11, <1>12, <1>13 DEF Owns
<1>15. Len(h2) = Len(t2) /\ Len(h2) >= 1 /\ h2[1] = None /\ t2[1] = None /\ Len(h2) - 1 = n - 1
  BY <1>2, <1>4, <1>5, <1>8
<1>16. Mirrors(o2, h2, t2)
  BY <1>14, <1>15 DEF Mirrors
<1> QED
  BY <1>2, <1>5, <1>8, <1>16 DEF o2, h2, t2

\* break has a target just in a loop or a switch; continue just if the innermost
\* of these is a loop. They go where that one says.
LEMMA MirrorTop ==
    ASSUME NEW o \in Seq(Method), NEW h \in Seq(Place), NEW t \in Seq(Place),
           Mirrors(o, h, t)
    PROVE  /\ Back(t) # None <=> \E k \in DOMAIN o : o[k].kind \in Jumpable
           /\ Back(h) # None <=>
                 \E k \in DOMAIN o :
                    /\ o[k].kind \in Loop
                    /\ \A m \in DOMAIN o : o[m].kind \in Jumpable => m <= k
           /\ Back(t) # None =>
                 \E k \in DOMAIN o :
                    /\ o[k].kind \in Jumpable
                    /\ \A m \in DOMAIN o : o[m].kind \in Jumpable => m <= k
                    /\ Back(t) = TailOf(o[k]) /\ Back(h) = HeadOf(o[k])
           /\ Back(h) # None => Back(t) # None
<1> DEFINE n == Len(h) - 1
<1>1. PICK own : Owns(own, n, o, h, t)
  BY DEF Mirrors
<1>2. /\ Len(h) \in Nat /\ Len(h) >= 1 /\ Len(t) = n + 1 /\ Len(h) = n + 1
      /\ h[1] = None /\ t[1] = None
      /\ Len(o) \in Nat /\ DOMAIN o = 1 .. Len(o)
  BY LenProperties DEF Mirrors
<1>3. n \in Nat
  BY <1>2
<1>4. Back(h) = h[n + 1] /\ Back(t) = t[n + 1]
  BY <1>2 DEF Back
<1> HIDE DEF n
<1>5. ASSUME n = 0
      PROVE  Back(h) = None /\ Back(t) = None /\ \A k \in DOMAIN o : o[k].kind \notin Jumpable
  <2>1. Back(h) = None /\ Back(t) = None
    BY <1>2, <1>4, <1>5
  <2>2. 1 .. n = {}
    BY <1>5
  <2> QED  BY <1>1, <2>1, <2>2 DEF Owns
<1>6. ASSUME n # 0
      PROVE  /\ n \in 1 .. n /\ own[n] \in DOMAIN o /\ o[own[n]].kind \in Jumpable
             /\ Back(t) # None /\ (Back(h) = None <=> o[own[n]].kind = "switch")
             /\ Back(t) = TailOf(o[own[n]]) /\ Back(h) = HeadOf(o[own[n]])
             /\ \A m \in DOMAIN o : o[m].kind \in Jumpable => m <= own[n]
  <2>1. n \in 1 .. n
    BY <1>3, <1>6
  <2>0. /\ own[n] \in DOMAIN o /\ o[own[n]].kind \in Jumpable
        /\ Back(t) = TailOf(o[own[n]]) /\ Back(h) = HeadOf(o[own[n]])
    BY <1>1, <1>4, <2>1 DEF Owns
  <2>2. /\ own[n] \in DOMAIN o /\ o[own[n]].kind \in Jumpable
        /\ Back(t) # None /\ (Back(h) = None <=> o[own[n]].kind = "switch")
    <3>1. o[own[n]].lb \in Nat
      <4>1. o[own[n]] \in Method
        BY <2>0, ElementOfSeq, LenProperties
      <4> QED  BY <4>1 DEF Method
    <3>2. \A x \in Nat : x # None /\ x + 1 # None /\ x + 3 # None
      <4>1. \A x \in Nat : x + 1 \in Nat /\ x + 3 \in Nat
        OBVIOUS
      <4>2. \A x \in Nat : x # None
        BY ConstAssumption
      <4> QED  BY <4>1, <4>2
    <3>3. TailOf(o[own[n]]) # None /\ (HeadOf(o[own[n]]) = None <=> o[own[n]].kind = "switch")
      BY <3>1, <3>2 DEF TailOf, HeadOf
    <3> QED  BY <2>0, <3>3
  <2>3. ASSUME NEW m \in DOMAIN o, o[m].kind \in Jumpable
        PROVE  m <= own[n]
    <3>1. PICK k \in 1 .. n : own[k] = m
      BY <1>1, <2>3 DEF Owns
    <3>2. k < n => own[k] < own[n]
      BY <1>1, <2>1 DEF Owns
    <3>3. k < n \/ k = n
      BY <1>3
    <3> QED  BY <1>2, <2>2, <3>1, <3>2, <3>3
  <2> QED  BY <2>0, <2>1, <2>2, <2>3
<1>7. Jumpable = Loop \cup {"switch"} /\ "switch" \notin Loop
  BY DEF Jumpable, Loop
<1>8. CASE n = 0
  BY <1>5, <1>7, <1>8
<1>9. CASE n # 0
  <2>1. Back(t) # None /\ \E k \in DOMAIN o : o[k].kind \in Jumpable
    BY <1>6, <1>9
  <2>2. ASSUME Back(h) # None
        PROVE  /\ o[own[n]].kind \in Loop
    BY <1>6, <1>7, <1>9, <2>2
  <2>3. ASSUME NEW k \in DOMAIN o, o[k].kind \in Loop,
               \A m \in DOMAIN o : o[m].kind \in Jumpable => m <= k
        PROVE  Back(h) # None
    <3>1. k <= own[n] /\ own[n] <= k
      BY <1>6, <1>7, <1>9, <2>3
    <3>2. k = own[n]
      BY <1>2, <1>6, <1>9, <3>1
    <3> QED  BY <1>6, <1>7, <1>9, <2>3, <3>2
  <2> QED  BY <1>6, <1>9, <2>1, <2>2, <2>3
<1> QED
  BY <1>8, <1>9

-----------------------------------------------------------------------------
(* The invariant is inductive *)

\* A method that has begun.
LEMMA BeginInv ==
    ASSUME IInv, Room(2), NEW kind \in Opener, NEW n \in Nat, n = Own(kind),
           NEW insts \in Seq(Instr(labels + n)), Begin(kind, n, insts),
           kind \in {"case", "default"} => open # << >> /\ Top.kind = "switch",
           heads' \in Seq(0 .. labels + n \cup {None}),
           tails' \in Seq(0 .. labels + n \cup {None}),
           Mirrors(open', heads', tails')
    PROVE  IInv'
<1> DEFINE meth == [kind |-> kind, tok |-> Tok, lb |-> labels + 1]
<1>1. /\ src' = Append(src, kind) /\ open' = Append(open, meth)
      /\ labels' = labels + n /\ code' = code \o insts
      /\ UNCHANGED <<rejected, at, expected, pc>>
  BY DEF Begin
<1>2. /\ src \in Seq(Opener \cup Closer \cup Single) /\ Len(src) \in Nat
      /\ open \in Seq(Method) /\ Len(open) \in Nat /\ labels \in Nat
      /\ DOMAIN src = 1 .. Len(src) /\ DOMAIN open = 1 .. Len(open)
      /\ Len(src) + Len(open) + 2 <= MaxTokens
      /\ code \in Seq(Instr(labels)) /\ rejected \subseteq DOMAIN src
      /\ at \in Nat \ {0} /\ pc \in {"parse", "walk"}
  BY LenProperties DEF IInv, Typed, Room
<1>0. /\ Len(src) \in Nat /\ Len(open) \in Nat /\ labels \in Nat /\ MaxTokens \in Nat
      /\ Len(src) + Len(open) + 2 <= MaxTokens /\ labels' = labels + n
  BY <1>1, <1>2, ConstAssumption
<1>3. meth \in Method /\ meth.kind = kind /\ meth.tok = Len(src) + 1 /\ meth.lb = labels + 1
  BY <1>2 DEF Method, Tok
<1> HIDE DEF meth
<1>4. /\ src' \in Seq(Opener \cup Closer \cup Single) /\ Len(src') = Len(src) + 1
      /\ DOMAIN src' = 1 .. Len(src) + 1
  <2>1. src' \in Seq(Opener \cup Closer \cup Single) /\ Len(src') = Len(src) + 1
    <3>1. kind \in Opener \cup Closer \cup Single
      OBVIOUS
    <3> HIDE DEF Opener, Closer, Single
    <3> QED  BY <1>1, <1>2, <3>1, AppendType
  <2> QED  BY <2>1, LenProperties
<1>5. /\ open' \in Seq(Method) /\ Len(open') = Len(open) + 1
      /\ DOMAIN open' = 1 .. Len(open) + 1
      /\ open'[Len(open) + 1] = meth /\ \A k \in 1 .. Len(open) : open'[k] = open[k]
  <2>1. /\ open' \in Seq(Method) /\ Len(open') = Len(open) + 1
        /\ open'[Len(open) + 1] = meth /\ \A k \in 1 .. Len(open) : open'[k] = open[k]
    BY <1>1, <1>2, <1>3, AppendType
  <2> QED  BY <2>1, LenProperties
<1>6. Typed'
  <2>1. code' \in Seq(Instr(labels'))
    BY SMTT(30), <1>1, <1>2, CodeGrows
  <2>2. Len(src') + Len(open') <= MaxTokens
    <3>1. Len(src') = Len(src) + 1 /\ Len(open') = Len(open) + 1
      BY <1>4, <1>5
    <3> QED  BY <1>0, <3>1
  <2>3. rejected' \subseteq DOMAIN src'
    BY SMTT(30), <1>1, <1>2, <1>4
  <2> QED  BY SMTT(30), <1>1, <1>2, <1>4, <1>5, <2>1, <2>2, <2>3 DEF Typed
<1>7. ASSUME NEW k \in DOMAIN open'
      PROVE  /\ open'[k].tok \in DOMAIN src'
             /\ open'[k].lb + Own(open'[k].kind) <= labels' + 1
             /\ open'[k].kind \in {"case", "default"} =>
                   k > 1 /\ open'[k - 1].kind = "switch"
  <2>1. CASE k \in 1 .. Len(open)
    <3>1. open'[k] = open[k] /\ k \in DOMAIN open
      BY <1>2, <1>5, <2>1
    <3>2. /\ open[k].tok \in DOMAIN src
          /\ open[k].lb + Own(open[k].kind) <= labels + 1
          /\ open[k].kind \in {"case", "default"} => k > 1 /\ open[k - 1].kind = "switch"
      BY <3>1 DEF IInv, Nested
    <3>3. k > 1 => open'[k - 1] = open[k - 1]
      BY SMTT(30), <1>2, <1>5, <2>1
    <3>4. open[k].lb \in Nat /\ Own(open[k].kind) \in Nat
      <4>1. open[k] \in Method
        BY <1>2, <3>1, ElementOfSeq
      <4> QED  BY <4>1 DEF Method, Own
    <3>5. open[k].lb + Own(open[k].kind) <= labels' + 1
      <4> DEFINE lb  == open[k].lb
                 own == Own(open[k].kind)
      <4>1. lb \in Nat /\ own \in Nat /\ lb + own <= labels + 1
        BY <3>2, <3>4
      <4> HIDE DEF lb, own
      <4>2. lb + own <= labels' + 1
        BY SMTT(30), <1>0, <4>1
      <4> QED  BY <4>2 DEF lb, own
    <3>6. open[k].tok \in DOMAIN src'
      BY SMTT(30), <1>2, <1>4, <3>2
    <3> QED  BY <3>1, <3>2, <3>3, <3>5, <3>6
  <2>2. CASE k = Len(open) + 1
    <3>1. open'[k] = meth
      BY <1>5, <2>2
    <3>2. meth.tok \in DOMAIN src' /\ meth.lb + Own(meth.kind) <= labels' + 1
      <4>1. meth.tok = Len(src) + 1 /\ meth.lb = labels + 1 /\ Own(meth.kind) = n
        BY <1>3
      <4> QED  BY SMTT(30), <1>0, <1>4, <4>1
    <3>3. ASSUME kind \in {"case", "default"}
          PROVE  k > 1 /\ open'[k - 1].kind = "switch"
      <4>1. open # << >> /\ open[Len(open)].kind = "switch"
        BY <3>3 DEF Top
      <4>2. Len(open) > 0
        BY <1>2, <4>1, EmptySeq
      <4>3. k - 1 = Len(open) /\ open'[k - 1] = open[Len(open)]
        BY <1>2, <1>5, <2>2, <4>2
      <4> QED  BY <1>2, <2>2, <4>1, <4>2, <4>3
    <3> QED  BY <1>3, <3>1, <3>2, <3>3
  <2> QED  BY <1>2, <1>5, <2>1, <2>2, SMTT(30)
<1> QED
  BY <1>6, <1>7 DEF IInv, Nested, Mirrors, Owns

\* What is left of the active methods when the last one ends.
LEMMA PoppedNested ==
    ASSUME IInv, open # << >>
    PROVE  /\ Len(open) \in Nat \ {0} /\ Top \in Method /\ Top = Back(open)
           /\ Popped(open) \in Seq(Method) /\ Len(Popped(open)) = Len(open) - 1
           /\ DOMAIN Popped(open) = 1 .. Len(open) - 1
           /\ Top.lb \in Nat /\ Top.lb + Own(Top.kind) <= labels + 1
           /\ \A k \in 1 .. Len(open) - 1 :
                 /\ Popped(open)[k] = open[k] /\ k \in DOMAIN open
                 /\ k > 1 => Popped(open)[k - 1] = open[k - 1]
<1>1. open \in Seq(Method) /\ Len(open) \in Nat /\ DOMAIN open = 1 .. Len(open)
  BY LenProperties DEF IInv, Typed
<1>2. Len(open) >= 1
  BY <1>1, EmptySeq
<1>3. /\ Popped(open) \in Seq(Method) /\ Len(Popped(open)) = Len(open) - 1
      /\ \A k \in 1 .. Len(open) - 1 : Popped(open)[k] = open[k]
      /\ Back(open) \in Method
  BY <1>1, <1>2, PoppedType
<1>4. DOMAIN Popped(open) = 1 .. Len(open) - 1
  BY <1>3, LenProperties
<1>5. Top = Back(open) /\ Top.lb \in Nat
  BY <1>3 DEF Top, Back, Method
<1>6. Top.lb + Own(Top.kind) <= labels + 1
  BY <1>1, <1>2 DEF Top, IInv, Nested
<1>7. \A k \in 1 .. Len(open) - 1 :
         /\ Popped(open)[k] = open[k] /\ k \in DOMAIN open
         /\ k > 1 => Popped(open)[k - 1] = open[k - 1]
  BY <1>1, <1>2, <1>3
<1> QED
  BY <1>1, <1>2, <1>3, <1>4, <1>5, <1>6, <1>7

\* Tokens and code are added while the methods that stay active are among those
\* that were.
LEMMA KeepInv ==
    ASSUME IInv, NEW toks \in Seq(Opener \cup Closer \cup Single),
           NEW insts \in Seq(Instr(labels)),
           src' = src \o toks, code' = code \o insts, labels' = labels,
           UNCHANGED <<at, pc>>,
           open' \in Seq(Method), Len(open') <= Len(open),
           Len(src) + Len(toks) + Len(open') <= MaxTokens,
           \A k \in DOMAIN open' : k \in DOMAIN open /\ open'[k] = open[k],
           heads' \in Seq(0 .. labels \cup {None}),
           tails' \in Seq(0 .. labels \cup {None}),
           Mirrors(open', heads', tails'),
           \A t \in rejected' : t \in rejected \/ t \in 1 .. Len(src) + Len(toks)
    PROVE  IInv'
<1>1. /\ src \in Seq(Opener \cup Closer \cup Single) /\ Len(src) \in Nat
      /\ DOMAIN src = 1 .. Len(src) /\ labels \in Nat /\ Len(toks) \in Nat
      /\ code \in Seq(Instr(labels)) /\ rejected \subseteq DOMAIN src
      /\ at \in Nat \ {0} /\ pc \in {"parse", "walk"}
  BY LenProperties DEF IInv, Typed
<1>2. /\ src' \in Seq(Opener \cup Closer \cup Single)
      /\ Len(src') = Len(src) + Len(toks) /\ DOMAIN src' = 1 .. Len(src) + Len(toks)
  <2> HIDE DEF Opener, Closer, Single
  <2>1. src' \in Seq(Opener \cup Closer \cup Single) /\ Len(src') = Len(src) + Len(toks)
    BY <1>1, ConcatProperties
  <2> QED  BY <2>1, LenProperties
<1>3. Typed'
  <2>1. code' \in Seq(Instr(labels'))
    BY <1>1, CodeGrows
  <2>2. rejected' \subseteq DOMAIN src'
    BY <1>1, <1>2
  <2>3. Len(src') + Len(open') <= MaxTokens
    BY <1>2
  <2> QED  BY <1>1, <1>2, <2>1, <2>2, <2>3 DEF Typed
<1>4. ASSUME NEW k \in DOMAIN open'
      PROVE  /\ open'[k].tok \in DOMAIN src'
             /\ open'[k].lb + Own(open'[k].kind) <= labels' + 1
             /\ open'[k].kind \in {"case", "default"} =>
                   k > 1 /\ open'[k - 1].kind = "switch"
  <2>1. k \in DOMAIN open /\ open'[k] = open[k]
    OBVIOUS
  <2>2. /\ open[k].tok \in DOMAIN src
        /\ open[k].lb + Own(open[k].kind) <= labels + 1
        /\ open[k].kind \in {"case", "default"} => k > 1 /\ open[k - 1].kind = "switch"
    BY <2>1 DEF IInv, Nested
  <2>3. k > 1 => open'[k - 1] = open[k - 1]
    <3>1. DOMAIN open' = 1 .. Len(open') /\ Len(open') \in Nat
      BY LenProperties
    <3>2. k > 1 => k - 1 \in DOMAIN open'
      BY <3>1
    <3> QED  BY <3>2
  <2>4. open[k].tok \in DOMAIN src'
    BY SMTT(30), <1>1, <1>2, <2>2
  <2> QED  BY <2>1, <2>2, <2>3, <2>4
<1> QED
  BY <1>3, <1>4 DEF IInv, Nested, Mirrors, Owns

\* One token is added.
LEMMA OneTok ==
    ASSUME NEW s \in Seq(Opener \cup Closer \cup Single),
           NEW tok \in Opener \cup Closer \cup Single
    PROVE  /\ Append(s, tok) = s \o << tok >> /\ Len(<< tok >>) = 1
           /\ << tok >> \in Seq(Opener \cup Closer \cup Single)
<1> DEFINE S == Opener \cup Closer \cup Single
<1> HIDE DEF S
<1>1. s \in Seq(S) /\ tok \in S
  BY DEF S
<1>2. Append(s, tok) = s \o << tok >>
  BY <1>1, AppendIsConcat
<1>3. << tok >> \in Seq(S) /\ Len(<< tok >>) = 1
  BY <1>1
<1> QED
  BY <1>2, <1>3 DEF S

\* The labels of the innermost loop or switch are taken off the stacks.
LEMMA PopStacks ==
    ASSUME IInv, NEW o \in Seq(Method), Mirrors(o, heads, tails),
           Len(o) >= 1, Back(o).kind \in Jumpable, Pop
    PROVE  /\ Mirrors(Popped(o), heads', tails')
           /\ heads' \in Seq(0 .. labels \cup {None})
           /\ tails' \in Seq(0 .. labels \cup {None})
<1> DEFINE S == 0 .. labels \cup {None}
<1>1. heads \in Seq(S) /\ tails \in Seq(S) /\ labels \in Nat
  BY DEF IInv, Typed
<1>2. heads \in Seq(Place) /\ tails \in Seq(Place)
  <2>1. S \subseteq Place
    BY <1>1 DEF Place
  <2> QED  BY <1>1, <2>1, SeqMonotonic
<1>3. /\ Mirrors(Popped(o), Popped(heads), Popped(tails))
      /\ Len(heads) >= 2 /\ Len(tails) >= 2
  BY <1>2, MirrorPop
<1> HIDE DEF S
<1>4. Len(heads) >= 1 /\ Len(tails) >= 1
  BY <1>1, <1>3, LenProperties
<1>5. Popped(heads) \in Seq(S) /\ Popped(tails) \in Seq(S)
  BY <1>1, <1>4, PoppedType
<1> QED
  BY <1>3, <1>5 DEF Pop, S

\* A method ends: its instructions are added and its token closed.
LEMMA EndInv ==
    ASSUME IInv, NEW kind, NEW insts \in Seq(Instr(labels)), End(kind, insts),
           IF kind \in Jumpable THEN Pop ELSE SameStacks
    PROVE  IInv'
<1>1. /\ open # << >> /\ Top.kind = kind /\ open' = Popped(open)
      /\ src' = Append(src, "end") /\ code' = code \o insts /\ labels' = labels
      /\ rejected' = rejected /\ UNCHANGED <<at, pc>>
  BY DEF End
<1>2. /\ src \in Seq(Opener \cup Closer \cup Single) /\ open \in Seq(Method)
      /\ heads \in Seq(0 .. labels \cup {None}) /\ tails \in Seq(0 .. labels \cup {None})
      /\ Len(src) \in Nat /\ MaxTokens \in Nat
      /\ Len(src) + Len(open) <= MaxTokens
      /\ DOMAIN open = 1 .. Len(open) /\ Mirrors(open, heads, tails)
  BY LenProperties, ConstAssumption DEF IInv, Typed
<1>3. /\ Len(open) \in Nat \ {0} /\ Top = Back(open)
      /\ open' \in Seq(Method) /\ Len(open') = Len(open) - 1
      /\ DOMAIN open' = 1 .. Len(open) - 1
      /\ \A k \in 1 .. Len(open) - 1 : open'[k] = open[k] /\ k \in DOMAIN open
  BY <1>1, PoppedNested
<1>4. /\ Mirrors(open', heads', tails')
      /\ heads' \in Seq(0 .. labels \cup {None}) /\ tails' \in Seq(0 .. labels \cup {None})
  <2>1. CASE kind \in Jumpable
    <3>1. Len(open) >= 1 /\ Back(open).kind \in Jumpable /\ Pop
      BY <1>1, <1>3, <2>1
    <3> QED  BY <1>1, <1>2, <3>1, PopStacks
  <2>2. CASE kind \notin Jumpable
    <3>1. heads' = heads /\ tails' = tails
      BY <2>2 DEF SameStacks
    <3>2. \A k \in DOMAIN open : open[k].kind \in Jumpable =>
             k \in DOMAIN open' /\ open'[k] = open[k]
      <4>1. SUFFICES ASSUME NEW k \in DOMAIN open, open[k].kind \in Jumpable
                     PROVE  k \in 1 .. Len(open) - 1
        BY <1>3
      <4>2. k # Len(open)
        BY <1>1, <2>2, <4>1 DEF Top
      <4> QED  BY <1>2, <1>3, <4>2
    <3>3. Mirrors(open', heads, tails)
      BY <1>2, <1>3, <3>2, MirrorSame
    <3> QED  BY <1>2, <3>1, <3>3
  <2> QED  BY <2>1, <2>2
<1>5. /\ src' = src \o << "end" >> /\ Len(<< "end" >>) = 1
      /\ << "end" >> \in Seq(Opener \cup Closer \cup Single)
  <2>1. "end" \in Opener \cup Closer \cup Single
    BY DEF Closer
  <2> QED  BY <1>1, <1>2, <2>1, OneTok
<1>6. Len(open') <= Len(open)
  BY <1>3
<1>7. Len(src) + Len(<< "end" >>) + Len(open') <= MaxTokens
  BY <1>2, <1>3, <1>5
<1>8. /\ \A k \in DOMAIN open' : k \in DOMAIN open /\ open'[k] = open[k]
      /\ \A t \in rejected' : t \in rejected
  BY <1>1, <1>3
<1> HIDE DEF Opener, Closer, Single
<1> QED
  BY <1>1, <1>3, <1>4, <1>5, <1>6, <1>7, <1>8, KeepInv

\* A default ends, and the switch around it with it.
LEMMA EndDefaultInv == IInv /\ EndDefault => IInv'
<1> SUFFICES ASSUME IInv, EndDefault  PROVE IInv'
  OBVIOUS
<1> DEFINE o     == Popped(open)
           insts == << Label(o[Len(open) - 1].lb) >>
           toks  == << "end", "end" >>
<1>1. /\ open # << >> /\ Top.kind = "default" /\ open' = Popped(o)
      /\ src' = src \o toks /\ code' = Append(code, Label(o[Len(open) - 1].lb))
      /\ labels' = labels /\ rejected' = rejected /\ UNCHANGED <<at, pc>> /\ Pop
  BY DEF EndDefault
<1>2. /\ src \in Seq(Opener \cup Closer \cup Single) /\ open \in Seq(Method)
      /\ Len(src) \in Nat /\ MaxTokens \in Nat /\ labels \in Nat
      /\ Len(src) + Len(open) <= MaxTokens /\ code \in Seq(Instr(labels))
      /\ DOMAIN open = 1 .. Len(open) /\ Mirrors(open, heads, tails)
  BY LenProperties, ConstAssumption DEF IInv, Typed
<1>3. /\ Len(open) \in Nat \ {0} /\ Top = Back(open)
      /\ o \in Seq(Method) /\ Len(o) = Len(open) - 1
      /\ DOMAIN o = 1 .. Len(open) - 1
      /\ \A k \in 1 .. Len(open) - 1 : o[k] = open[k] /\ k \in DOMAIN open
  BY <1>1, PoppedNested
<1>4. Len(open) > 1 /\ open[Len(open) - 1].kind = "switch"
  <2>1. Len(open) \in DOMAIN open /\ open[Len(open)].kind = "default"
    BY <1>1, <1>2, <1>3 DEF Top
  <2> QED  BY <2>1 DEF IInv, Nested
<1> HIDE DEF o
<1>5. Len(o) >= 1 /\ Back(o).kind = "switch" /\ o[Len(open) - 1] = open[Len(open) - 1]
  <2>1. Len(o) = Len(open) - 1 /\ Len(open) - 1 \in 1 .. Len(open) - 1
    BY <1>3, <1>4
  <2> QED  BY <1>3, <1>4, <2>1 DEF Back
<1>6. Mirrors(o, heads, tails)
  <2>1. \A k \in DOMAIN open : open[k].kind \in Jumpable =>
           k \in DOMAIN o /\ o[k] = open[k]
    <3>1. SUFFICES ASSUME NEW k \in DOMAIN open, open[k].kind \in Jumpable
                   PROVE  k \in 1 .. Len(open) - 1
      BY <1>3
    <3>2. k # Len(open)
      BY <1>1, <3>1 DEF Top, Jumpable, Loop
    <3> QED  BY <1>2, <1>3, <3>2
  <2> QED  BY <1>2, <1>3, <2>1, MirrorSame
<1>7. /\ Mirrors(open', heads', tails')
      /\ heads' \in Seq(0 .. labels \cup {None}) /\ tails' \in Seq(0 .. labels \cup {None})
  BY <1>1, <1>3, <1>5, <1>6, PopStacks DEF Jumpable
<1>8. /\ open' \in Seq(Method) /\ Len(open') = Len(open) - 2
      /\ \A k \in 1 .. Len(open) - 2 : open'[k] = o[k]
  <2>1. /\ Popped(o) \in Seq(Method) /\ Len(Popped(o)) = Len(o) - 1
        /\ \A k \in 1 .. Len(o) - 1 : Popped(o)[k] = o[k]
    BY <1>3, <1>5, PoppedType
  <2>2. Len(o) - 1 = Len(open) - 2
    BY <1>3
  <2> QED  BY <1>1, <2>1, <2>2
<1>9. \A k \in DOMAIN open' : k \in DOMAIN open /\ open'[k] = open[k]
  <2>1. DOMAIN open' = 1 .. Len(open) - 2
    BY <1>8, LenProperties
  <2>2. \A k \in 1 .. Len(open) - 2 : k \in 1 .. Len(open) - 1
    BY <1>3
  <2> QED  BY <1>3, <1>8, <2>1, <2>2
<1>10. insts \in Seq(Instr(labels)) /\ code' = code \o insts
  <2>1. o[Len(open) - 1].lb \in 0 .. labels
    <3>1. Len(open) - 1 \in DOMAIN open
      BY <1>2, <1>3, <1>4
    <3>2. open[Len(open) - 1] \in Method
      BY <1>2, <3>1, ElementOfSeq
    <3>3. open[Len(open) - 1].lb + Own("switch") <= labels + 1
      BY <1>4, <3>1 DEF IInv, Nested
    <3>4. Own("switch") = 1 /\ open[Len(open) - 1].lb \in Nat
      BY <3>2 DEF Own, Method
    <3> QED  BY <1>2, <1>5, <3>3, <3>4, SMTT(30)
  <2>2. Label(o[Len(open) - 1].lb) \in Instr(labels)
    BY <1>2, <2>1, InstrType
  <2> HIDE DEF Label, Instr
  <2> QED  BY <1>1, <1>2, <2>2, AppendIsConcat
<1>11. toks \in Seq(Opener \cup Closer \cup Single) /\ Len(toks) = 2
  <2> DEFINE S == Opener \cup Closer \cup Single
  <2>1. "end" \in S
    BY DEF Closer
  <2> HIDE DEF S
  <2>2. toks \in Seq(S) /\ Len(toks) = 2
    BY <2>1
  <2> QED  BY <2>2 DEF S
<1>12. Len(open') <= Len(open) /\ Len(src) + Len(toks) + Len(open') <= MaxTokens
  BY <1>2, <1>3, <1>8, <1>11
<1> HIDE DEF toks, insts, Opener, Closer, Single
<1> QED
  BY <1>1, <1>7, <1>8, <1>9, <1>10, <1>11, <1>12, KeepInv

\* An if goes on with its other branch: it keeps its labels.
LEMMA ElseInv == IInv /\ Else => IInv'
<1> SUFFICES ASSUME IInv, Else  PROVE IInv'
  OBVIOUS
<1> DEFINE n     == Len(open)
           meth  == [open[n] EXCEPT !.kind = "else", !.tok = Tok]
           insts == << Jmp(Top.lb + 1), Label(Top.lb) >>
<1>1. /\ open # << >> /\ Top.kind = "if" /\ Len(src) + Len(open) + 1 <= MaxTokens
      /\ src' = Append(src, "else") /\ code' = code \o insts
      /\ open' = [open EXCEPT ![Len(open)].kind = "else", ![Len(open)].tok = Tok]
      /\ labels' = labels /\ rejected' = rejected /\ UNCHANGED <<at, pc>>
      /\ heads' = heads /\ tails' = tails
  BY DEF Else, SameStacks, Room
<1>2. /\ src \in Seq(Opener \cup Closer \cup Single) /\ open \in Seq(Method)
      /\ Len(src) \in Nat /\ labels \in Nat /\ code \in Seq(Instr(labels))
      /\ heads \in Seq(0 .. labels \cup {None}) /\ tails \in Seq(0 .. labels \cup {None})
      /\ rejected \subseteq DOMAIN src /\ DOMAIN src = 1 .. Len(src)
      /\ at \in Nat \ {0} /\ pc \in {"parse", "walk"}
      /\ DOMAIN open = 1 .. n /\ Mirrors(open, heads, tails)
  BY LenProperties DEF IInv, Typed
<1>3. /\ n \in Nat \ {0} /\ Top.lb \in Nat /\ Top.lb + 1 <= labels /\ open[n] \in Method
      /\ open[n].kind = "if" /\ open[n].lb = Top.lb
  <2>1. /\ n \in Nat \ {0} /\ Top.lb \in Nat /\ Top \in Method
        /\ Top.lb + Own(Top.kind) <= labels + 1
    BY <1>1, PoppedNested
  <2>2. Own(Top.kind) = 2
    <3>1. Own("if") = 2
      BY DEF Own
    <3> QED  BY <1>1, <3>1
  <2> QED  BY SMTT(30), <1>1, <1>2, <2>1, <2>2 DEF Top
<1>4. /\ meth \in Method /\ meth.kind = "else" /\ meth.lb = open[n].lb
      /\ meth.tok = Len(src) + 1
  <2>1. Tok \in Nat /\ Tok = Len(src) + 1 /\ "else" \in Opener
    BY <1>2 DEF Tok, Opener
  <2> HIDE DEF Opener
  <2> QED  BY <1>3, <2>1 DEF Method
<1>5. open' = [open EXCEPT ![n] = meth]
  BY <1>1
<1> HIDE DEF meth
<1>6. /\ open' \in Seq(Method) /\ Len(open') = n /\ DOMAIN open' = 1 .. n
      /\ open'[n] = meth /\ \A k \in 1 .. n : k # n => open'[k] = open[k]
  <2>1. n \in 1 .. Len(open)
    BY <1>3
  <2>2. /\ open' \in Seq(Method) /\ Len(open') = n
        /\ \A k \in 1 .. Len(open) : open'[k] = IF k = n THEN meth ELSE open[k]
    BY <1>2, <1>4, <1>5, <2>1, ExceptSeq
  <2> QED  BY <2>1, <2>2, LenProperties
<1> HIDE DEF n
<1>7. /\ src' \in Seq(Opener \cup Closer \cup Single) /\ Len(src') = Len(src) + 1
      /\ DOMAIN src' = 1 .. Len(src) + 1
  <2> DEFINE S == Opener \cup Closer \cup Single
  <2>1. "else" \in S
    BY DEF Closer
  <2> HIDE DEF S
  <2>2. src \in Seq(S)
    BY <1>2 DEF S
  <2>3. src' \in Seq(S) /\ Len(src') = Len(src) + 1
    BY <1>1, <2>1, <2>2, AppendType
  <2> QED  BY <2>3, LenProperties DEF S
<1>8. code' \in Seq(Instr(labels'))
  <2>1. Jmp(Top.lb + 1) \in Instr(labels) /\ Label(Top.lb) \in Instr(labels)
    BY <1>2, <1>3, InstrType
  <2> HIDE DEF Jmp, Label, Instr
  <2>2. insts \in Seq(Instr(labels))
    BY <2>1
  <2> HIDE DEF insts
  <2> QED  BY <1>1, <1>2, <2>2, CodeGrows
<1>9. Typed'
  <2>1. rejected' \subseteq DOMAIN src'
    BY <1>1, <1>2, <1>7
  <2>2. Len(src') + Len(open') <= MaxTokens
    <3>1. Len(src) + n + 1 <= MaxTokens
      BY <1>1 DEF n
    <3>2. Len(src') = Len(src) + 1 /\ Len(open') = n
      BY <1>6, <1>7
    <3>3. Len(src) \in Nat /\ n \in Nat /\ MaxTokens \in Nat
      BY <1>2, <1>3, ConstAssumption
    <3> QED  BY <3>1, <3>2, <3>3
  <2> QED  BY <1>1, <1>2, <1>6, <1>7, <1>8, <2>1, <2>2 DEF Typed
<1>10. Mirrors(open', heads', tails')
  <2>1. \A k \in 1 .. n : k # n => open'[k] = open[k]
    BY <1>6
  <2>2. open'[n].kind \notin Jumpable /\ open[n].kind \notin Jumpable
    BY <1>3, <1>4, <1>6 DEF Jumpable, Loop
  <2>3. /\ \A k \in DOMAIN open : open[k].kind \in Jumpable =>
              k \in DOMAIN open' /\ open'[k] = open[k]
        /\ \A k \in DOMAIN open' : open'[k].kind \in Jumpable =>
              k \in DOMAIN open /\ open[k] = open'[k]
    BY <1>2, <1>6, <2>1, <2>2
  <2>4. Mirrors(open', heads, tails)
    BY <1>2, <1>6, <2>3, MirrorSame
  <2> QED  BY <1>1, <2>4
<1>11. ASSUME NEW k \in DOMAIN open'
       PROVE  /\ open'[k].tok \in DOMAIN src'
              /\ open'[k].lb + Own(open'[k].kind) <= labels' + 1
              /\ open'[k].kind \in {"case", "default"} =>
                    k > 1 /\ open'[k - 1].kind = "switch"
  <2>1. /\ open[k].tok \in DOMAIN src
        /\ open[k].lb + Own(open[k].kind) <= labels + 1
        /\ open[k].kind \in {"case", "default"} => k > 1 /\ open[k - 1].kind = "switch"
    BY <1>2, <1>6 DEF IInv, Nested
  <2>2. CASE k = n
    <3>1. Own("else") = 2 /\ Own("if") = 2
      BY DEF Own
    <3>2. open'[k] = meth
      BY <1>6, <2>2
    <3>3. meth.tok \in DOMAIN src'
      BY <1>2, <1>4, <1>7
    <3>4. meth.lb + 2 <= labels' + 1
      BY SMTT(30), <1>1, <1>2, <1>3, <1>4
    <3> QED  BY <1>4, <3>1, <3>2, <3>3, <3>4
  <2>3. CASE k # n
    <3>1. open'[k] = open[k]
      BY <1>6, <2>3
    <3>2. k > 1 => open'[k - 1] = open[k - 1]
      BY <1>3, <1>6
    <3>3. open[k].tok \in DOMAIN src'
      BY <1>2, <1>7, <2>1
    <3> QED  BY <1>1, <2>1, <3>1, <3>2, <3>3
  <2> QED  BY <2>2, <2>3
<1> QED
  BY <1>9, <1>10, <1>11 DEF IInv, Nested, Mirrors, Owns

\* A statement of one token.
LEMMA OneTokenInv ==
    ASSUME IInv, NEW kind \in Single, NEW insts \in Seq(Instr(labels)),
           OneToken(kind, insts), rejected' \subseteq rejected \cup {Tok}
    PROVE  IInv'
<1>1. /\ src' = Append(src, kind) /\ code' = code \o insts /\ open' = open
      /\ labels' = labels /\ heads' = heads /\ tails' = tails /\ UNCHANGED <<at, pc>>
      /\ Len(src) + Len(open) + 1 <= MaxTokens
  BY DEF OneToken, Room
<1>2. /\ src \in Seq(Opener \cup Closer \cup Single) /\ open \in Seq(Method)
      /\ heads \in Seq(0 .. labels \cup {None}) /\ tails \in Seq(0 .. labels \cup {None})
      /\ Len(src) \in Nat /\ MaxTokens \in Nat /\ Len(open) \in Nat
      /\ Mirrors(open, heads, tails) /\ rejected \subseteq 1 .. Len(src)
  BY LenProperties, ConstAssumption DEF IInv, Typed
<1>3. /\ src' = src \o << kind >> /\ Len(<< kind >>) = 1
      /\ << kind >> \in Seq(Opener \cup Closer \cup Single)
  BY <1>1, <1>2, OneTok
<1>4. Len(open') <= Len(open)
  BY <1>1, <1>2
<1>5. Len(src) + Len(<< kind >>) + Len(open') <= MaxTokens
  BY <1>1, <1>2, <1>3
<1>6. \A t \in rejected' : t \in rejected \/ t \in 1 .. Len(src) + Len(<< kind >>)
  BY <1>2, <1>3 DEF Tok
<1>7. /\ \A k \in DOMAIN open' : k \in DOMAIN open /\ open'[k] = open[k]
      /\ Mirrors(open', heads', tails')
  BY <1>1, <1>2
<1> HIDE DEF Opener, Closer, Single
<1> QED
  BY <1>1, <1>2, <1>3, <1>4, <1>5, <1>6, <1>7, KeepInv

\* The end of the function and the walk leave all that was generated, but for
\* the return point.
LEMMA WalkInv == IInv /\ (EndFunction \/ Silent \/ Act \/ UNCHANGED vars) => IInv'
<1> SUFFICES ASSUME IInv, EndFunction \/ Silent \/ Act \/ UNCHANGED vars
             PROVE  IInv'
  OBVIOUS
<1>1. /\ UNCHANGED <<src, open, labels, heads, tails, rejected>>
      /\ pc' \in {"parse", "walk"}
  BY DEF EndFunction, Silent, Act, generated, vars, IInv, Typed
<1>2. /\ labels \in Nat /\ code \in Seq(Instr(labels)) /\ at \in Nat \ {0}
      /\ src \in Seq(Opener \cup Closer \cup Single) /\ Len(src) \in Nat
  BY LenProperties DEF IInv, Typed
<1>3. code' \in Seq(Instr(labels))
  <2>1. CASE EndFunction
    <3> DEFINE insts == << Label(ReturnPoint), Do(Tok, "exit") >>
    <3>1. Label(ReturnPoint) \in Instr(labels) /\ Do(Tok, "exit") \in Instr(labels)
      BY <1>2, InstrType DEF ReturnPoint, Tok
    <3>2. code' = code \o insts
      BY <2>1 DEF EndFunction
    <3> HIDE DEF Label, Do, Instr
    <3>3. insts \in Seq(Instr(labels))
      BY <3>1
    <3> HIDE DEF insts
    <3> QED  BY <1>2, <3>2, <3>3, CodeGrows
  <2>2. CASE Silent \/ Act \/ UNCHANGED vars
    BY <1>2, <2>2 DEF Silent, Act, generated, vars
  <2> QED  BY <2>1, <2>2
<1>4. at' \in Nat \ {0}
  <2>1. \A l : PlaceOf(l) \subseteq Nat \ {0}
    <3>1. DOMAIN code = 1 .. Len(code) /\ Len(code) \in Nat
      BY <1>2, LenProperties
    <3> QED  BY <3>1 DEF PlaceOf
  <2>2. at + 1 \in Nat \ {0}
    BY <1>2
  <2> QED  BY <1>2, <2>1, <2>2 DEF EndFunction, Silent, Act, vars
<1>5. Typed'
  BY <1>1, <1>3, <1>4 DEF IInv, Typed
<1>6. Nested' /\ Mirrors(open, heads, tails)'
  BY <1>1 DEF IInv, Nested, Mirrors, Owns
<1> QED
  BY <1>5, <1>6 DEF IInv

\* The statements that begin.
LEMMA BeginsInv ==
    IInv /\ (While \/ DoWhile \/ For \/ If \/ Switch \/ Case \/ Default) => IInv'
<1> SUFFICES ASSUME IInv, While \/ DoWhile \/ For \/ If \/ Switch \/ Case \/ Default
             PROVE  IInv'
  OBVIOUS
<1> DEFINE L(n) == 0 .. labels + n \cup {None}
           l    == labels + 1
<1>1. /\ labels \in Nat /\ Tok \in Nat /\ Room(2)
      /\ heads \in Seq(0 .. labels \cup {None}) /\ tails \in Seq(0 .. labels \cup {None})
      /\ open \in Seq(Method) /\ Mirrors(open, heads, tails) /\ None \notin Nat
  <2>1. Len(src) \in Nat
    BY LenProperties DEF IInv, Typed
  <2>2. Room(2)
    BY DEF While, DoWhile, For, If, Switch, Case, Default
  <2>3. Tok \in Nat
    BY <2>1 DEF Tok
  <2> QED  BY <2>2, <2>3, ConstAssumption DEF IInv, Typed
\* What is pushed is a place, and belongs to the method that begins.
<1>2. ASSUME NEW kind \in Jumpable, NEW n \in Nat, NEW insts, Begin(kind, n, insts),
             NEW head \in L(n), NEW tail \in 1 .. labels + n, Push(head, tail),
             tail = IF kind = "switch" THEN labels + 1 ELSE labels + 2,
             head = IF kind = "switch" THEN None
                    ELSE IF kind = "for" THEN labels + 4 ELSE labels + 1
      PROVE  Mirrors(open', heads', tails') /\ heads' \in Seq(L(n)) /\ tails' \in Seq(L(n))
  <2> DEFINE meth == [kind |-> kind, tok |-> Tok, lb |-> labels + 1]
  <2>1. /\ open' = Append(open, meth) /\ heads' = Append(heads, head)
        /\ tails' = Append(tails, tail)
    BY <1>2 DEF Begin, Push
  <2>2. meth \in Method /\ meth.kind = kind
    BY <1>1 DEF Method, Jumpable, Opener
  <2>3. heads \in Seq(L(n)) /\ tails \in Seq(L(n)) /\ tail \in L(n) /\ tail # None
    <3>1. labels + n \in Nat /\ labels <= labels + n
      BY <1>1
    <3>2. heads \in Seq(L(n)) /\ tails \in Seq(L(n))
      BY <1>1, <3>1, StackGrows
    <3> QED  BY <1>1, <3>1, <3>2
  <2>4. L(n) \subseteq Place
    BY <1>1 DEF Place
  <2>5. heads \in Seq(Place) /\ tails \in Seq(Place) /\ head \in Place /\ tail \in Place
    BY <2>3, <2>4, SeqMonotonic
  <2>8. tail = TailOf(meth) /\ head = HeadOf(meth)
    <3>1. meth.lb + 1 = labels + 2 /\ meth.lb + 3 = labels + 4 /\ meth.lb = labels + 1
      BY <1>1
    <3> QED  BY <1>2, <2>2, <3>1 DEF TailOf, HeadOf
  <2> HIDE DEF L, meth
  <2>6. heads' \in Seq(L(n)) /\ tails' \in Seq(L(n))
    BY <2>1, <2>3, AppendProperties
  <2>7. Mirrors(open', heads', tails')
    BY <1>1, <1>2, <2>1, <2>2, <2>3, <2>5, <2>8, MirrorPush
  <2> QED  BY <2>6, <2>7
<1>3. ASSUME NEW kind \in Opener \ Jumpable, NEW n \in Nat, NEW insts,
             Begin(kind, n, insts), SameStacks
      PROVE  Mirrors(open', heads', tails') /\ heads' \in Seq(L(n)) /\ tails' \in Seq(L(n))
  <2> DEFINE meth == [kind |-> kind, tok |-> Tok, lb |-> labels + 1]
  <2>1. open' = Append(open, meth) /\ heads' = heads /\ tails' = tails
    BY <1>3 DEF Begin, SameStacks
  <2>2. meth \in Method /\ meth.kind = kind
    BY <1>1 DEF Method
  <2>3. heads \in Seq(L(n)) /\ tails \in Seq(L(n))
    <3>1. labels + n \in Nat /\ labels <= labels + n
      BY <1>1
    <3> QED  BY <1>1, <3>1, StackGrows
  <2> HIDE DEF meth, L
  <2>4. /\ open' \in Seq(Method) /\ Len(open') = Len(open) + 1 /\ Len(open) \in Nat
        /\ open'[Len(open) + 1] = meth /\ \A k \in 1 .. Len(open) : open'[k] = open[k]
    BY <1>1, <2>1, <2>2, AppendType
  <2>5. DOMAIN open' = 1 .. Len(open) + 1 /\ DOMAIN open = 1 .. Len(open)
    BY <1>1, <2>4, LenProperties
  <2>6. \A k \in DOMAIN open' : open'[k].kind \in Jumpable =>
              k \in DOMAIN open /\ open[k] = open'[k]
    <3>1. \A k \in DOMAIN open' : k \in DOMAIN open \/ k = Len(open) + 1
      BY <2>4, <2>5
    <3> QED  BY <2>2, <2>4, <2>5, <3>1
  <2>7. \A k \in DOMAIN open : k \in DOMAIN open' /\ open'[k] = open[k]
    BY <2>4, <2>5
  <2>8. Mirrors(open', heads, tails)
    BY <1>1, <2>4, <2>6, <2>7, MirrorSame
  <2> QED  BY <2>1, <2>3, <2>8
<1>4. /\ Own("while") = 2 /\ Own("do") = 2 /\ Own("for") = 4 /\ Own("if") = 2
      /\ Own("switch") = 1 /\ Own("case") = 1 /\ Own("default") = 0
  BY DEF Own
<1>5. /\ {"while", "do", "for", "switch"} \subseteq Jumpable /\ Jumpable \subseteq Opener
      /\ {"if", "case", "default"} \subseteq Opener \ Jumpable
  BY DEF Jumpable, Loop, Opener
<1>6. CASE While
  <2> DEFINE insts == << Label(l), Branch("jf", Tok, l + 1) >>
  <2>1. Begin("while", 2, insts) /\ Push(l, l + 1)
    BY <1>6 DEF While
  <2>2. insts \in Seq(Instr(labels + 2))
    <3>1. Label(l) \in Instr(labels + 2) /\ Branch("jf", Tok, l + 1) \in Instr(labels + 2)
      BY <1>1, InstrType
    <3> HIDE DEF Label, Branch, Instr
    <3> QED  BY <3>1
  <2>3. /\ l \in L(2) /\ l + 1 \in 1 .. labels + 2 /\ l # None
        /\ l + 1 = labels + 2 /\ l = labels + 1
    BY <1>1
  <2> HIDE DEF insts, l
  <2>4. Mirrors(open', heads', tails') /\ heads' \in Seq(L(2)) /\ tails' \in Seq(L(2))
    BY <1>2, <1>5, <2>1, <2>3
  <2> QED  BY <1>1, <1>4, <1>5, <2>1, <2>2, <2>4, BeginInv
<1>7. CASE DoWhile
  <2> DEFINE insts == << Label(l) >>
  <2>1. Begin("do", 2, insts) /\ Push(l, l + 1)
    BY <1>7 DEF DoWhile
  <2>2. insts \in Seq(Instr(labels + 2))
    <3>1. Label(l) \in Instr(labels + 2)
      BY <1>1, InstrType
    <3> HIDE DEF Label, Instr
    <3> QED  BY <3>1
  <2>3. /\ l \in L(2) /\ l + 1 \in 1 .. labels + 2 /\ l # None
        /\ l + 1 = labels + 2 /\ l = labels + 1
    BY <1>1
  <2> HIDE DEF insts, l
  <2>4. Mirrors(open', heads', tails') /\ heads' \in Seq(L(2)) /\ tails' \in Seq(L(2))
    BY <1>2, <1>5, <2>1, <2>3
  <2> QED  BY <1>1, <1>4, <1>5, <2>1, <2>2, <2>4, BeginInv
<1>8. CASE For
  <2> DEFINE insts == << Do(Tok, "init"), Label(l), Branch("jf", Tok, l + 1),
                         Jmp(l + 2), Label(l + 3), Do(Tok, "step"), Jmp(l),
                         Label(l + 2) >>
  <2>1. Begin("for", 4, insts) /\ Push(l + 3, l + 1)
    BY <1>8 DEF For
  <2>2. insts \in Seq(Instr(labels + 4))
    <3>1. /\ Do(Tok, "init") \in Instr(labels + 4) /\ Label(l) \in Instr(labels + 4)
          /\ Branch("jf", Tok, l + 1) \in Instr(labels + 4)
          /\ Jmp(l + 2) \in Instr(labels + 4) /\ Label(l + 3) \in Instr(labels + 4)
          /\ Do(Tok, "step") \in Instr(labels + 4) /\ Jmp(l) \in Instr(labels + 4)
          /\ Label(l + 2) \in Instr(labels + 4)
      BY <1>1, InstrType
    <3> HIDE DEF Label, Branch, Do, Jmp, Instr, l
    <3> QED  BY <3>1
  <2>3. /\ l + 3 \in L(4) /\ l + 1 \in 1 .. labels + 4 /\ l + 3 # None
        /\ l + 1 = labels + 2 /\ l + 3 = labels + 4
    BY <1>1
  <2> HIDE DEF insts, l
  <2>4. Mirrors(open', heads', tails') /\ heads' \in Seq(L(4)) /\ tails' \in Seq(L(4))
    BY <1>2, <1>5, <2>1, <2>3
  <2> QED  BY <1>1, <1>4, <1>5, <2>1, <2>2, <2>4, BeginInv
<1>9. CASE If
  <2> DEFINE insts == << Branch("jf", Tok, labels + 1) >>
  <2>1. Begin("if", 2, insts) /\ SameStacks
    BY <1>9 DEF If
  <2>2. insts \in Seq(Instr(labels + 2))
    <3>1. Branch("jf", Tok, labels + 1) \in Instr(labels + 2)
      BY <1>1, InstrType
    <3> HIDE DEF Branch, Instr
    <3> QED  BY <3>1
  <2> HIDE DEF insts
  <2>4. Mirrors(open', heads', tails') /\ heads' \in Seq(L(2)) /\ tails' \in Seq(L(2))
    BY <1>3, <1>5, <2>1
  <2> QED  BY <1>1, <1>4, <1>5, <2>1, <2>2, <2>4, BeginInv
<1>10. CASE Switch
  <2> DEFINE insts == << Do(Tok, "value") >>
  <2>1. Begin("switch", 1, insts) /\ Push(None, labels + 1)
    BY <1>10 DEF Switch
  <2>2. insts \in Seq(Instr(labels + 1))
    <3>1. Do(Tok, "value") \in Instr(labels + 1)
      BY <1>1, InstrType
    <3> HIDE DEF Do, Instr
    <3> QED  BY <3>1
  <2>3. None \in L(1) /\ labels + 1 \in 1 .. labels + 1
    BY <1>1
  <2> HIDE DEF insts
  <2>4. Mirrors(open', heads', tails') /\ heads' \in Seq(L(1)) /\ tails' \in Seq(L(1))
    BY <1>2, <1>5, <2>1, <2>3
  <2> QED  BY <1>1, <1>4, <1>5, <2>1, <2>2, <2>4, BeginInv
<1>11. CASE Case
  <2> DEFINE insts == << Branch("jne", Tok, labels + 1) >>
  <2>1. Begin("case", 1, insts) /\ SameStacks /\ open # << >> /\ Top.kind = "switch"
    BY <1>11 DEF Case
  <2>2. insts \in Seq(Instr(labels + 1))
    <3>1. Branch("jne", Tok, labels + 1) \in Instr(labels + 1)
      BY <1>1, InstrType
    <3> HIDE DEF Branch, Instr
    <3> QED  BY <3>1
  <2> HIDE DEF insts
  <2>4. Mirrors(open', heads', tails') /\ heads' \in Seq(L(1)) /\ tails' \in Seq(L(1))
    BY <1>3, <1>5, <2>1
  <2> QED  BY <1>1, <1>4, <1>5, <2>1, <2>2, <2>4, BeginInv
<1>12. CASE Default
  <2> DEFINE insts == << >>
  <2>1. Begin("default", 0, insts) /\ SameStacks /\ open # << >> /\ Top.kind = "switch"
    BY <1>12 DEF Default
  <2>2. insts \in Seq(Instr(labels + 0))
    BY EmptySeq
  <2> HIDE DEF insts
  <2>3. PICK n \in Nat : n = 0
    OBVIOUS
  <2>4. Mirrors(open', heads', tails') /\ heads' \in Seq(L(n)) /\ tails' \in Seq(L(n))
    BY <1>3, <1>5, <2>1, <2>3
  <2>5. Begin("default", n, insts) /\ insts \in Seq(Instr(labels + n)) /\ Own("default") = n
    BY <1>4, <2>1, <2>2, <2>3
  <2> QED  BY <1>1, <1>5, <2>1, <2>4, <2>5, BeginInv
<1> QED
  BY <1>6, <1>7, <1>8, <1>9, <1>10, <1>11, <1>12

\* The statements that end.
LEMMA EndsInv ==
    IInv /\ (EndWhile \/ EndDoWhile \/ EndFor \/ EndIf \/ EndElse \/ EndSwitch \/ EndCase)
        => IInv'
<1> SUFFICES ASSUME IInv, EndWhile \/ EndDoWhile \/ EndFor \/ EndIf \/ EndElse
                          \/ EndSwitch \/ EndCase
             PROVE  IInv'
  OBVIOUS
<1>1. labels \in Nat /\ open # << >>
  BY DEF IInv, Typed, End, EndWhile, EndDoWhile, EndFor, EndIf, EndElse, EndSwitch, EndCase
<1>2. Top.lb \in Nat /\ Top.lb + Own(Top.kind) <= labels + 1
  BY <1>1, PoppedNested
<1>3. /\ Own("while") = 2 /\ Own("do") = 2 /\ Own("for") = 4 /\ Own("if") = 2
      /\ Own("else") = 2 /\ Own("switch") = 1 /\ Own("case") = 1
  BY DEF Own
<1>4. /\ {"while", "do", "for", "switch"} \subseteq Jumpable
      /\ "if" \notin Jumpable /\ "else" \notin Jumpable /\ "case" \notin Jumpable
  BY DEF Jumpable, Loop
<1>5. ASSUME NEW n \in Nat, Own(Top.kind) = n + 1
      PROVE  \A k \in 0 .. n : /\ Jmp(Top.lb + k) \in Instr(labels)
                               /\ Label(Top.lb + k) \in Instr(labels)
                               /\ Branch("jt", Tok, Top.lb + k) \in Instr(labels)
  <2>1. \A k \in 0 .. n : Top.lb + k \in 0 .. labels
    BY <1>1, <1>2, <1>5
  <2>2. Tok \in Nat
    BY LenProperties DEF IInv, Typed, Tok
  <2> QED  BY <1>1, <2>1, <2>2, InstrType
<1>6. Top.lb + 0 = Top.lb
  BY <1>2
<1>7. CASE EndWhile
  <2> DEFINE insts == << Jmp(Top.lb), Label(Top.lb + 1) >>
  <2>1. End("while", insts) /\ Pop /\ Top.kind = "while"
    BY <1>7 DEF EndWhile, End
  <2>2. Jmp(Top.lb) \in Instr(labels) /\ Label(Top.lb + 1) \in Instr(labels)
    BY <1>3, <1>5, <1>6, <2>1
  <2>3. insts \in Seq(Instr(labels))
    <3> HIDE DEF Jmp, Label, Instr, Top
    <3> QED  BY <2>2
  <2> HIDE DEF insts
  <2> QED  BY <1>4, <2>1, <2>3, EndInv
<1>8. CASE EndDoWhile
  <2> DEFINE insts == << Branch("jt", Tok, Top.lb), Label(Top.lb + 1) >>
  <2>1. End("do", insts) /\ Pop /\ Top.kind = "do"
    BY <1>8 DEF EndDoWhile, End
  <2>2. Branch("jt", Tok, Top.lb) \in Instr(labels) /\ Label(Top.lb + 1) \in Instr(labels)
    BY <1>3, <1>5, <1>6, <2>1
  <2>3. insts \in Seq(Instr(labels))
    <3> HIDE DEF Branch, Label, Instr, Top
    <3> QED  BY <2>2
  <2> HIDE DEF insts
  <2> QED  BY <1>4, <2>1, <2>3, EndInv
<1>9. CASE EndFor
  <2> DEFINE insts == << Jmp(Top.lb + 3), Label(Top.lb + 1) >>
  <2>1. End("for", insts) /\ Pop /\ Top.kind = "for"
    BY <1>9 DEF EndFor, End
  <2>2. Jmp(Top.lb + 3) \in Instr(labels) /\ Label(Top.lb + 1) \in Instr(labels)
    BY <1>3, <1>5, <2>1
  <2>3. insts \in Seq(Instr(labels))
    <3> HIDE DEF Jmp, Label, Instr, Top
    <3> QED  BY <2>2
  <2> HIDE DEF insts
  <2> QED  BY <1>4, <2>1, <2>3, EndInv
<1>10. CASE EndIf
  <2> DEFINE insts == << Jmp(Top.lb + 1), Label(Top.lb), Label(Top.lb + 1) >>
  <2>1. End("if", insts) /\ SameStacks /\ Top.kind = "if"
    BY <1>10 DEF EndIf, End
  <2>2. /\ Jmp(Top.lb + 1) \in Instr(labels) /\ Label(Top.lb) \in Instr(labels)
        /\ Label(Top.lb + 1) \in Instr(labels)
    BY <1>3, <1>5, <1>6, <2>1
  <2>3. insts \in Seq(Instr(labels))
    <3> HIDE DEF Jmp, Label, Instr, Top
    <3> QED  BY <2>2
  <2> HIDE DEF insts
  <2> QED  BY <1>4, <2>1, <2>3, EndInv
<1>11. CASE EndElse
  <2> DEFINE insts == << Label(Top.lb + 1) >>
  <2>1. End("else", insts) /\ SameStacks /\ Top.kind = "else"
    BY <1>11 DEF EndElse, End
  <2>2. Label(Top.lb + 1) \in Instr(labels)
    BY <1>3, <1>5, <2>1
  <2>3. insts \in Seq(Instr(labels))
    <3> HIDE DEF Label, Instr, Top
    <3> QED  BY <2>2
  <2> HIDE DEF insts
  <2> QED  BY <1>4, <2>1, <2>3, EndInv
<1>12. CASE EndSwitch \/ EndCase
  <2> DEFINE insts == << Label(Top.lb) >>
  <2>1. \/ End("switch", insts) /\ Pop /\ Top.kind = "switch"
        \/ End("case", insts) /\ SameStacks /\ Top.kind = "case"
    BY <1>12 DEF EndSwitch, EndCase, End
  <2>2. Label(Top.lb) \in Instr(labels)
    <3>1. Own(Top.kind) = 0 + 1
      BY <1>3, <2>1
    <3>2. Label(Top.lb + 0) \in Instr(labels)
      BY <1>5, <3>1
    <3> QED  BY <1>6, <3>2
  <2>3. insts \in Seq(Instr(labels))
    <3> HIDE DEF Label, Instr, Top
    <3> QED  BY <2>2
  <2> HIDE DEF insts
  <2> QED  BY <1>4, <2>1, <2>3, EndInv
<1> QED
  BY <1>7, <1>8, <1>9, <1>10, <1>11, <1>12

\* The place a break or a continue jumps to is a label that was made.
LEMMA BackType ==
    ASSUME IInv
    PROVE  /\ Back(heads) \in 0 .. labels \cup {None}
           /\ Back(tails) \in 0 .. labels \cup {None}
<1> DEFINE S == 0 .. labels \cup {None}
<1>1. heads \in Seq(S) /\ tails \in Seq(S) /\ Len(heads) >= 1 /\ Len(heads) = Len(tails)
  BY DEF IInv, Typed, Mirrors
<1> HIDE DEF S
<1>2. Back(heads) \in S /\ Back(tails) \in S
  BY <1>1, PoppedType
<1> QED
  BY <1>2 DEF S

\* The statements of one token.
LEMMA SinglesInv == IInv /\ (Run \/ Return \/ Break \/ Continue) => IInv'
<1> SUFFICES ASSUME IInv, Run \/ Return \/ Break \/ Continue  PROVE IInv'
  OBVIOUS
<1>1. labels \in Nat /\ Tok \in Nat
  BY LenProperties DEF IInv, Typed, Tok
<1>2. << >> \in Seq(Instr(labels))
  BY EmptySeq
<1>3. CASE Run \/ Return
  <2>1. /\ Do(Tok, "run") \in Instr(labels) /\ Do(Tok, "return") \in Instr(labels)
        /\ Jmp(ReturnPoint) \in Instr(labels)
    BY <1>1, InstrType DEF ReturnPoint
  <2>2. /\ << Do(Tok, "run") >> \in Seq(Instr(labels))
        /\ << Do(Tok, "return"), Jmp(ReturnPoint) >> \in Seq(Instr(labels))
    <3> HIDE DEF Do, Jmp, Instr
    <3> QED  BY <2>1
  <2>3. rejected' \subseteq rejected \cup {Tok}
    BY <1>3 DEF Run, Return
  <2>4. \/ OneToken("run", << Do(Tok, "run") >>)
        \/ OneToken("return", << Do(Tok, "return"), Jmp(ReturnPoint) >>)
    BY <1>3 DEF Run, Return
  <2>5. "run" \in Single /\ "return" \in Single
    BY DEF Single
  <2> QED  BY <2>2, <2>3, <2>4, <2>5, OneTokenInv
<1>4. CASE Break \/ Continue
  <2>1. rejected' \subseteq rejected \cup {Tok}
    BY <1>4 DEF Break, Continue
  <2>2. \/ OneToken("break", << >>) \/ OneToken("continue", << >>)
        \/ Back(tails) # None /\ OneToken("break", << Jmp(Back(tails)) >>)
        \/ Back(heads) # None /\ OneToken("continue", << Jmp(Back(heads)) >>)
    BY <1>4 DEF Break, Continue
  <2>3. /\ Back(tails) # None => Jmp(Back(tails)) \in Instr(labels)
        /\ Back(heads) # None => Jmp(Back(heads)) \in Instr(labels)
    BY <1>1, BackType, InstrType
  <2>4. /\ Back(tails) # None => << Jmp(Back(tails)) >> \in Seq(Instr(labels))
        /\ Back(heads) # None => << Jmp(Back(heads)) >> \in Seq(Instr(labels))
    <3> HIDE DEF Jmp, Instr, Back
    <3> QED  BY <2>3
  <2>5. "break" \in Single /\ "continue" \in Single
    BY DEF Single
  <2> QED  BY <1>2, <2>1, <2>2, <2>4, <2>5, OneTokenInv
<1> QED
  BY <1>3, <1>4

\* Nothing has been parsed.
LEMMA InitInv == Init => IInv
<1> SUFFICES ASSUME Init  PROVE IInv
  OBVIOUS
<1>1. /\ src = << >> /\ open = << >> /\ code = << >> /\ labels = 0
      /\ heads = << None >> /\ tails = << None >> /\ rejected = {} /\ at = 1 /\ pc = "parse"
  BY DEF Init
<1>2. Typed
  <2>1. /\ src \in Seq(Opener \cup Closer \cup Single) /\ open \in Seq(Method)
        /\ code \in Seq(Instr(labels)) /\ Len(src) = 0 /\ Len(open) = 0
    BY <1>1, EmptySeq
  <2>2. << None >> \in Seq(0 .. labels \cup {None})
    OBVIOUS
  <2>3. Len(src) + Len(open) <= MaxTokens /\ labels \in Nat /\ at \in Nat \ {0}
    <3>1. MaxTokens \in Nat /\ labels = 0 /\ at = 1
      BY <1>1, ConstAssumption
    <3> QED  BY <2>1, <3>1
  <2>4. rejected \subseteq DOMAIN src /\ pc \in {"parse", "walk"}
    BY <1>1
  <2>5. heads = << None >> /\ tails = << None >>
    BY <1>1
  <2> QED  BY <2>1, <2>2, <2>3, <2>4, <2>5 DEF Typed
<1>3. Nested
  BY <1>1 DEF Nested
<1>4. Mirrors(open, heads, tails)
  <2>1. Len(heads) = 1 /\ Len(tails) = 1 /\ heads[1] = None /\ tails[1] = None
    BY <1>1
  <2>2. Owns(<< >>, 0, open, heads, tails)
    <3>1. << >> \in [1 .. 0 -> DOMAIN open] /\ DOMAIN open = {}
      BY <1>1
    <3> QED  BY <3>1 DEF Owns
  <2>3. Len(heads) - 1 = 0
    BY <2>1
  <2> QED  BY <2>1, <2>2, <2>3 DEF Mirrors
<1> QED
  BY <1>2, <1>3, <1>4 DEF IInv

\* Every step keeps the invariant.
LEMMA NextInv == IInv /\ [Next]_vars => IInv'
BY BeginsInv, EndsInv, ElseInv, EndDefaultInv, SinglesInv, WalkInv DEF Next, Parse

-----------------------------------------------------------------------------
(* What is rejected *)

\* A continue may stand in a switch in a loop, where genSwitchHead hides the
\* loop from it.
ContinueHidden == "continue in switch" \in Odd

\* The innermost of the open statements that are of some kinds.
LEMMA InnermostIs ==
    ASSUME IInv, NEW kinds
    PROVE  /\ Innermost(kinds) = 0 => \A k \in DOMAIN open : open[k].kind \notin kinds
           /\ Innermost(kinds) # 0 =>
                 /\ Innermost(kinds) \in DOMAIN open
                 /\ open[Innermost(kinds)].kind \in kinds
                 /\ \A k \in DOMAIN open : open[k].kind \in kinds => k <= Innermost(kinds)
<1> DEFINE found == {k \in DOMAIN open : open[k].kind \in kinds}
<1>1. DOMAIN open = 1 .. Len(open) /\ Len(open) \in Nat
  BY LenProperties DEF IInv, Typed
<1>2. CASE found = {}
  BY <1>2 DEF Innermost
<1>3. CASE found # {}
  <2>1. \E k \in found : \A m \in found : m <= k
    <3>1. found \in SUBSET (0 .. Len(open))
      BY <1>1
    <3> HIDE DEF found
    <3> QED  BY <1>1, <1>3, <3>1, Greatest
  <2>2. Innermost(kinds) = CHOOSE k \in found : \A m \in found : m <= k
    BY <1>3 DEF Innermost
  <2>3. Innermost(kinds) \in found /\ \A m \in found : m <= Innermost(kinds)
    <3> HIDE DEF found
    <3> QED  BY <2>1, <2>2
  <2>4. Innermost(kinds) # 0
    BY <1>1, <2>3
  <2> QED  BY <2>3, <2>4
<1> QED
  BY <1>2, <1>3

\* A break or continue that has just been parsed is rejected just when no
\* statement that is open is one it could leave or go on with.
LEMMA JumpRejected ==
    ASSUME IInv, ~ ContinueHidden, Break \/ Continue
    PROVE  RejectedRightly'
<1>1. /\ src \in Seq(Opener \cup Closer \cup Single) /\ Len(src) \in Nat
      /\ open \in Seq(Method) /\ DOMAIN open = 1 .. Len(open) /\ Len(open) \in Nat
      /\ heads \in Seq(0 .. labels \cup {None}) /\ tails \in Seq(0 .. labels \cup {None})
      /\ rejected \subseteq 1 .. Len(src) /\ labels \in Nat /\ Mirrors(open, heads, tails)
  BY LenProperties DEF IInv, Typed
<1>0. /\ Len(src) \in Nat /\ DOMAIN src = 1 .. Len(src) /\ rejected \subseteq 1 .. Len(src)
      /\ DOMAIN open = 1 .. Len(open) /\ Len(open) \in Nat /\ labels \in Nat
  BY <1>1, LenProperties
<1>2. heads \in Seq(Place) /\ tails \in Seq(Place)
  <2>1. 0 .. labels \cup {None} \subseteq Place
    BY <1>0 DEF Place
  <2> QED  BY <1>1, <2>1, SeqMonotonic
<1>3. /\ Back(tails) # None <=> \E k \in DOMAIN open : open[k].kind \in Jumpable
      /\ Back(heads) # None <=>
            \E k \in DOMAIN open :
               /\ open[k].kind \in Loop
               /\ \A m \in DOMAIN open : open[m].kind \in Jumpable => m <= k
  BY <1>1, <1>2, MirrorTop
<1>4. ASSUME NEW kind \in {"break", "continue"}, src' = Append(src, kind), open' = open,
             NEW kinds, kinds = IF kind = "break" THEN Loop \cup {"switch"} ELSE Loop,
             NEW hit \in BOOLEAN,
             hit <=> \E k \in DOMAIN open : open[k].kind \in kinds,
             rejected' = IF hit THEN rejected ELSE rejected \cup {Tok}
      PROVE  RejectedRightly'
  <2> DEFINE n == Len(src) + 1
  <2>1. /\ Len(src') = n /\ src'[n] = kind /\ DOMAIN src' = 1 .. n
    <3> DEFINE S == Opener \cup Closer \cup Single
    <3>1. kind \in S /\ src \in Seq(S)
      BY <1>1 DEF Single
    <3> HIDE DEF S
    <3>2. src' = Append(src, kind)
      BY <1>4
    <3>3. src' \in Seq(S) /\ Len(src') = n /\ src'[n] = kind
      BY <3>1, <3>2, AppendType
    <3> QED  BY <3>3, LenProperties
  <2>2. \A k \in DOMAIN open : open[k].tok < n
    <3>1. \A k \in DOMAIN open : open[k].tok \in DOMAIN src
      BY DEF IInv, Nested
    <3> QED  BY <1>0, <3>1
  <2>3. n \in rejected' <=> ~ hit
    <3>1. n \notin rejected /\ n = Tok
      BY <1>0 DEF Tok
    <3> QED  BY <1>4, <3>1
  <2> HIDE DEF n
  <2>4. n \in rejected' <=> \A k \in {k \in DOMAIN open' : open'[k].tok < n} :
                               open'[k].kind \notin kinds
    BY <1>4, <2>2, <2>3
  <2> QED  BY <1>4, <2>1, <2>4 DEF RejectedRightly
<1>5. CASE Break
  <2> DEFINE hit == \E k \in DOMAIN open : open[k].kind \in Jumpable
  <2>1. /\ src' = Append(src, "break") /\ open' = open
        /\ rejected' = IF Back(tails) # None THEN rejected ELSE rejected \cup {Tok}
    BY <1>5 DEF Break, OneToken
  <2>2. rejected' = IF hit THEN rejected ELSE rejected \cup {Tok}
    BY <1>3, <2>1
  <2> QED  BY <1>4, <2>1, <2>2 DEF Jumpable
<1>6. CASE Continue
  <2> DEFINE hit == \E k \in DOMAIN open : open[k].kind \in Loop
  <2>1. /\ src' = Append(src, "continue") /\ open' = open
        /\ rejected' = IF Back(heads) # None THEN rejected ELSE rejected \cup {Tok}
        /\ \/ Innermost({"switch"}) = 0
           \/ Innermost(Loop) = 0
           \/ Innermost({"switch"}) < Innermost(Loop)
    BY <1>6, Zenon DEF Continue, OneToken, ContinueHidden
  <2>2. Back(heads) # None <=> hit
    <3>1. ASSUME hit
          PROVE  /\ Innermost(Loop) \in DOMAIN open /\ open[Innermost(Loop)].kind \in Loop
                 /\ \A m \in DOMAIN open :
                       open[m].kind \in Jumpable => m <= Innermost(Loop)
      <4>1. Innermost(Loop) # 0
        BY <3>1, InnermostIs
      <4>2. /\ Innermost(Loop) \in DOMAIN open /\ open[Innermost(Loop)].kind \in Loop
            /\ \A k \in DOMAIN open : open[k].kind \in Loop => k <= Innermost(Loop)
        BY <4>1, InnermostIs
      <4>3. ASSUME NEW m \in DOMAIN open, open[m].kind = "switch"
            PROVE  m <= Innermost(Loop)
        <5>1. Innermost({"switch"}) # 0
          BY <4>3, InnermostIs
        <5>2. m <= Innermost({"switch"}) /\ Innermost({"switch"}) \in DOMAIN open
          BY <4>3, <5>1, InnermostIs
        <5>3. Innermost({"switch"}) < Innermost(Loop)
          BY <2>1, <4>1, <5>1
        <5>4. m \in Nat /\ Innermost(Loop) \in Nat /\ Innermost({"switch"}) \in Nat
          BY <1>0, <4>2, <5>2
        <5> QED  BY <5>2, <5>3, <5>4
      <4> QED  BY <4>2, <4>3 DEF Jumpable
    <3> QED  BY <1>3, <3>1
  <2>3. rejected' = IF hit THEN rejected ELSE rejected \cup {Tok}
    BY <2>1, <2>2
  <2> QED  BY <1>4, <2>1, <2>3
<1> QED
  BY <1>5, <1>6

\* Nothing has been rejected yet.
LEMMA InitRejected == Init => RejectedRightly
<1> SUFFICES ASSUME Init  PROVE RejectedRightly
  OBVIOUS
<1>1. DOMAIN src = {}
  BY DEF Init
<1> QED
  BY <1>1 DEF RejectedRightly

\* The last token is a break or continue only after the step that parsed it.
LEMMA NextRejected ==
    ASSUME IInv, RejectedRightly, ~ ContinueHidden, [Next]_vars
    PROVE  RejectedRightly'
<1>1. src \in Seq(Opener \cup Closer \cup Single) /\ Len(src) \in Nat
  BY LenProperties DEF IInv, Typed
<1>2. ASSUME NEW kind \in (Opener \cup Closer \cup Single) \ {"break", "continue"},
             src' = Append(src, kind)
      PROVE  RejectedRightly'
  <2> DEFINE S == Opener \cup Closer \cup Single
  <2> HIDE DEF S
  <2>1. src \in Seq(S) /\ kind \in S
    BY <1>1, <1>2 DEF S
  <2>2. src'[Len(src')] = kind
    BY <1>2, <2>1, AppendType
  <2> QED  BY <1>2, <2>2 DEF RejectedRightly
<1>3. ASSUME src' = src \o << "end", "end" >>
      PROVE  RejectedRightly'
  <2>1. src'[Len(src')] = "end"
    <3> DEFINE S    == Opener \cup Closer \cup Single
               toks == << "end", "end" >>
    <3>1. "end" \in S
      BY DEF Closer
    <3> HIDE DEF S
    <3>2. src \in Seq(S)
      BY <1>1 DEF S
    <3>3. toks \in Seq(S) /\ Len(toks) = 2 /\ toks[2] = "end"
      BY <3>1
    <3> HIDE DEF toks
    <3>4. /\ Len(src \o toks) = Len(src) + 2
          /\ (src \o toks)[Len(src) + 2] = toks[2]
      <4>1. /\ Len(src \o toks) = Len(src) + Len(toks)
            /\ \A i \in 1 .. Len(src) + Len(toks) :
                  (src \o toks)[i] = IF i <= Len(src) THEN src[i] ELSE toks[i - Len(src)]
        BY <3>2, <3>3, ConcatProperties
      <4>2. /\ Len(src) + 2 \in 1 .. Len(src) + Len(toks) /\ ~ (Len(src) + 2 <= Len(src))
            /\ Len(src) + 2 - Len(src) = 2
        BY <1>1, <3>3
      <4> QED  BY <3>3, <4>1, <4>2
    <3> QED  BY <1>3, <3>3, <3>4 DEF toks
  <2> QED  BY <2>1 DEF RejectedRightly
<1>4. CASE Break \/ Continue
  BY <1>4, JumpRejected
<1>5. CASE EndFunction \/ Silent \/ Act \/ UNCHANGED vars
  <2>1. UNCHANGED <<src, open, rejected>>
    BY <1>5 DEF EndFunction, Silent, Act, generated, vars
  <2> QED  BY <2>1 DEF RejectedRightly
<1>6. CASE EndDefault
  BY <1>3, <1>6 DEF EndDefault
<1>7. CASE While \/ DoWhile \/ For \/ If \/ Switch \/ Case \/ Default
  <2>1. PICK kind \in Opener : src' = Append(src, kind)
    BY <1>7 DEF While, DoWhile, For, If, Switch, Case, Default, Begin, Opener, Loop
  <2> QED  BY <1>2, <2>1 DEF Opener, Loop
<1>8. CASE EndWhile \/ EndDoWhile \/ EndFor \/ EndIf \/ EndElse \/ EndSwitch \/ EndCase
           \/ Else \/ Run \/ Return
  <2>1. PICK kind \in {"end", "else", "run", "return"} : src' = Append(src, kind)
    BY <1>8 DEF EndWhile, EndDoWhile, EndFor, EndIf, EndElse, EndSwitch, EndCase, End,
                Else, Run, Return, OneToken
  <2>2. kind \in (Opener \cup Closer \cup Single) \ {"break", "continue"}
    BY DEF Closer, Single
  <2> QED  BY <1>2, <2>1, <2>2
<1> QED
  BY <1>4, <1>5, <1>6, <1>7, <1>8 DEF Next, Parse

-----------------------------------------------------------------------------
(* Theorems *)

\* The inductive invariant holds in every reachable state.
THEOREM Invariance == Spec => []IInv
BY InitInv, NextInv, PTL DEF Spec

\* Whatever is parsed, the instructions are of the kinds the generator has and
\* every jump goes to a label that has been made, or to the return point.
THEOREM TypeCorrect == Spec => []TypeOK
<1>1. IInv => TypeOK
  <2> SUFFICES ASSUME IInv  PROVE TypeOK
    OBVIOUS
  <2>1. /\ src \in Seq(Opener \cup Closer \cup Single) /\ Len(src) \in Nat
        /\ open \in Seq(Method) /\ Len(open) \in Nat
        /\ Len(src) + Len(open) <= MaxTokens
        /\ code \in Seq(Instr(labels)) /\ labels \in Nat /\ rejected \subseteq DOMAIN src
        /\ at \in Nat \ {0} /\ pc \in {"parse", "walk"}
    BY LenProperties DEF IInv, Typed
  <2>2. Len(src) <= MaxTokens
    <3>1. MaxTokens \in Nat
      BY ConstAssumption
    <3> QED  BY <2>1, <3>1
  <2>3. \A k \in DOMAIN open :
           open[k].kind \in Opener /\ open[k].tok \in DOMAIN src /\ open[k].lb \in Nat
    <3>1. \A k \in DOMAIN open : open[k] \in Method
      BY <2>1, LenProperties, ElementOfSeq
    <3> QED  BY <3>1 DEF Method, IInv, Nested
  <2>4. \A k \in DOMAIN code :
           /\ code[k].op \in {"label", "jmp", "do", "jt", "jf", "jne"}
           /\ code[k].to \in 0 .. labels \cup {None}
    <3>1. \A k \in DOMAIN code : code[k] \in Instr(labels)
      BY <2>1, LenProperties, ElementOfSeq
    <3> QED  BY <3>1 DEF Instr
  <2> HIDE DEF Opener, Closer, Single
  <2> QED  BY <2>1, <2>2, <2>3, <2>4 DEF TypeOK
<1> QED
  BY <1>1, Invariance, PTL

\* In programs without a continue in a switch, break and continue are reported
\* just where no statement around them is one they could leave or go on with:
\* the stacks of labels always say what lies around the token being parsed.
THEOREM JumpsRejectedRightly ==
    ASSUME "continue in switch" \notin Odd
    PROVE  Spec => []RejectedRightly
<1>1. ~ ContinueHidden
  BY Zenon DEF ContinueHidden
<1>2. Init => RejectedRightly
  BY InitRejected
<1>3. IInv /\ RejectedRightly /\ [Next]_vars => RejectedRightly'
  BY <1>1, NextRejected
<1> QED
  BY <1>2, <1>3, Invariance, PTL DEF Spec

-----------------------------------------------------------------------------
(* The tokens of a body and the code of each *)

\* What token t is; past the last one the function ends.
KindAt(s, t) == IF t \in DOMAIN s THEN s[t] ELSE "exit"

\* d are levels: how much is open after each token.
Step(kind) == (IF kind \in Opener THEN 1 ELSE 0) - (IF kind \in Closer THEN 1 ELSE 0)

\* Token e closes what token o opens.
Closes(s, d, o, e) ==
    /\ o \in 1 .. e - 1 /\ s[o] \in Opener /\ d[o] = d[e - 1]
    /\ s[e] = "else" => s[o] = "if"
    /\ \A f \in o + 1 .. e - 1 : s[f] \in Closer => d[f - 1] > d[o]

\* own says what a token belongs to: a closer to what it closes, break and
\* continue to the statement they leave or go on with. Up to token n, t is shut.
Shut(s, own, t, n) == \E e \in t + 1 .. n : s[e] \in Closer /\ own[e] = t

\* Of the loops and switches around token t, o is the innermost.
Leaves(s, own, o, t) ==
    /\ o \in 1 .. t - 1 /\ s[o] \in Jumpable /\ ~ Shut(s, own, o, t - 1)
    /\ \A p \in o + 1 .. t - 1 : s[p] \in Jumpable => Shut(s, own, p, t - 1)
    /\ s[t] = "continue" => s[o] \in {"while", "for"}

\* After token t a switch waits for its next branch.
Forked(s, own, t) ==
    /\ t \in DOMAIN s
    /\ s[t] = "switch" \/ (s[t] = "end" /\ s[own[t]] = "case")

\* Branches stand where a switch waits for them, and a case is left by a jump.
Follows(s, own, t) ==
    /\ s[t] \in {"case", "default"} => Forked(s, own, t - 1)
    /\ Forked(s, own, t - 1) =>
          s[t] \in {"case", "default"} \/ (s[t] = "end" /\ s[own[t]] = "switch")
    /\ s[t] = "end" /\ s[own[t]] = "case" => s[t - 1] \in {"break", "continue", "return"}

TokenOK(s, d, own, t) ==
    /\ d[t] = d[t - 1] + Step(s[t]) /\ own[t] \in 0 .. t - 1
    /\ s[t] \in Closer => Closes(s, d, own[t], t)
    /\ s[t] \in {"break", "continue"} => Leaves(s, own, own[t], t)
    /\ Follows(s, own, t)

Tree(s, d, own) ==
    /\ d \in [Nat -> Nat] /\ own \in [Nat -> Nat] /\ d[0] = 0
    /\ \A t \in 1 .. Len(s) : TokenOK(s, d, own, t)

\* The instructions of the end e of a statement whose labels begin with a.
EndCode(kind, e, a) ==
    CASE kind = "while"           -> << Jmp(a), Label(a + 1) >>
      [] kind = "do"              -> << Branch("jt", e, a), Label(a + 1) >>
      [] kind = "for"             -> << Jmp(a + 3), Label(a + 1) >>
      [] kind = "if"              -> << Jmp(a + 1), Label(a), Label(a + 1) >>
      [] kind = "else"            -> << Label(a + 1) >>
      [] kind \in {"switch", "case"} -> << Label(a) >>
      [] kind \notin {"while", "do", "for", "if", "else", "switch", "case"} -> << >>

\* The instructions of token t of some kind, whose own labels begin with b, and
\* which belongs to a token of kind m whose labels begin with a.
TokenCode(kind, m, t, b, a) ==
    CASE kind = "while"    -> << Label(b), Branch("jf", t, b + 1) >>
      [] kind = "do"       -> << Label(b) >>
      [] kind = "for"      -> << Do(t, "init"), Label(b), Branch("jf", t, b + 1), Jmp(b + 2),
                                 Label(b + 3), Do(t, "step"), Jmp(b), Label(b + 2) >>
      [] kind = "if"       -> << Branch("jf", t, b) >>
      [] kind = "else"     -> << Jmp(a + 1), Label(a) >>
      [] kind = "switch"   -> << Do(t, "value") >>
      [] kind = "case"     -> << Branch("jne", t, b) >>
      [] kind = "run"      -> << Do(t, "run") >>
      [] kind = "return"   -> << Do(t, "return"), Jmp(ReturnPoint) >>
      [] kind = "break"    -> << Jmp(IF m = "switch" THEN a ELSE a + 1) >>
      [] kind = "continue" -> << Jmp(IF m = "for" THEN a + 3 ELSE a) >>
      [] kind = "end"      -> EndCode(m, t, a)
      [] kind = "exit"     -> << Label(ReturnPoint), Do(t, "exit") >>
      [] kind = "default"  -> << >>

CodeAt(s, own, base, t) ==
    TokenCode(KindAt(s, t), KindAt(s, own[t]), t, base[t], base[own[t]])

\* The code c is that of the tokens up to n, one after the other: that of token
\* t, which is e[t], begins after instruction start[t].
Laid(n, e, start, c) ==
    /\ start \in [Nat -> Nat] /\ start[1] = 0 /\ start[n + 1] = Len(c)
    /\ \A t \in 1 .. n :
          /\ start[t + 1] = start[t] + Len(e[t]) /\ start[t] + Len(e[t]) <= Len(c)
          /\ \A i \in 1 .. Len(e[t]) : c[start[t] + i] = e[t][i]
    /\ \A p \in 1 .. Len(c) : \E t \in 1 .. n : \E i \in 1 .. Len(e[t]) : p = start[t] + i

\* base[t] is the first of the labels of token t, and role[l] says of a label
\* whose it is and which of them; an else has those of its if.
Labelled(s, own, base, role, l) ==
    /\ base \in [Nat -> Nat] /\ role \in [Nat -> Nat \X Nat] /\ role[0] = << 0, 0 >>
    /\ \A t \in 1 .. Len(s) : s[t] \in Opener =>
          /\ base[t] >= 1 /\ base[t] + Own(s[t]) <= l + 1
          /\ IF s[t] = "else" THEN base[t] = base[own[t]]
             ELSE \A j \in 0 .. Own(s[t]) - 1 : role[base[t] + j] = << t, j >>

\* The k-th active method is that of a token at level k that nothing has shut.
Active(s, d, base, m, k) ==
    /\ m.tok \in 1 .. Len(s) /\ s[m.tok] = m.kind /\ d[m.tok] = k /\ base[m.tok] = m.lb
    /\ \A f \in m.tok + 1 .. Len(s) : s[f] \in Closer => d[f - 1] > k

\* The active methods are those of the tokens that are not shut; after the last
\* token a switch waits for a branch just if w says so.
Stacked(s, o, d, own, base, w) ==
    /\ d[Len(s)] = Len(o)
    /\ \A k \in 1 .. Len(o) : Active(s, d, base, o[k], k)
    /\ \A k, m \in 1 .. Len(o) : k < m => o[k].tok < o[m].tok
    /\ \A t \in 1 .. Len(s) : s[t] \in Opener =>
          (\E k \in 1 .. Len(o) : o[k].tok = t) \/ Shut(s, own, t, Len(s))
    /\ \A k \in 1 .. Len(o) :
          o[k].kind \in {"case", "default"} <=> k > 1 /\ o[k - 1].kind = "switch"
    /\ Forked(s, own, Len(s)) <=> w = "switch"

Codes(n, s, own, base) == [t \in 1 .. n |-> CodeAt(s, own, base, t)]

Booked(s, o, c, l, w) ==
    \E d, own, base, start, role :
        /\ Tree(s, d, own) /\ Labelled(s, own, base, role, l)
        /\ Laid(Len(s), Codes(Len(s), s, own, base), start, c)
        /\ Stacked(s, o, d, own, base, w)

Token  == Opener \cup Closer \cup Single
AnyInstr == [op : {"label", "jmp", "do", "jt", "jf", "jne"}, ev : Event, to : Nat \cup {None}]

-----------------------------------------------------------------------------
(* One more token *)

\* The code of one more token.
LEMMA LaidGrows ==
    ASSUME NEW n \in Nat, NEW T, NEW c \in Seq(T), NEW e, NEW start, Laid(n, e, start, c),
           NEW f, \A t \in 1 .. n : f[t] = e[t] /\ e[t] \in Seq(T), f[n + 1] \in Seq(T)
    PROVE  \E start2 : Laid(n + 1, f, start2, c \o f[n + 1])
<1> DEFINE g    == f[n + 1]
           c2   == c \o g
           len  == Len(c) + Len(g)
           st   == [k \in Nat |-> IF k = n + 2 THEN len ELSE start[k]]
<1>1. /\ start \in [Nat -> Nat] /\ start[1] = 0 /\ start[n + 1] = Len(c)
      /\ \A t \in 1 .. n : /\ start[t + 1] = start[t] + Len(e[t]) /\ start[t] + Len(e[t]) <= Len(c)
                           /\ \A i \in 1 .. Len(e[t]) : c[start[t] + i] = e[t][i]
      /\ \A p \in 1 .. Len(c) : \E t \in 1 .. n : \E i \in 1 .. Len(e[t]) : p = start[t] + i
  BY DEF Laid
<1>0. ASSUME NEW t \in 1 .. n
      PROVE  start[t] \in Nat /\ start[t] + Len(e[t]) <= Len(c) /\ Len(e[t]) \in Nat
  <2>1. t \in Nat
    OBVIOUS
  <2>2. start[t] \in Nat
    BY <1>1, <2>1
  <2>3. e[t] \in Seq(T)
    OBVIOUS
  <2> QED  BY <1>1, <2>2, <2>3, LenProperties
<1>2. /\ Len(c) \in Nat /\ Len(g) \in Nat /\ len \in Nat /\ Len(c2) = len
      /\ \A i \in 1 .. Len(c) : c2[i] = c[i]
      /\ \A i \in 1 .. Len(g) : c2[Len(c) + i] = g[i]
  <2>1. g \in Seq(T)
    OBVIOUS
  <2> HIDE DEF g
  <2>2. Len(c) \in Nat /\ Len(g) \in Nat
    BY <2>1, LenProperties
  <2>3. /\ Len(c2) = Len(c) + Len(g)
        /\ \A i \in 1 .. Len(c) + Len(g) : c2[i] = IF i <= Len(c) THEN c[i] ELSE g[i - Len(c)]
    BY <2>1, ConcatProperties
  <2>4. \A i \in 1 .. Len(c) : i \in 1 .. Len(c) + Len(g) /\ i <= Len(c)
    BY <2>2
  <2>5. \A i \in 1 .. Len(g) : Len(c) + i \in 1 .. Len(c) + Len(g) /\ ~ (Len(c) + i <= Len(c))
                               /\ (Len(c) + i) - Len(c) = i
    BY <2>2
  <2> HIDE DEF c2
  <2> QED  BY <2>2, <2>3, <2>4, <2>5
<1> HIDE DEF g, c2, len
<1>3. /\ st \in [Nat -> Nat] /\ st[n + 2] = len /\ \A k \in 1 .. n + 1 : st[k] = start[k] /\ k \in Nat
      /\ 1 \in 1 .. n + 1 /\ n + 1 \in 1 .. n + 1 /\ (n + 1) + 1 = n + 2
  <2>1. \A k \in 1 .. n + 1 : k # n + 2 /\ k \in Nat
    OBVIOUS
  <2>2. n + 2 \in Nat /\ 1 \in 1 .. n + 1 /\ n + 1 \in 1 .. n + 1 /\ (n + 1) + 1 = n + 2
    OBVIOUS
  <2>3. st \in [Nat -> Nat]
    BY <1>1, <1>2
  <2>4. st[n + 2] = len
    BY <2>2
  <2>5. \A k \in 1 .. n + 1 : st[k] = start[k]
    BY <2>1
  <2> QED  BY <2>1, <2>2, <2>3, <2>4, <2>5
<1> HIDE DEF st
<1>4. \A t \in 1 .. n : t \in 1 .. n + 1 /\ t + 1 \in 1 .. n + 1
  OBVIOUS
<1>5. ASSUME NEW t \in 1 .. n
      PROVE  /\ st[t + 1] = st[t] + Len(f[t]) /\ st[t] + Len(f[t]) <= len
             /\ \A i \in 1 .. Len(f[t]) : c2[st[t] + i] = f[t][i]
  <2>1. f[t] = e[t] /\ st[t + 1] = start[t + 1] /\ st[t] = start[t]
    BY <1>3, <1>4
  <2>2. ASSUME NEW i \in 1 .. Len(e[t])  PROVE c2[start[t] + i] = e[t][i]
    <3>1. start[t] + i \in 1 .. Len(c)
      <4>1. \A a, b, m \in Nat : \A h \in 1 .. b : a + b <= m => a + h \in 1 .. m
        OBVIOUS
      <4> QED  BY <1>0, <1>2, <4>1
    <3> QED  BY <1>1, <1>2, <3>1
  <2>3. start[t] + Len(e[t]) <= len
    <3>1. start[t] + Len(e[t]) \in Nat
      BY <1>0
    <3> QED  BY <1>0, <1>2, <3>1 DEF len
  <2> QED  BY <1>1, <2>1, <2>2, <2>3
<1>6. /\ st[(n + 1) + 1] = st[n + 1] + Len(f[n + 1]) /\ st[n + 1] + Len(f[n + 1]) <= len
      /\ \A i \in 1 .. Len(f[n + 1]) : c2[st[n + 1] + i] = f[n + 1][i]
  <2>1. st[(n + 1) + 1] = len /\ st[n + 1] = Len(c)
    BY <1>1, <1>3
  <2>2. len = Len(c) + Len(g) /\ Len(c) + Len(g) <= len
    BY <1>2 DEF len
  <2> QED  BY <1>2, <2>1, <2>2 DEF g
<1>7. ASSUME NEW p \in 1 .. len
      PROVE  \E t \in 1 .. n + 1 : \E i \in 1 .. Len(f[t]) : p = st[t] + i
  <2>1. CASE p \in 1 .. Len(c)
    <3>1. PICK t \in 1 .. n : \E i \in 1 .. Len(e[t]) : p = start[t] + i
      BY <1>1, <2>1
    <3>2. t \in 1 .. n + 1 /\ st[t] = start[t] /\ f[t] = e[t]
      BY <1>3, <1>4
    <3> QED  BY <3>1, <3>2
  <2>2. CASE p \notin 1 .. Len(c)
    <3>1. p - Len(c) \in 1 .. Len(g) /\ p = Len(c) + (p - Len(c))
      BY <1>2, <2>2 DEF len
    <3>2. st[n + 1] = Len(c) /\ n + 1 \in 1 .. n + 1
      BY <1>1, <1>3
    <3> QED  BY <3>1, <3>2 DEF g
  <2> QED  BY <2>1, <2>2
<1>8. Laid(n + 1, f, st, c2)
  <2>1. \A t \in 1 .. n + 1 : t \in 1 .. n \/ t = n + 1
    OBVIOUS
  <2>2. st[1] = 0 /\ st[(n + 1) + 1] = Len(c2) /\ len = Len(c2) /\ st \in [Nat -> Nat]
    BY <1>1, <1>2, <1>3
  <2>3. ASSUME NEW t \in 1 .. n + 1
        PROVE  /\ st[t + 1] = st[t] + Len(f[t]) /\ st[t] + Len(f[t]) <= Len(c2)
               /\ \A i \in 1 .. Len(f[t]) : c2[st[t] + i] = f[t][i]
    BY <1>5, <1>6, <2>1, <2>2
  <2> QED  BY <1>7, <2>2, <2>3 DEF Laid
<1> QED
  BY <1>8 DEF g, c2

\* The types of the code of a token.
LEMMA CodeType ==
    ASSUME NEW kind \in Token \cup {"exit"}, NEW m, NEW t \in Nat, NEW b \in Nat, NEW a \in Nat
    PROVE  TokenCode(kind, m, t, b, a) \in Seq(AnyInstr)
<1>1. /\ \A l \in Nat : Label(l) \in AnyInstr /\ Jmp(l) \in AnyInstr
      /\ \A part \in {"init", "step", "value", "run", "return", "exit"} : Do(t, part) \in AnyInstr
      /\ \A l \in Nat : \A op \in {"jt", "jf", "jne"} : Branch(op, t, l) \in AnyInstr
  BY DEF Label, Jmp, Do, Branch, AnyInstr, Event, Part
<1>2. b + 1 \in Nat /\ b + 2 \in Nat /\ b + 3 \in Nat /\ a + 1 \in Nat /\ a + 3 \in Nat /\ ReturnPoint \in Nat
  BY DEF ReturnPoint
<1>3. EndCode(m, t, a) \in Seq(AnyInstr)
  <2> HIDE DEF Label, Jmp, Branch, AnyInstr
  <2>1. /\ Jmp(a) \in AnyInstr /\ Label(a + 1) \in AnyInstr /\ Branch("jt", t, a) \in AnyInstr
        /\ Jmp(a + 3) \in AnyInstr /\ Jmp(a + 1) \in AnyInstr /\ Label(a) \in AnyInstr
    BY <1>1, <1>2
  <2>2. /\ << Jmp(a), Label(a + 1) >> \in Seq(AnyInstr) /\ << Branch("jt", t, a), Label(a + 1) >> \in Seq(AnyInstr)
        /\ << Jmp(a + 3), Label(a + 1) >> \in Seq(AnyInstr)
        /\ << Jmp(a + 1), Label(a), Label(a + 1) >> \in Seq(AnyInstr)
        /\ << Label(a + 1) >> \in Seq(AnyInstr) /\ << Label(a) >> \in Seq(AnyInstr) /\ << >> \in Seq(AnyInstr)
    BY <2>1
  <2> QED  BY <2>2 DEF EndCode
<1> HIDE DEF Label, Jmp, Branch, Do, AnyInstr
<1>4. /\ Label(b) \in AnyInstr /\ Branch("jf", t, b + 1) \in AnyInstr /\ Jmp(b + 2) \in AnyInstr
      /\ Label(b + 3) \in AnyInstr /\ Jmp(b) \in AnyInstr /\ Label(b + 2) \in AnyInstr
      /\ Branch("jf", t, b) \in AnyInstr /\ Branch("jne", t, b) \in AnyInstr
      /\ Jmp(a + 1) \in AnyInstr /\ Label(a) \in AnyInstr /\ Jmp(a) \in AnyInstr /\ Jmp(a + 3) \in AnyInstr
      /\ Jmp(ReturnPoint) \in AnyInstr /\ Label(ReturnPoint) \in AnyInstr
      /\ \A part \in {"init", "step", "value", "run", "return", "exit"} : Do(t, part) \in AnyInstr
  BY <1>1, <1>2
<1>5. /\ << Label(b), Branch("jf", t, b + 1) >> \in Seq(AnyInstr) /\ << Label(b) >> \in Seq(AnyInstr)
      /\ << Branch("jf", t, b) >> \in Seq(AnyInstr) /\ << Jmp(a + 1), Label(a) >> \in Seq(AnyInstr)
      /\ << Do(t, "value") >> \in Seq(AnyInstr) /\ << Branch("jne", t, b) >> \in Seq(AnyInstr)
      /\ << Do(t, "run") >> \in Seq(AnyInstr) /\ << Do(t, "return"), Jmp(ReturnPoint) >> \in Seq(AnyInstr)
      /\ << Jmp(IF m = "switch" THEN a ELSE a + 1) >> \in Seq(AnyInstr)
      /\ << Jmp(IF m = "for" THEN a + 3 ELSE a) >> \in Seq(AnyInstr)
      /\ << Label(ReturnPoint), Do(t, "exit") >> \in Seq(AnyInstr) /\ << >> \in Seq(AnyInstr)
  BY <1>4
<1>6. << Do(t, "init"), Label(b), Branch("jf", t, b + 1), Jmp(b + 2),
         Label(b + 3), Do(t, "step"), Jmp(b), Label(b + 2) >> \in Seq(AnyInstr)
  BY <1>4
<1>7. kind \in {"while", "do", "for", "if", "else", "switch", "case", "default", "end",
                "run", "break", "continue", "return", "exit"}
  BY DEF Token, Opener, Closer, Single, Loop
<1> QED
  BY <1>3, <1>5, <1>6, <1>7 DEF TokenCode

\* What may follow the tokens s: token x, which belongs to token p.
NewToken(s, d, own, x, p) ==
    /\ p \in 0 .. Len(s) /\ d[Len(s)] + Step(x) \in Nat
    /\ x \in Closer =>
          /\ p \in 1 .. Len(s) /\ s[p] \in Opener /\ d[p] = d[Len(s)] /\ (x = "else" => s[p] = "if")
          /\ \A f \in p + 1 .. Len(s) : s[f] \in Closer => d[f - 1] > d[p]
    /\ x \in {"break", "continue"} =>
          /\ p \in 1 .. Len(s) /\ s[p] \in Jumpable /\ ~ Shut(s, own, p, Len(s))
          /\ \A q \in p + 1 .. Len(s) : s[q] \in Jumpable => Shut(s, own, q, Len(s))
          /\ x = "continue" => s[p] \in {"while", "for"}
    /\ x \in {"case", "default"} => Forked(s, own, Len(s))
    /\ Forked(s, own, Len(s)) => x \in {"case", "default"} \/ (x = "end" /\ s[p] = "switch")
    /\ x = "end" /\ s[p] = "case" => Len(s) >= 1 /\ s[Len(s)] \in {"break", "continue", "return"}

\* The functions f and g say the same up to n.
Agree(n, f, g) == \A k \in 0 .. n : g[k] = f[k]

\* What is said of the tokens so far stays true.
LEMMA SameToken ==
    ASSUME NEW n \in Nat, NEW s, NEW s2, DOMAIN s = 1 .. n, DOMAIN s2 = 1 .. n + 1,
           \A k \in 1 .. n : s2[k] = s[k],
           NEW d, NEW own, NEW d2, NEW own2, Agree(n, d, d2), Agree(n, own, own2),
           \A k \in 1 .. n : TokenOK(s, d, own, k),
           NEW t \in 1 .. n
    PROVE  /\ TokenOK(s2, d2, own2, t)
           /\ \A m \in 0 .. n : Shut(s2, own2, t, m) <=> Shut(s, own, t, m)
           /\ \A k \in 0 .. n : Forked(s2, own2, k) <=> Forked(s, own, k)
<1>1. \A k \in 1 .. n : /\ own[k] \in 0 .. k - 1 /\ own[k] \in 0 .. n /\ own2[k] = own[k]
                        /\ s[k] \in Closer => own[k] \in 1 .. n
  <2> SUFFICES ASSUME NEW k \in 1 .. n
               PROVE  /\ own[k] \in 0 .. k - 1 /\ own[k] \in 0 .. n /\ own2[k] = own[k]
                      /\ s[k] \in Closer => own[k] \in 1 .. n
    OBVIOUS
  <2>1. own[k] \in 0 .. k - 1 /\ (s[k] \in Closer => own[k] \in 1 .. k - 1)
    BY DEF TokenOK, Closes
  <2>2. own2[k] = own[k]
    BY DEF Agree
  <2> QED  BY <2>1, <2>2
<1>2. "end" \in Closer
  BY DEF Closer
<1>3. ASSUME NEW k \in 0 .. n
      PROVE  Forked(s2, own2, k) <=> Forked(s, own, k)
  <2>1. CASE k = 0
    BY <2>1 DEF Forked
  <2>2. CASE k # 0
    <3>1. k \in DOMAIN s /\ k \in DOMAIN s2 /\ s2[k] = s[k] /\ own2[k] = own[k]
      BY <1>1, <2>2
    <3>2. s[k] = "end" => s2[own2[k]] = s[own[k]]
      BY <1>1, <1>2, <3>1
    <3> QED  BY <3>1, <3>2 DEF Forked
  <2> QED  BY <2>1, <2>2
<1>4. ASSUME NEW q \in 1 .. n, NEW m \in 0 .. n
      PROVE  Shut(s2, own2, q, m) <=> Shut(s, own, q, m)
  <2>1. \A e \in q + 1 .. m : e \in 1 .. n
    OBVIOUS
  <2>2. \A e \in q + 1 .. m : s2[e] = s[e] /\ own2[e] = own[e]
    BY <1>1, <2>1
  <2> QED  BY <2>2 DEF Shut
<1>5. TokenOK(s, d, own, t) /\ s2[t] = s[t] /\ own2[t] = own[t] /\ d2[t] = d[t] /\ d2[t - 1] = d[t - 1]
  <2>1. t \in 0 .. n /\ t - 1 \in 0 .. n
    OBVIOUS
  <2> QED  BY <2>1 DEF Agree
<1>6. ASSUME s[t] \in Closer
      PROVE  Closes(s2, d2, own2[t], t)
  <2> DEFINE o == own[t]
  <2>1. Closes(s, d, o, t)
    BY <1>5, <1>6 DEF TokenOK
  <2>2. o \in 1 .. n /\ o \in 0 .. n
    BY <1>1, <1>6
  <2> HIDE DEF o
  <2>3. \A f \in o + 1 .. t - 1 : f \in 1 .. n /\ f - 1 \in 0 .. n
    BY <2>2
  <2>4. \A f \in o + 1 .. t - 1 : s2[f] = s[f] /\ d2[f - 1] = d[f - 1]
    BY <2>3 DEF Agree
  <2>5. s2[o] = s[o] /\ d2[o] = d[o]
    BY <2>2 DEF Agree
  <2>6. Closes(s2, d2, o, t)
    BY <1>5, <2>1, <2>4, <2>5 DEF Closes
  <2> QED  BY <1>5, <2>6 DEF o
<1>7. ASSUME s[t] \in {"break", "continue"}
      PROVE  Leaves(s2, own2, own2[t], t)
  <2> DEFINE o == own[t]
  <2>1. Leaves(s, own, o, t)
    BY <1>5, <1>7 DEF TokenOK
  <2>2. o \in 1 .. t - 1
    BY <2>1 DEF Leaves
  <2>3. o \in 1 .. n /\ t - 1 \in 0 .. n
    BY <2>2
  <2> HIDE DEF o
  <2>4. \A p \in o + 1 .. t - 1 : p \in 1 .. n
    BY <2>2
  <2>5. s2[o] = s[o] /\ (Shut(s2, own2, o, t - 1) <=> Shut(s, own, o, t - 1))
    BY <1>4, <2>3
  <2>6. \A p \in o + 1 .. t - 1 : s2[p] = s[p] /\ (Shut(s2, own2, p, t - 1) <=> Shut(s, own, p, t - 1))
    BY <1>4, <2>3, <2>4
  <2>7. Leaves(s2, own2, o, t)
    BY <1>5, <2>1, <2>5, <2>6 DEF Leaves
  <2> QED  BY <1>5, <2>7 DEF o
<1>8. Follows(s2, own2, t)
  <2>1. Follows(s, own, t)
    BY <1>5 DEF TokenOK
  <2>2. Forked(s2, own2, t - 1) <=> Forked(s, own, t - 1)
    <3>1. t - 1 \in 0 .. n
      OBVIOUS
    <3> QED  BY <1>3, <3>1
  <2>3. ASSUME s[t] = "end"  PROVE s2[own2[t]] = s[own[t]] /\ s2[t - 1] = s[t - 1]
    <3>1. own[t] \in 1 .. n /\ own[t] \in 0 .. t - 1
      BY <1>1, <1>2, <2>3
    <3>2. t - 1 \in 1 .. n
      BY <3>1
    <3> QED  BY <1>5, <3>1, <3>2
  <2> QED  BY <1>5, <2>1, <2>2, <2>3 DEF Follows
<1>9. TokenOK(s2, d2, own2, t)
  BY <1>5, <1>6, <1>7, <1>8 DEF TokenOK
<1> QED
  BY <1>3, <1>4, <1>9

\* Up to one more.
LEMMA Upto ==
    ASSUME NEW n \in Nat
    PROVE  /\ \A t \in 1 .. n + 1 : t \in 1 .. n \/ t = n + 1
           /\ \A t \in 1 .. n : t \in 1 .. n + 1 /\ t \in 0 .. n /\ t - 1 \in 0 .. n /\ t + 1 \in 1 .. n + 1
           /\ 0 \in 0 .. n /\ n \in 0 .. n /\ (n + 1) - 1 = n /\ n + 1 \in 1 .. n + 1
OBVIOUS

\* d2 and own2 are d and own with one more token, x, which belongs to token p.
Goes(s, d, own, x, p, d2, own2) ==
    /\ s \in Seq(Token) /\ Tree(s, d, own) /\ x \in Token /\ NewToken(s, d, own, x, p)
    /\ d2 \in [Nat -> Nat] /\ own2 \in [Nat -> Nat]
    /\ Agree(Len(s), d, d2) /\ Agree(Len(s), own, own2)
    /\ d2[Len(s) + 1] = d[Len(s)] + Step(x) /\ own2[Len(s) + 1] = p

\* The parts of this.
LEMMA GoesOn ==
    ASSUME NEW s, NEW d, NEW own, NEW x, NEW p, NEW d2, NEW own2,
           Goes(s, d, own, x, p, d2, own2)
    PROVE  /\ s \in Seq(Token) /\ x \in Token /\ Tree(s, d, own) /\ NewToken(s, d, own, x, p)
           /\ Len(s) \in Nat /\ d2 \in [Nat -> Nat] /\ own2 \in [Nat -> Nat]
           /\ Agree(Len(s), d, d2) /\ Agree(Len(s), own, own2)
           /\ d2[Len(s) + 1] = d[Len(s)] + Step(x) /\ own2[Len(s) + 1] = p
           /\ Append(s, x) \in Seq(Token) /\ Len(Append(s, x)) = Len(s) + 1
           /\ \A k \in 1 .. Len(s) : Append(s, x)[k] = s[k]
           /\ Append(s, x)[Len(s) + 1] = x
           /\ DOMAIN s = 1 .. Len(s) /\ DOMAIN Append(s, x) = 1 .. Len(s) + 1
           /\ \A t \in 1 .. Len(s) : own[t] \in 0 .. Len(s)
<1>1. /\ s \in Seq(Token) /\ x \in Token /\ Tree(s, d, own) /\ NewToken(s, d, own, x, p)
      /\ d2 \in [Nat -> Nat] /\ own2 \in [Nat -> Nat]
      /\ Agree(Len(s), d, d2) /\ Agree(Len(s), own, own2)
      /\ d2[Len(s) + 1] = d[Len(s)] + Step(x) /\ own2[Len(s) + 1] = p
  BY DEF Goes
<1>2. Len(s) \in Nat
  BY <1>1, LenProperties
<1>3. /\ Append(s, x) \in Seq(Token) /\ Len(Append(s, x)) = Len(s) + 1
      /\ \A k \in 1 .. Len(s) : Append(s, x)[k] = s[k]
      /\ Append(s, x)[Len(s) + 1] = x
  BY <1>1, AppendType
<1>5. DOMAIN s = 1 .. Len(s) /\ DOMAIN Append(s, x) = 1 .. Len(s) + 1
  BY <1>1, <1>3, LenProperties
<1>6. \A t \in 1 .. Len(s) : own[t] \in 0 .. Len(s)
  <2>1. \A t \in 1 .. Len(s) : own[t] \in 0 .. t - 1
    BY <1>1 DEF Tree, TokenOK
  <2> QED  BY <1>2, <2>1
<1> QED
  BY <1>1, <1>2, <1>3, <1>5, <1>6

\* One more token belongs to the tree.
LEMMA TreeGrows ==
    ASSUME NEW s, NEW d, NEW own, NEW x, NEW p, NEW d2, NEW own2,
           Goes(s, d, own, x, p, d2, own2)
    PROVE  /\ Tree(Append(s, x), d2, own2)
           /\ Forked(Append(s, x), own2, Len(s) + 1)
                 <=> x = "switch" \/ (x = "end" /\ s[p] = "case")
<1> DEFINE s2 == Append(s, x)
           n  == Len(s)
<1>0. /\ s \in Seq(Token) /\ x \in Token /\ Tree(s, d, own) /\ NewToken(s, d, own, x, p)
      /\ n \in Nat /\ d2 \in [Nat -> Nat] /\ own2 \in [Nat -> Nat]
      /\ Agree(n, d, d2) /\ Agree(n, own, own2)
      /\ d2[n + 1] = d[n] + Step(x) /\ own2[n + 1] = p
      /\ s2 \in Seq(Token) /\ Len(s2) = n + 1 /\ \A k \in 1 .. n : s2[k] = s[k]
      /\ s2[n + 1] = x /\ DOMAIN s = 1 .. n /\ DOMAIN s2 = 1 .. n + 1 /\ n = Len(s)
  <2>1. s \in Seq(Token) /\ x \in Token /\ Tree(s, d, own) /\ NewToken(s, d, own, x, p)
    BY GoesOn
  <2>2. n \in Nat /\ d2 \in [Nat -> Nat] /\ own2 \in [Nat -> Nat] /\ Agree(n, d, d2)
    BY GoesOn
  <2>3. Agree(n, own, own2) /\ d2[n + 1] = d[n] + Step(x) /\ own2[n + 1] = p /\ s2 \in Seq(Token)
    BY GoesOn
  <2>4. Len(s2) = n + 1 /\ s2[n + 1] = x /\ DOMAIN s = 1 .. n /\ DOMAIN s2 = 1 .. n + 1
    BY GoesOn
  <2>5. n = Len(s)
    BY GoesOn
  <2>6. \A k \in 1 .. n : s2[k] = s[k]
    BY GoesOn
  <2> QED  BY <2>1, <2>2, <2>3, <2>4, <2>5, <2>6
<1> HIDE DEF s2, n
<1> SUFFICES /\ Tree(s2, d2, own2)
             /\ Forked(s2, own2, n + 1) <=> x = "switch" \/ (x = "end" /\ s[p] = "case")
  BY DEF s2, n
<1>2. \A t \in 1 .. n : TokenOK(s, d, own, t)
  BY <1>0 DEF Tree
<1>3. \A t \in 1 .. n : TokenOK(s2, d2, own2, t)
  BY <1>0, <1>2, SameToken
<1>4. ASSUME NEW q \in 1 .. n
      PROVE  Shut(s2, own2, q, n) <=> Shut(s, own, q, n)
  <2>1. n \in 0 .. n
    BY <1>0
  <2>2. \A m \in 0 .. n : Shut(s2, own2, q, m) <=> Shut(s, own, q, m)
    BY <1>0, <1>2, SameToken
  <2> QED  BY <2>1, <2>2
<1>5. Forked(s2, own2, n) <=> Forked(s, own, n)
  <2>1. CASE n = 0
    BY <1>0, <2>1 DEF Forked
  <2>2. CASE n # 0
    <3>1. n \in 1 .. n /\ n \in 0 .. n
      BY <1>0, <2>2
    <3>2. \A k \in 0 .. n : Forked(s2, own2, k) <=> Forked(s, own, k)
      BY <1>0, <1>2, <3>1, SameToken
    <3> QED  BY <3>1, <3>2
  <2> QED  BY <2>1, <2>2
<1>6. /\ p \in 0 .. n /\ (n + 1) - 1 = n /\ n + 1 \in 1 .. n + 1
      /\ d2[0] = 0 /\ d2[n] = d[n] /\ \A k \in 0 .. n : d2[k] = d[k]
  <2>1. /\ 0 \in 0 .. n /\ n \in 0 .. n /\ (n + 1) - 1 = n /\ n + 1 \in 1 .. n + 1
    BY <1>0, Upto
  <2>2. p \in 0 .. n
    BY <1>0 DEF NewToken
  <2>3. \A k \in 0 .. n : d2[k] = d[k]
    BY <1>0, Zenon DEF Agree
  <2>4. d[0] = 0
    BY <1>0 DEF Tree
  <2> QED  BY <2>1, <2>2, <2>3, <2>4
<1>7. ASSUME x \in Closer
      PROVE  Closes(s2, d2, p, n + 1)
  <2>1. /\ p \in 1 .. n /\ s[p] \in Opener /\ d[p] = d[n] /\ (x = "else" => s[p] = "if")
        /\ \A f \in p + 1 .. n : s[f] \in Closer => d[f - 1] > d[p]
    BY <1>0, <1>7 DEF NewToken
  <2>2. \A f \in p + 1 .. n : f \in 1 .. n /\ f - 1 \in 0 .. n
    BY <1>0, <2>1
  <2>3. s2[p] = s[p] /\ d2[p] = d[p]
    BY <1>0, <1>6, <2>1
  <2>4. \A f \in p + 1 .. n : s2[f] \in Closer => d2[f - 1] > d2[p]
    BY <1>0, <1>6, <2>1, <2>2, <2>3
  <2> QED  BY <1>0, <1>6, <2>1, <2>3, <2>4 DEF Closes
<1>8. ASSUME x \in {"break", "continue"}
      PROVE  Leaves(s2, own2, p, n + 1)
  <2>1. /\ p \in 1 .. n /\ s[p] \in Jumpable /\ ~ Shut(s, own, p, n)
        /\ \A q \in p + 1 .. n : s[q] \in Jumpable => Shut(s, own, q, n)
        /\ x = "continue" => s[p] \in {"while", "for"}
    BY <1>0, <1>8 DEF NewToken
  <2>2. \A f \in p + 1 .. n : f \in 1 .. n
    BY <1>0, <2>1
  <2>3. s2[n + 1] = x /\ s2[p] = s[p] /\ \A q \in p + 1 .. n : s2[q] = s[q]
    BY <1>0, <2>1, <2>2
  <2>4. ~ Shut(s2, own2, p, n) /\ \A q \in p + 1 .. n : s2[q] \in Jumpable => Shut(s2, own2, q, n)
    BY <1>4, <2>1, <2>2, <2>3
  <2>5. (n + 1) - 1 = n
    BY <1>6
  <2> QED  BY <2>1, <2>3, <2>4, <2>5 DEF Leaves
<1>9. Follows(s2, own2, n + 1)
  <2>1. /\ x \in {"case", "default"} => Forked(s, own, n)
        /\ Forked(s, own, n) => x \in {"case", "default"} \/ (x = "end" /\ s[p] = "switch")
        /\ x = "end" /\ s[p] = "case" => n >= 1 /\ s[n] \in {"break", "continue", "return"}
        /\ x \in Closer => p \in 1 .. n
    BY <1>0 DEF NewToken
  <2>2. "end" \in Closer
    BY DEF Closer
  <2>3. x = "end" => s2[p] = s[p]
    BY <1>0, <2>1, <2>2
  <2>4. n >= 1 => s2[n] = s[n]
    BY <1>0
  <2> QED  BY <1>0, <1>5, <1>6, <2>1, <2>3, <2>4 DEF Follows
<1>10. TokenOK(s2, d2, own2, n + 1)
  BY <1>0, <1>6, <1>7, <1>8, <1>9 DEF TokenOK
<1>11. Tree(s2, d2, own2)
  <2>1. \A t \in 1 .. n + 1 : t \in 1 .. n \/ t = n + 1
    BY <1>0, Upto
  <2> QED  BY <1>0, <1>3, <1>6, <1>10, <2>1 DEF Tree
<1>12. Forked(s2, own2, n + 1) <=> x = "switch" \/ (x = "end" /\ s[p] = "case")
  <2>1. x = "end" => s2[p] = s[p]
    <3>1. x = "end" => p \in 1 .. n
      BY <1>0 DEF NewToken, Closer
    <3> QED  BY <1>0, <3>1
  <2> QED  BY <1>0, <1>6, <2>1 DEF Forked
<1> QED
  BY <1>11, <1>12

\* The code of the tokens so far stays the same.
LEMMA CodeSame ==
    ASSUME NEW s, NEW d, NEW own, NEW x, NEW p, NEW d2, NEW own2,
           Goes(s, d, own, x, p, d2, own2),
           NEW base, NEW base2, Agree(Len(s), base, base2)
    PROVE  /\ \A t \in 1 .. Len(s) : CodeAt(Append(s, x), own2, base2, t) = CodeAt(s, own, base, t)
           /\ KindAt(Append(s, x), p) = KindAt(s, p)
<1> DEFINE s2 == Append(s, x)
           n  == Len(s)
<1>0. /\ NewToken(s, d, own, x, p) /\ n \in Nat /\ n = Len(s)
      /\ \A k \in 0 .. n : own2[k] = own[k] /\ base2[k] = base[k]
      /\ \A k \in 1 .. n : s2[k] = s[k]
      /\ DOMAIN s = 1 .. n /\ DOMAIN s2 = 1 .. n + 1
      /\ \A t \in 1 .. n : own[t] \in 0 .. n
  <2>1. NewToken(s, d, own, x, p) /\ n \in Nat /\ n = Len(s) /\ DOMAIN s = 1 .. n
    BY GoesOn
  <2>2. DOMAIN s2 = 1 .. n + 1
    BY GoesOn
  <2>3. \A k \in 0 .. n : own2[k] = own[k] /\ base2[k] = base[k]
    BY GoesOn DEF Agree
  <2>4. \A k \in 1 .. n : s2[k] = s[k]
    BY GoesOn
  <2>5. \A t \in 1 .. n : own[t] \in 0 .. n
    BY GoesOn
  <2> QED  BY <2>1, <2>2, <2>3, <2>4, <2>5
<1> HIDE DEF s2, n
<1> SUFFICES /\ \A t \in 1 .. n : CodeAt(s2, own2, base2, t) = CodeAt(s, own, base, t)
             /\ KindAt(s2, p) = KindAt(s, p)
  BY DEF s2, n
<1>1. ASSUME NEW k \in 0 .. n  PROVE KindAt(s2, k) = KindAt(s, k)
  <2>1. CASE k = 0
    BY <1>0, <2>1 DEF KindAt
  <2>2. CASE k # 0
    <3>1. k \in 1 .. n /\ k \in 1 .. n + 1
      BY <1>0, <2>2
    <3> QED  BY <1>0, <3>1 DEF KindAt
  <2> QED  BY <2>1, <2>2
<1>2. ASSUME NEW t \in 1 .. n
      PROVE  CodeAt(s2, own2, base2, t) = CodeAt(s, own, base, t)
  <2>1. t \in 0 .. n
    BY <1>0
  <2>2. own2[t] = own[t] /\ base2[t] = base[t] /\ own[t] \in 0 .. n
    BY <1>0, <2>1
  <2>3. base2[own[t]] = base[own[t]]
    BY <1>0, <2>2
  <2>4. KindAt(s2, t) = KindAt(s, t) /\ KindAt(s2, own[t]) = KindAt(s, own[t])
    BY <1>1, <2>1, <2>2
  <2> QED  BY <2>2, <2>3, <2>4 DEF CodeAt
<1>3. p \in 0 .. n
  BY <1>0 DEF NewToken
<1> QED
  BY <1>1, <1>2, <1>3

\* How many labels a method has.
LEMMA OwnIs == \A kind : Own(kind) \in 0 .. 4 /\ Own(kind) \in Nat
BY DEF Own

\* How many labels a token of kind x makes, and where its labels begin when l
\* were made before: an else takes those of its if, which begin with a.
Made(x) == IF x \in Opener \ {"else"} THEN Own(x) ELSE 0
BaseFor(x, a, l) == IF x = "else" THEN a ELSE l + 1

\* One more token has labels of its own.
LEMMA LabelledGrows ==
    ASSUME NEW s, NEW d, NEW own, NEW x, NEW p, NEW d2, NEW own2,
           Goes(s, d, own, x, p, d2, own2),
           NEW base, NEW role, NEW l \in Nat, Labelled(s, own, base, role, l)
    PROVE  \E base2, role2 :
              /\ Labelled(Append(s, x), own2, base2, role2, l + Made(x))
              /\ Agree(Len(s), base, base2) /\ base2[Len(s) + 1] = BaseFor(x, base[p], l)
<1> DEFINE s2 == Append(s, x)
           n  == Len(s)
           m  == Made(x)
           b  == BaseFor(x, base[p], l)
<1>0. /\ s \in Seq(Token) /\ x \in Token /\ Tree(s, d, own) /\ NewToken(s, d, own, x, p)
      /\ n \in Nat /\ n = Len(s) /\ \A k \in 0 .. n : own2[k] = own[k]
      /\ own2[n + 1] = p
      /\ s2 \in Seq(Token) /\ Len(s2) = n + 1 /\ \A k \in 1 .. n : s2[k] = s[k]
      /\ s2[n + 1] = x /\ DOMAIN s = 1 .. n /\ DOMAIN s2 = 1 .. n + 1
      /\ \A t \in 1 .. n : own[t] \in 0 .. n
  <2>1. s \in Seq(Token) /\ x \in Token /\ Tree(s, d, own) /\ NewToken(s, d, own, x, p)
    BY GoesOn
  <2>2. n \in Nat /\ n = Len(s) /\ own2[n + 1] = p /\ s2 \in Seq(Token)
    BY GoesOn
  <2>3. Len(s2) = n + 1 /\ s2[n + 1] = x /\ DOMAIN s = 1 .. n /\ DOMAIN s2 = 1 .. n + 1
    BY GoesOn
  <2>4. \A k \in 0 .. n : own2[k] = own[k]
    BY GoesOn DEF Agree
  <2>5. \A k \in 1 .. n : s2[k] = s[k]
    BY GoesOn
  <2>6. \A t \in 1 .. n : own[t] \in 0 .. n
    BY GoesOn
  <2> QED  BY <2>1, <2>2, <2>3, <2>4, <2>5, <2>6
<1>00. /\ m \in Nat /\ m = (IF x \in Opener \ {"else"} THEN Own(x) ELSE 0)
       /\ b \in Nat /\ b = (IF x = "else" THEN base[p] ELSE l + 1)
  <2>1. p \in Nat /\ base \in [Nat -> Nat]
    <3>1. p \in 0 .. n
      BY <1>0 DEF NewToken
    <3>2. \A k \in 0 .. n : k \in Nat
      BY <1>0
    <3> QED  BY <3>1, <3>2 DEF Labelled
  <2>2. base[p] \in Nat /\ l + 1 \in Nat
    BY <2>1
  <2> QED  BY <2>2, OwnIs DEF Made, BaseFor
<1> HIDE DEF s2, n, m, b
<1> SUFFICES \E base2, role2 : /\ Labelled(s2, own2, base2, role2, l + m)
                               /\ Agree(n, base, base2) /\ base2[n + 1] = b
  BY DEF s2, n, m, b
<1> DEFINE base2 == [k \in Nat |-> IF k = n + 1 THEN b ELSE base[k]]
           role2 == [k \in Nat |-> IF k \in l + 1 .. l + m THEN << n + 1, k - (l + 1) >> ELSE role[k]]
<1>1. \A k \in 1 .. n : s2[k] = s[k] /\ own2[k] = own[k] /\ k \in 0 .. n /\ k \in Nat
  <2>1. \A k \in 1 .. n : k \in 0 .. n /\ k \in Nat
    BY <1>0
  <2> QED  BY <1>0, <2>1
<1>2. /\ base \in [Nat -> Nat] /\ role \in [Nat -> Nat \X Nat] /\ role[0] = << 0, 0 >>
      /\ \A t \in 1 .. n : s[t] \in Opener =>
          /\ base[t] >= 1 /\ base[t] + Own(s[t]) <= l + 1
          /\ IF s[t] = "else" THEN base[t] = base[own[t]]
             ELSE \A j \in 0 .. Own(s[t]) - 1 : role[base[t] + j] = << t, j >>
  BY <1>0 DEF Labelled
<1>3. base2 \in [Nat -> Nat] /\ base2[n + 1] = b
  <2>1. n + 1 \in Nat
    BY <1>0
  <2> QED  BY <1>00, <1>2, <2>1
<1>4. Agree(n, base, base2)
  <2>1. \A k \in 0 .. n : k \in Nat /\ k # n + 1
    BY <1>0
  <2> QED  BY <2>1 DEF Agree
<1>5. role2 \in [Nat -> Nat \X Nat]
  <2>1. \A k \in l + 1 .. l + m : k - (l + 1) \in Nat /\ n + 1 \in Nat
    BY <1>0, <1>00
  <2> QED  BY <1>2, <2>1
<1>6. \A k \in 0 .. l : role2[k] = role[k]
  <2>1. \A k \in 0 .. l : k \in Nat /\ k \notin l + 1 .. l + m
    BY <1>00
  <2> QED  BY <2>1
<1>7. \A j \in 0 .. m - 1 : role2[l + 1 + j] = << n + 1, j >>
  <2>1. \A j \in 0 .. m - 1 : l + 1 + j \in Nat /\ l + 1 + j \in l + 1 .. l + m /\ (l + 1 + j) - (l + 1) = j
    BY <1>00
  <2> QED  BY <2>1
<1> HIDE DEF base2, role2
<1>8. ASSUME NEW t \in 1 .. n, s[t] \in Opener
      PROVE  /\ base2[t] >= 1 /\ base2[t] + Own(s2[t]) <= (l + m) + 1
             /\ IF s2[t] = "else" THEN base2[t] = base2[own2[t]]
                ELSE \A j \in 0 .. Own(s2[t]) - 1 : role2[base2[t] + j] = << t, j >>
  <2>1. s2[t] = s[t] /\ base2[t] = base[t] /\ own2[t] = own[t]
    <3>1. t \in 0 .. n
      BY <1>1
    <3> QED  BY <1>1, <1>4, <3>1 DEF Agree
  <2>2. base[t] \in Nat /\ Own(s[t]) \in Nat
    <3>1. t \in Nat
      BY <1>1
    <3> QED  BY <1>2, <3>1, OwnIs
  <2>3. /\ base[t] >= 1 /\ base[t] + Own(s[t]) <= l + 1
        /\ IF s[t] = "else" THEN base[t] = base[own[t]]
           ELSE \A j \in 0 .. Own(s[t]) - 1 : role[base[t] + j] = << t, j >>
    BY <1>2, <1>8
  <2>4. base[t] + Own(s[t]) <= (l + m) + 1 /\ \A j \in 0 .. Own(s[t]) - 1 : base[t] + j \in 0 .. l
    <3>1. \A v, w, y, z \in Nat : v + w <= y + 1 =>
             v + w <= (y + z) + 1 /\ \A j \in 0 .. w - 1 : v + j \in 0 .. y
      OBVIOUS
    <3> QED  BY <1>00, <2>2, <2>3, <3>1
  <2>5. base2[own[t]] = base[own[t]]
    <3>1. own[t] \in 0 .. n
      BY <1>0
    <3> QED  BY <1>4, <3>1 DEF Agree
  <2> QED  BY <1>6, <2>1, <2>3, <2>4, <2>5
<1>9. ASSUME x \in Opener
      PROVE  /\ b >= 1 /\ b + Own(x) <= (l + m) + 1
             /\ IF x = "else" THEN b = base2[p]
                ELSE \A j \in 0 .. Own(x) - 1 : role2[b + j] = << n + 1, j >>
  <2>1. CASE x = "else"
    <3>1. p \in 1 .. n /\ s[p] = "if" /\ s[p] \in Opener
      BY <1>0, <2>1 DEF NewToken, Closer, Opener
    <3>2. base2[p] = base[p]
      <4>1. p \in 0 .. n
        BY <1>1, <3>1
      <4> QED  BY <1>4, <4>1 DEF Agree
    <3>3. Own("if") = 2 /\ Own("else") = 2
      BY DEF Own
    <3>4. base[p] >= 1 /\ base[p] + 2 <= l + 1
      BY <1>2, <3>1, <3>3
    <3>5. b = base[p] /\ m = 0
      BY <1>00, <2>1
    <3>6. b + 2 <= (l + m) + 1 /\ b >= 1
      BY <1>00, <3>4, <3>5
    <3> QED  BY <2>1, <3>2, <3>3, <3>5, <3>6
  <2>2. CASE x # "else"
    <3>1. b = l + 1 /\ m = Own(x)
      BY <1>00, <1>9, <2>2
    <3>2. b >= 1 /\ b + m <= (l + m) + 1
      BY <1>00, <3>1
    <3> QED  BY <1>7, <2>2, <3>1, <3>2
  <2> QED  BY <2>1, <2>2
<1>10. role2[0] = << 0, 0 >>
  <2>1. 0 \in 0 .. l
    OBVIOUS
  <2> QED  BY <1>2, <1>6, <2>1
<1>11. ASSUME NEW t \in 1 .. n + 1, s2[t] \in Opener
       PROVE  /\ base2[t] >= 1 /\ base2[t] + Own(s2[t]) <= (l + m) + 1
              /\ IF s2[t] = "else" THEN base2[t] = base2[own2[t]]
                 ELSE \A j \in 0 .. Own(s2[t]) - 1 : role2[base2[t] + j] = << t, j >>
  <2>1. CASE t \in 1 .. n
    BY <1>1, <1>8, <1>11, <2>1
  <2>2. CASE t = n + 1
    BY <1>0, <1>3, <1>9, <1>11, <2>2
  <2> QED  BY <1>0, <2>1, <2>2, Upto
<1>12. Labelled(s2, own2, base2, role2, l + m)
  BY <1>0, <1>3, <1>5, <1>10, <1>11 DEF Labelled
<1> QED
  BY <1>3, <1>4, <1>12

\* The tokens s have the code c and the labels up to l.
Kept(s, c, l, d, own, base, start, role) ==
    /\ Tree(s, d, own) /\ Labelled(s, own, base, role, l)
    /\ Laid(Len(s), Codes(Len(s), s, own, base), start, c)

\* One more token, its labels and its code.
LEMMA Grows ==
    ASSUME NEW s \in Seq(Token), NEW c \in Seq(AnyInstr), NEW l \in Nat,
           NEW d, NEW own, NEW base, NEW start, NEW role,
           Kept(s, c, l, d, own, base, start, role),
           NEW x \in Token, NEW p, NewToken(s, d, own, x, p), NEW n, n = Len(s),
           NEW b, b = BaseFor(x, base[p], l)
    PROVE  \E d2, own2, base2, start2, role2 :
              /\ Kept(Append(s, x), c \o TokenCode(x, KindAt(s, p), n + 1, b, base[p]), l + Made(x),
                      d2, own2, base2, start2, role2)
              /\ Agree(n, d, d2) /\ Agree(n, own, own2) /\ Agree(n, base, base2)
              /\ d2[n + 1] = d[n] + Step(x) /\ own2[n + 1] = p /\ base2[n + 1] = b
              /\ Forked(Append(s, x), own2, n + 1) <=> x = "switch" \/ (x = "end" /\ s[p] = "case")
<1> DEFINE s2   == Append(s, x)
           y    == d[n] + Step(x)
           d2   == [k \in Nat |-> IF k = n + 1 THEN y ELSE d[k]]
           own2 == [k \in Nat |-> IF k = n + 1 THEN p ELSE own[k]]
           g    == TokenCode(x, KindAt(s, p), n + 1, b, base[p])
<1>1. /\ Tree(s, d, own) /\ Labelled(s, own, base, role, l)
      /\ Laid(n, Codes(n, s, own, base), start, c)
  BY DEF Kept
<1>2. n \in Nat
  BY LenProperties
<1>4. /\ y \in Nat /\ p \in 0 .. n /\ p \in Nat /\ d \in [Nat -> Nat] /\ own \in [Nat -> Nat]
      /\ base \in [Nat -> Nat]
  <2>1. p \in 0 .. n /\ y \in Nat
    BY DEF NewToken
  <2>2. d \in [Nat -> Nat] /\ own \in [Nat -> Nat] /\ base \in [Nat -> Nat]
    BY <1>1 DEF Tree, Labelled
  <2>3. \A k \in 0 .. n : k \in Nat
    BY <1>2
  <2> HIDE DEF y
  <2> QED  BY <2>1, <2>2, <2>3
<1>0. s2 = Append(s, x) /\ y = d[n] + Step(x)
  OBVIOUS
<1> HIDE DEF y, s2, g
<1>5. /\ d2 \in [Nat -> Nat] /\ own2 \in [Nat -> Nat] /\ d2[n + 1] = y /\ own2[n + 1] = p
      /\ \A k \in 0 .. n : d2[k] = d[k] /\ own2[k] = own[k]
  <2>1. n + 1 \in Nat /\ \A k \in 0 .. n : k \in Nat /\ k # n + 1
    BY <1>2
  <2> QED  BY <1>4, <2>1
<1> HIDE DEF d2, own2
<1>6. Agree(n, d, d2) /\ Agree(n, own, own2)
  BY <1>5 DEF Agree
<1>3. Goes(s, d, own, x, p, d2, own2)
  BY <1>0, <1>1, <1>5, <1>6 DEF Goes
<1>7. /\ Tree(s2, d2, own2)
      /\ Forked(s2, own2, n + 1) <=> x = "switch" \/ (x = "end" /\ s[p] = "case")
  BY <1>0, <1>3, TreeGrows
<1>8. PICK base2, role2 : /\ Labelled(s2, own2, base2, role2, l + Made(x))
                          /\ Agree(n, base, base2) /\ base2[n + 1] = b
  BY <1>0, <1>1, <1>3, LabelledGrows
<1> DEFINE e == Codes(n, s, own, base)
           f == Codes(n + 1, s2, own2, base2)
<1>9. /\ s2 \in Seq(Token) /\ Len(s2) = n + 1 /\ s2[n + 1] = x
      /\ \A k \in 1 .. n : s2[k] = s[k]
      /\ DOMAIN s = 1 .. n /\ DOMAIN s2 = 1 .. n + 1
      /\ \A t \in 1 .. n : own[t] \in 0 .. n
  <2>1. s2 \in Seq(Token) /\ Len(s2) = n + 1 /\ s2[n + 1] = x /\ DOMAIN s = 1 .. n
    BY <1>3, GoesOn DEF s2
  <2>2. DOMAIN s2 = 1 .. n + 1
    BY <1>3, GoesOn DEF s2
  <2>3. \A k \in 1 .. n : s2[k] = s[k]
    BY <1>3, GoesOn DEF s2
  <2>4. \A t \in 1 .. n : own[t] \in 0 .. n
    BY <1>3, GoesOn DEF s2
  <2> QED  BY <2>1, <2>2, <2>3, <2>4
<1>10. \A t \in 1 .. n : e[t] \in Seq(AnyInstr)
  <2> SUFFICES ASSUME NEW t \in 1 .. n  PROVE e[t] \in Seq(AnyInstr)
    OBVIOUS
  <2>1. e[t] = CodeAt(s, own, base, t)
    BY DEF Codes
  <2>2. KindAt(s, t) \in Token
    BY <1>9, ElementOfSeq DEF KindAt
  <2>3. base[t] \in Nat /\ base[own[t]] \in Nat /\ t \in Nat
    <3>1. own[t] \in Nat /\ t \in Nat
      BY <1>2, <1>9
    <3> QED  BY <1>4, <3>1
  <2> HIDE DEF e
  <2> QED  BY <2>1, <2>2, <2>3, CodeType DEF CodeAt
<1>11. /\ \A t \in 1 .. n : CodeAt(s2, own2, base2, t) = CodeAt(s, own, base, t)
       /\ KindAt(s2, p) = KindAt(s, p)
  BY <1>3, <1>8, <1>9, CodeSame DEF s2
<1>12. /\ \A t \in 1 .. n : f[t] = e[t]
       /\ f[n + 1] = g
  <2>1. n + 1 \in 1 .. n + 1 /\ \A t \in 1 .. n : t \in 1 .. n + 1
    BY <1>2
  <2>2. \A t \in 1 .. n : f[t] = e[t]
    BY <1>11, <2>1 DEF Codes
  <2>3. base2[p] = base[p]
    BY <1>4, <1>8 DEF Agree
  <2>4. KindAt(s2, n + 1) = x
    <3> HIDE DEF e, f
    <3> QED  BY <1>9, <2>1 DEF KindAt
  <2>5. f[n + 1] = CodeAt(s2, own2, base2, n + 1)
    BY <2>1 DEF Codes
  <2> HIDE DEF f
  <2> QED  BY <1>5, <1>8, <1>11, <2>2, <2>3, <2>4, <2>5 DEF CodeAt, g
<1>13. g \in Seq(AnyInstr)
  <2>1. base[p] \in Nat /\ n + 1 \in Nat /\ l + 1 \in Nat
    BY <1>2, <1>4
  <2>2. b \in Nat
    BY <2>1 DEF BaseFor
  <2> QED  BY <2>1, <2>2, CodeType DEF g
<1> HIDE DEF e, f, g
<1>14. PICK start2 : Laid(n + 1, f, start2, c \o f[n + 1])
  BY <1>1, <1>2, <1>10, <1>12, <1>13, LaidGrows DEF e
<1>15. Kept(s2, c \o g, l + Made(x), d2, own2, base2, start2, role2)
  BY <1>7, <1>8, <1>9, <1>12, <1>14 DEF Kept, f
<1> QED
  BY <1>0, <1>5, <1>6, <1>7, <1>8, <1>15 DEF g

-----------------------------------------------------------------------------
(* The active methods *)

\* The active methods that a token does not end stay active, and what was shut
\* stays shut.
LEMMA StackStays ==
    ASSUME NEW s, NEW d, NEW own, NEW x, NEW p, NEW d2, NEW own2,
           Goes(s, d, own, x, p, d2, own2),
           NEW base, NEW base2, Agree(Len(s), base, base2),
           NEW o \in Seq(Method), NEW w, Stacked(s, o, d, own, base, w)
    PROVE  /\ \A k \in 1 .. Len(o) :
                 (x \in Closer => k < Len(o)) => Active(Append(s, x), d2, base2, o[k], k)
           /\ \A t \in 1 .. Len(s) :
                 Shut(s, own, t, Len(s)) \/ (x \in Closer /\ p = t)
                 => Shut(Append(s, x), own2, t, Len(s) + 1)
<1> DEFINE s2 == Append(s, x)
           n  == Len(s)
<1>1. n \in Nat /\ s2[n + 1] = x /\ Len(s2) = n + 1 /\ own2[n + 1] = p
  BY GoesOn
<1>2. \A k \in 1 .. n : s2[k] = s[k]
  BY GoesOn
<1>3. \A k \in 0 .. n : d2[k] = d[k] /\ own2[k] = own[k] /\ base2[k] = base[k]
  <2>1. Agree(n, d, d2) /\ Agree(n, own, own2) /\ Agree(n, base, base2)
    BY GoesOn
  <2> QED  BY <2>1, Zenon DEF Agree
<1>4. d[n] = Len(o) /\ \A k \in 1 .. Len(o) : Active(s, d, base, o[k], k)
  BY DEF Stacked
<1>0. n = Len(s)
  OBVIOUS
<1> HIDE DEF s2, n
<1>5. ASSUME NEW k \in 1 .. Len(o), x \in Closer => k < Len(o)
      PROVE  Active(s2, d2, base2, o[k], k)
  <2> DEFINE tok == o[k].tok
  <2>1. /\ tok \in 1 .. n /\ s[tok] = o[k].kind /\ d[tok] = k /\ base[tok] = o[k].lb
        /\ \A f \in tok + 1 .. n : s[f] \in Closer => d[f - 1] > k
    BY <1>0, <1>4 DEF Active
  <2> HIDE DEF tok
  <2>2. tok \in 0 .. n /\ tok \in 1 .. n + 1 /\ (n + 1) - 1 = n /\ n \in 0 .. n
    BY <1>1, <2>1
  <2>3. s2[tok] = o[k].kind /\ d2[tok] = k /\ base2[tok] = o[k].lb
    BY <1>2, <1>3, <2>1, <2>2
  <2>4. ASSUME NEW f \in tok + 1 .. n + 1, s2[f] \in Closer
        PROVE  d2[f - 1] > k
    <3>1. CASE f = n + 1
      <4>1. x \in Closer /\ d2[f - 1] = Len(o)
        BY <1>1, <1>3, <1>4, <2>2, <2>4, <3>1
      <4> QED  BY <1>5, <4>1
    <3>2. CASE f # n + 1
      <4>1. f \in tok + 1 .. n /\ f \in 1 .. n /\ f - 1 \in 0 .. n
        BY <1>1, <2>1, <3>2
      <4> QED  BY <1>2, <1>3, <2>1, <2>4, <4>1
    <3> QED  BY <3>1, <3>2
  <2> QED  BY <1>1, <2>2, <2>3, <2>4 DEF Active, tok
<1>6. ASSUME NEW t \in 1 .. n, Shut(s, own, t, n) \/ (x \in Closer /\ p = t)
      PROVE  Shut(s2, own2, t, n + 1)
  <2>1. CASE Shut(s, own, t, n)
    <3>1. PICK e \in t + 1 .. n : s[e] \in Closer /\ own[e] = t
      BY <2>1 DEF Shut
    <3>2. e \in t + 1 .. n + 1 /\ e \in 1 .. n /\ e \in 0 .. n
      BY <1>1
    <3> QED  BY <1>2, <1>3, <3>1, <3>2 DEF Shut
  <2>2. CASE x \in Closer /\ p = t
    <3>1. n + 1 \in t + 1 .. n + 1
      BY <1>1
    <3> QED  BY <1>1, <2>2, <3>1 DEF Shut
  <2> QED  BY <1>6, <2>1, <2>2
<1> QED
  BY <1>5, <1>6 DEF s2, n

\* A state of the parser whose tokens are accounted for.
Good(s, o, c, l, w) ==
    /\ s \in Seq(Token) /\ o \in Seq(Method) /\ c \in Seq(AnyInstr) /\ l \in Nat
    /\ Booked(s, o, c, l, w)

TopKind(o) == IF o = << >> THEN "none" ELSE Back(o).kind

\* One more token, with what it does to the active methods left open.
LEMMA GoodGrows ==
    ASSUME NEW s, NEW o, NEW c, NEW l, NEW w, Good(s, o, c, l, w),
           NEW d, NEW own, NEW base, NEW start, NEW role,
           Kept(s, c, l, d, own, base, start, role), Stacked(s, o, d, own, base, w),
           NEW x \in Token, NEW p, NewToken(s, d, own, x, p),
           NEW g, g = TokenCode(x, KindAt(s, p), Len(s) + 1, BaseFor(x, base[p], l), base[p]),
           NEW o2, NEW w2,
           \A d2, own2, base2 :
              /\ Goes(s, d, own, x, p, d2, own2)
              /\ Agree(Len(s), base, base2) /\ base2[Len(s) + 1] = BaseFor(x, base[p], l)
              /\ Forked(Append(s, x), own2, Len(s) + 1) <=> x = "switch" \/ (x = "end" /\ s[p] = "case")
              => Stacked(Append(s, x), o2, d2, own2, base2, w2)
    PROVE  Booked(Append(s, x), o2, c \o g, l + Made(x), w2)
<1>1. s \in Seq(Token) /\ c \in Seq(AnyInstr) /\ l \in Nat
  BY DEF Good
<1>2. PICK d2, own2, base2, start2, role2 :
              /\ Kept(Append(s, x), c \o g, l + Made(x), d2, own2, base2, start2, role2)
              /\ Agree(Len(s), d, d2) /\ Agree(Len(s), own, own2) /\ Agree(Len(s), base, base2)
              /\ d2[Len(s) + 1] = d[Len(s)] + Step(x) /\ own2[Len(s) + 1] = p
              /\ base2[Len(s) + 1] = BaseFor(x, base[p], l)
              /\ Forked(Append(s, x), own2, Len(s) + 1) <=> x = "switch" \/ (x = "end" /\ s[p] = "case")
  BY <1>1, Grows
<1>3. Goes(s, d, own, x, p, d2, own2)
  BY <1>1, <1>2 DEF Goes, Kept, Tree
<1>4. Stacked(Append(s, x), o2, d2, own2, base2, w2)
  BY <1>2, <1>3
<1> QED
  BY <1>2, <1>4 DEF Booked, Kept

\* The parts of a good state.
LEMMA GoodIs ==
    ASSUME NEW s, NEW o, NEW c, NEW l, NEW w, Good(s, o, c, l, w)
    PROVE  /\ s \in Seq(Token) /\ o \in Seq(Method) /\ c \in Seq(AnyInstr) /\ l \in Nat
           /\ Len(s) \in Nat /\ DOMAIN s = 1 .. Len(s) /\ Len(o) \in Nat /\ DOMAIN o = 1 .. Len(o)
           /\ \E d, own, base, start, role :
                 Kept(s, c, l, d, own, base, start, role) /\ Stacked(s, o, d, own, base, w)
<1>1. s \in Seq(Token) /\ o \in Seq(Method) /\ c \in Seq(AnyInstr) /\ l \in Nat /\ Booked(s, o, c, l, w)
  BY DEF Good
<1>2. /\ Len(s) \in Nat /\ DOMAIN s = 1 .. Len(s) /\ Len(o) \in Nat /\ DOMAIN o = 1 .. Len(o)
  BY <1>1, LenProperties
<1> QED
  BY <1>1, <1>2 DEF Booked, Kept

\* A statement or a branch begins.
LEMMA OpenBooked ==
    ASSUME NEW s, NEW o, NEW c, NEW l, Good(s, o, c, l, TopKind(o)),
           NEW x \in Opener \ {"else"}, x \in {"case", "default"} <=> TopKind(o) = "switch",
           NEW g, \A m, a : g = TokenCode(x, m, Len(s) + 1, l + 1, a)
    PROVE  Booked(Append(s, x), Append(o, [kind |-> x, tok |-> Len(s) + 1, lb |-> l + 1]),
                  c \o g, l + Own(x), x)
<1> DEFINE n    == Len(s)
           w    == TopKind(o)
           meth == [kind |-> x, tok |-> n + 1, lb |-> l + 1]
           s2   == Append(s, x)
           o2   == Append(o, meth)
<1>1. /\ s \in Seq(Token) /\ o \in Seq(Method) /\ c \in Seq(AnyInstr) /\ l \in Nat
      /\ n \in Nat /\ DOMAIN s = 1 .. n /\ Len(o) \in Nat /\ DOMAIN o = 1 .. Len(o)
  BY GoodIs
<1>2. PICK d, own, base, start, role :
         Kept(s, c, l, d, own, base, start, role) /\ Stacked(s, o, d, own, base, w)
  BY GoodIs
<1>3. /\ d[n] = Len(o) /\ \A k \in 1 .. Len(o) : Active(s, d, base, o[k], k)
      /\ \A k, m \in 1 .. Len(o) : k < m => o[k].tok < o[m].tok
      /\ \A t \in 1 .. n : s[t] \in Opener =>
           (\E k \in 1 .. Len(o) : o[k].tok = t) \/ Shut(s, own, t, n)
      /\ \A k \in 1 .. Len(o) :
           o[k].kind \in {"case", "default"} <=> k > 1 /\ o[k - 1].kind = "switch"
      /\ Forked(s, own, n) <=> w = "switch"
  BY <1>2 DEF Stacked
<1>4. x \in Opener /\ x \in Token /\ x \notin Closer /\ x \notin {"break", "continue", "end"} /\ Step(x) = 1
  BY DEF Opener, Loop, Token, Closer, Step
<1>5. NewToken(s, d, own, x, 0)
  <2>1. 0 \in 0 .. n /\ d[n] + Step(x) \in Nat
    BY <1>1, <1>3, <1>4
  <2> QED  BY <1>3, <1>4, <2>1 DEF NewToken
<1>6. Made(x) = Own(x) /\ \A a : BaseFor(x, a, l) = l + 1
  BY <1>4 DEF Made, BaseFor
<1>7. /\ o2 \in Seq(Method) /\ Len(o2) = Len(o) + 1 /\ o2[Len(o) + 1] = meth
      /\ \A k \in 1 .. Len(o) : o2[k] = o[k]
  <2>1. meth \in Method
    BY <1>1, <1>4 DEF Method
  <2> QED  BY <1>1, <2>1, AppendType
<1>8. meth.kind = x /\ meth.tok = n + 1 /\ meth.lb = l + 1
  OBVIOUS
<1> HIDE DEF meth, o2
<1>9. ASSUME NEW d2, NEW own2, NEW base2, Goes(s, d, own, x, 0, d2, own2),
             Agree(Len(s), base, base2), base2[Len(s) + 1] = BaseFor(x, base[0], l),
             Forked(Append(s, x), own2, Len(s) + 1) <=> x = "switch" \/ (x = "end" /\ s[0] = "case")
      PROVE  Stacked(s2, o2, d2, own2, base2, x)
  <2>1. /\ Len(s2) = n + 1 /\ s2[n + 1] = x /\ d2[n + 1] = d[n] + Step(x)
    BY <1>9, GoesOn
  <2>0. \A k \in 1 .. n : s2[k] = s[k]
    BY <1>9, GoesOn
  <2>2. d2[n + 1] = Len(o) + 1 /\ base2[n + 1] = l + 1
    BY <1>1, <1>3, <1>4, <1>6, <1>9, <2>1
  <2>3. /\ \A k \in 1 .. Len(o) : Active(s2, d2, base2, o[k], k)
        /\ \A t \in 1 .. n : Shut(s, own, t, n) => Shut(s2, own2, t, n + 1)
    BY <1>1, <1>2, <1>4, <1>9, StackStays
  <2>4. Active(s2, d2, base2, meth, Len(o) + 1)
    <3>1. n + 1 \in 1 .. n + 1 /\ (n + 1) + 1 .. n + 1 = {}
      BY <1>1
    <3> QED  BY <1>8, <2>1, <2>2, <3>1 DEF Active
  <2>5. ASSUME NEW k \in 1 .. Len(o) + 1
        PROVE  /\ Active(s2, d2, base2, o2[k], k)
               /\ o2[k].kind \in {"case", "default"} <=> k > 1 /\ o2[k - 1].kind = "switch"
    <3>1. CASE k = Len(o) + 1
      <4>1. x \in {"case", "default"} <=> k > 1 /\ o2[k - 1].kind = "switch"
        <5>1. CASE o = << >>
          <6>1. ~ (k > 1) /\ w = "none"
            BY <3>1, <5>1 DEF TopKind
          <6> QED  BY <6>1
        <5>2. CASE o # << >>
          <6>1. Len(o) >= 1
            BY <1>1, <5>2, EmptySeq
          <6>2. k > 1 /\ k - 1 = Len(o) /\ Len(o) \in 1 .. Len(o)
            BY <1>1, <3>1, <6>1
          <6>3. w = o2[k - 1].kind
            BY <1>7, <5>2, <6>2 DEF TopKind, Back
          <6> QED  BY <6>2, <6>3
        <5> QED  BY <5>1, <5>2
      <4> QED  BY <1>7, <1>8, <2>4, <3>1, <4>1
    <3>2. CASE k # Len(o) + 1
      <4>1. k \in 1 .. Len(o)
        BY <1>1, <3>2
      <4>2. k > 1 => k - 1 \in 1 .. Len(o)
        BY <1>1, <4>1
      <4> QED  BY <1>3, <1>7, <2>3, <4>1, <4>2
    <3> QED  BY <3>1, <3>2
  <2>6. ASSUME NEW k \in 1 .. Len(o) + 1, NEW m \in 1 .. Len(o) + 1, k < m
        PROVE  o2[k].tok < o2[m].tok
    <3>1. k \in 1 .. Len(o)
      BY <1>1, <2>6
    <3>2. CASE m = Len(o) + 1
      <4>1. o[k].tok \in 1 .. n
        BY <1>3, <3>1 DEF Active
      <4> QED  BY <1>1, <1>7, <1>8, <3>1, <3>2, <4>1
    <3>3. CASE m # Len(o) + 1
      <4>1. m \in 1 .. Len(o)
        BY <1>1, <3>3
      <4> QED  BY <1>3, <1>7, <2>6, <3>1, <4>1
    <3> QED  BY <3>2, <3>3
  <2>7. ASSUME NEW t \in 1 .. n + 1, s2[t] \in Opener
        PROVE  (\E k \in 1 .. Len(o) + 1 : o2[k].tok = t) \/ Shut(s2, own2, t, n + 1)
    <3>1. CASE t = n + 1
      <4>1. Len(o) + 1 \in 1 .. Len(o) + 1
        BY <1>1
      <4> QED  BY <1>7, <1>8, <3>1, <4>1
    <3>2. CASE t # n + 1
      <4>1. t \in 1 .. n /\ \A k \in 1 .. Len(o) : k \in 1 .. Len(o) + 1
        BY <1>1, <3>2
      <4>2. (\E k \in 1 .. Len(o) : o[k].tok = t) \/ Shut(s, own, t, n)
        BY <1>3, <2>0, <2>7, <4>1
      <4> QED  BY <1>7, <2>3, <4>1, <4>2
    <3> QED  BY <3>1, <3>2
  <2>8. Forked(s2, own2, n + 1) <=> x = "switch"
    BY <1>4, <1>9
  <2> QED  BY <1>7, <2>1, <2>2, <2>5, <2>6, <2>7, <2>8 DEF Stacked
<1>10. g = TokenCode(x, KindAt(s, 0), n + 1, BaseFor(x, base[0], l), base[0])
  BY <1>6
<1>11. \A d2, own2, base2 :
              /\ Goes(s, d, own, x, 0, d2, own2)
              /\ Agree(Len(s), base, base2) /\ base2[Len(s) + 1] = BaseFor(x, base[0], l)
              /\ Forked(Append(s, x), own2, Len(s) + 1) <=> x = "switch" \/ (x = "end" /\ s[0] = "case")
              => Stacked(s2, o2, d2, own2, base2, x)
  BY <1>9
<1>12. Booked(s2, o2, c \o g, l + Made(x), x)
  BY <1>2, <1>4, <1>5, <1>10, <1>11, GoodGrows
<1> QED
  BY <1>6, <1>12 DEF o2, meth

\* The innermost active method ends.
LEMMA CloseBooked ==
    ASSUME NEW s, NEW o, NEW c, NEW l, NEW w, Good(s, o, c, l, w), Len(o) >= 1,
           w = "switch" => Back(o).kind = "switch",
           Back(o).kind = "case" => Len(s) >= 1 /\ s[Len(s)] \in {"break", "continue", "return"},
           NEW w2, w2 = "switch" <=> Back(o).kind = "case"
    PROVE  Booked(Append(s, "end"), Popped(o),
                  c \o EndCode(Back(o).kind, Len(s) + 1, Back(o).lb), l, w2)
<1> DEFINE n   == Len(s)
           s2  == Append(s, "end")
           o2  == Popped(o)
           top == Back(o)
           p   == top.tok
           h   == Len(o)
<1>1. /\ s \in Seq(Token) /\ o \in Seq(Method) /\ c \in Seq(AnyInstr) /\ l \in Nat
      /\ n \in Nat /\ DOMAIN s = 1 .. n /\ h \in Nat /\ DOMAIN o = 1 .. h
  BY GoodIs
<1>2. PICK d, own, base, start, role :
         Kept(s, c, l, d, own, base, start, role) /\ Stacked(s, o, d, own, base, w)
  BY GoodIs
<1>3. /\ d[n] = h /\ \A k \in 1 .. h : Active(s, d, base, o[k], k)
      /\ \A k, m \in 1 .. h : k < m => o[k].tok < o[m].tok
      /\ \A t \in 1 .. n : s[t] \in Opener =>
           (\E k \in 1 .. h : o[k].tok = t) \/ Shut(s, own, t, n)
      /\ \A k \in 1 .. h :
           o[k].kind \in {"case", "default"} <=> k > 1 /\ o[k - 1].kind = "switch"
      /\ Forked(s, own, n) <=> w = "switch"
  BY <1>2 DEF Stacked
<1>4. "end" \in Closer /\ "end" \in Token /\ Step("end") = 0 - 1 /\ Made("end") = 0
      /\ "end" \notin Opener
  BY DEF Closer, Token, Step, Opener, Loop, Made
<1>5. /\ h \in 1 .. h /\ top = o[h] /\ h >= 1
  BY <1>1 DEF Back
<1>6. /\ p \in 1 .. n /\ s[p] = top.kind /\ d[p] = h /\ base[p] = top.lb
      /\ \A f \in p + 1 .. n : s[f] \in Closer => d[f - 1] > h
  BY <1>3, <1>5 DEF Active
<1>7. top.kind \in Opener
  <2>1. top \in Method
    BY <1>1, <1>5, ElementOfSeq
  <2> QED  BY <2>1 DEF Method
<1>8. NewToken(s, d, own, "end", p)
  <2>1. p \in 0 .. n /\ d[n] + Step("end") \in Nat
    BY <1>1, <1>3, <1>4, <1>5, <1>6
  <2>2. /\ p \in 1 .. n /\ s[p] \in Opener /\ d[p] = d[n]
        /\ \A f \in p + 1 .. n : s[f] \in Closer => d[f - 1] > d[p]
    BY <1>3, <1>6, <1>7
  <2> HIDE DEF top
  <2>3. Forked(s, own, n) => s[p] = "switch"
    BY <1>3, <1>6 DEF top
  <2>4. s[p] = "case" => n >= 1 /\ s[n] \in {"break", "continue", "return"}
    BY <1>6 DEF top
  <2> QED  BY <2>1, <2>2, <2>3, <2>4 DEF NewToken
<1>9. /\ o2 \in Seq(Method) /\ Len(o2) = h - 1 /\ \A k \in 1 .. h - 1 : o2[k] = o[k]
  BY <1>1, PoppedType
<1>10. ASSUME NEW d2, NEW own2, NEW base2, Goes(s, d, own, "end", p, d2, own2),
              Agree(Len(s), base, base2), base2[Len(s) + 1] = BaseFor("end", base[p], l),
              Forked(Append(s, "end"), own2, Len(s) + 1)
                 <=> "end" = "switch" \/ ("end" = "end" /\ s[p] = "case")
       PROVE  Stacked(s2, o2, d2, own2, base2, w2)
  <2>1. /\ Len(s2) = n + 1 /\ s2[n + 1] = "end" /\ d2[n + 1] = d[n] + Step("end")
    BY <1>10, GoesOn
  <2>0. \A k \in 1 .. n : s2[k] = s[k]
    BY <1>10, GoesOn
  <2>2. d2[n + 1] = h - 1
    BY <1>1, <1>3, <1>4, <2>1
  <2>3. /\ \A k \in 1 .. h - 1 : Active(s2, d2, base2, o[k], k)
        /\ \A t \in 1 .. n : Shut(s, own, t, n) \/ p = t => Shut(s2, own2, t, n + 1)
    <3>1. \A k \in 1 .. h - 1 : k \in 1 .. h /\ k < h
      BY <1>1
    <3>2. /\ \A k \in 1 .. h : ("end" \in Closer => k < h) => Active(s2, d2, base2, o[k], k)
          /\ \A t \in 1 .. n : Shut(s, own, t, n) \/ ("end" \in Closer /\ p = t) => Shut(s2, own2, t, n + 1)
      BY <1>1, <1>2, <1>10, StackStays
    <3> QED  BY <1>4, <3>1, <3>2
  <2> HIDE DEF s2, o2, p, top
  <2>5. ASSUME NEW k \in 1 .. h - 1
        PROVE  /\ Active(s2, d2, base2, o2[k], k)
               /\ o2[k].kind \in {"case", "default"} <=> k > 1 /\ o2[k - 1].kind = "switch"
    <3>1. k \in 1 .. h /\ (k > 1 => k - 1 \in 1 .. h - 1)
      BY <1>1
    <3> QED  BY <1>3, <1>9, <2>3, <3>1
  <2>6. \A k, m \in 1 .. h - 1 : k < m => o2[k].tok < o2[m].tok
    <3>1. \A k \in 1 .. h - 1 : k \in 1 .. h
      BY <1>1
    <3> QED  BY <1>3, <1>9, <3>1
  <2>7. ASSUME NEW t \in 1 .. n + 1, s2[t] \in Opener
        PROVE  (\E k \in 1 .. h - 1 : o2[k].tok = t) \/ Shut(s2, own2, t, n + 1)
    <3>1. t \in 1 .. n
      <4>1. t # n + 1
        BY <1>4, <2>1, <2>7
      <4> QED  BY <1>1, <4>1, Upto
    <3>2. (\E k \in 1 .. h : o[k].tok = t) \/ Shut(s, own, t, n)
      BY <1>3, <2>0, <2>7, <3>1
    <3>3. ASSUME NEW k \in 1 .. h, o[k].tok = t
          PROVE  k \in 1 .. h - 1 \/ p = t
      <4>1. k # h => k \in 1 .. h - 1
        <5>1. \A a \in Nat : \A b \in 1 .. a : b # a => b \in 1 .. a - 1
          OBVIOUS
        <5> QED  BY <1>1, <5>1
      <4> QED  BY <1>5, <3>3, <4>1 DEF p
    <3> QED  BY <1>9, <2>3, <3>1, <3>2, <3>3
  <2>8. Forked(s2, own2, n + 1) <=> w2 = "switch"
    BY <1>6, <1>10 DEF s2, top
  <2> QED  BY <1>9, <2>1, <2>2, <2>5, <2>6, <2>7, <2>8 DEF Stacked
<1> DEFINE g == TokenCode("end", KindAt(s, p), n + 1, BaseFor("end", base[p], l), base[p])
<1>11. g = EndCode(top.kind, n + 1, top.lb)
  <2>1. KindAt(s, p) = top.kind
    BY <1>1, <1>6 DEF KindAt
  <2> HIDE DEF top, p
  <2> QED  BY <1>6, <2>1 DEF TokenCode
<1>12. \A d2, own2, base2 :
              /\ Goes(s, d, own, "end", p, d2, own2)
              /\ Agree(Len(s), base, base2) /\ base2[Len(s) + 1] = BaseFor("end", base[p], l)
              /\ Forked(Append(s, "end"), own2, Len(s) + 1)
                    <=> "end" = "switch" \/ ("end" = "end" /\ s[p] = "case")
              => Stacked(s2, o2, d2, own2, base2, w2)
  BY <1>10
<1>13. Booked(s2, o2, c \o g, l + Made("end"), w2)
  <2> HIDE DEF p, top, o2
  <2> QED  BY <1>2, <1>4, <1>8, <1>12, GoodGrows
<1>14. l + Made("end") = l
  BY <1>1, <1>4
<1> HIDE DEF g, top
<1> QED
  BY <1>11, <1>13, <1>14 DEF top

\* An if ends and its other branch begins.
LEMMA ElseBooked ==
    ASSUME NEW s, NEW o, NEW c, NEW l, NEW w, Good(s, o, c, l, w), Len(o) >= 1,
           Back(o).kind = "if", w # "switch", NEW w2, w2 # "switch",
           NEW o2 \in Seq(Method), Len(o2) = Len(o), \A k \in 1 .. Len(o) - 1 : o2[k] = o[k],
           o2[Len(o)].kind = "else", o2[Len(o)].tok = Len(s) + 1, o2[Len(o)].lb = Back(o).lb
    PROVE  Booked(Append(s, "else"), o2,
                  c \o << Jmp(Back(o).lb + 1), Label(Back(o).lb) >>, l, w2)
<1> DEFINE n   == Len(s)
           s2  == Append(s, "else")
           top == Back(o)
           p   == top.tok
           h   == Len(o)
<1>1. /\ s \in Seq(Token) /\ o \in Seq(Method) /\ c \in Seq(AnyInstr) /\ l \in Nat
      /\ n \in Nat /\ DOMAIN s = 1 .. n /\ h \in Nat /\ DOMAIN o = 1 .. h
  BY GoodIs
<1>2. PICK d, own, base, start, role :
         Kept(s, c, l, d, own, base, start, role) /\ Stacked(s, o, d, own, base, w)
  BY GoodIs
<1>3. /\ d[n] = h /\ \A k \in 1 .. h : Active(s, d, base, o[k], k)
      /\ \A k, m \in 1 .. h : k < m => o[k].tok < o[m].tok
      /\ \A t \in 1 .. n : s[t] \in Opener =>
           (\E k \in 1 .. h : o[k].tok = t) \/ Shut(s, own, t, n)
      /\ \A k \in 1 .. h :
           o[k].kind \in {"case", "default"} <=> k > 1 /\ o[k - 1].kind = "switch"
      /\ Forked(s, own, n) <=> w = "switch"
  BY <1>2 DEF Stacked
<1>4. /\ "else" \in Closer /\ "else" \in Token /\ Step("else") = 0 /\ Made("else") = 0
      /\ "else" \in Opener /\ "if" \in Opener
  BY DEF Closer, Token, Step, Opener, Loop, Made
<1>5. /\ h \in 1 .. h /\ top = o[h] /\ h >= 1
  BY <1>1 DEF Back
<1>6. /\ p \in 1 .. n /\ s[p] = "if" /\ d[p] = h /\ base[p] = top.lb
      /\ \A f \in p + 1 .. n : s[f] \in Closer => d[f - 1] > h
  BY <1>3, <1>5 DEF Active
<1>8. NewToken(s, d, own, "else", p)
  <2>1. p \in 0 .. n /\ d[n] + Step("else") \in Nat
    BY <1>1, <1>3, <1>4, <1>5, <1>6
  <2>2. /\ p \in 1 .. n /\ s[p] \in Opener /\ d[p] = d[n] /\ s[p] = "if"
        /\ \A f \in p + 1 .. n : s[f] \in Closer => d[f - 1] > d[p]
    BY <1>3, <1>4, <1>6
  <2> HIDE DEF top
  <2>3. ~ Forked(s, own, n)
    BY <1>3
  <2> QED  BY <2>1, <2>2, <2>3 DEF NewToken
<1>9. o2[h].kind = "else" /\ o2[h].tok = n + 1 /\ o2[h].lb = top.lb
  OBVIOUS
<1>10. ASSUME NEW d2, NEW own2, NEW base2, Goes(s, d, own, "else", p, d2, own2),
              Agree(Len(s), base, base2), base2[Len(s) + 1] = BaseFor("else", base[p], l),
              Forked(Append(s, "else"), own2, Len(s) + 1)
                 <=> "else" = "switch" \/ ("else" = "end" /\ s[p] = "case")
       PROVE  Stacked(s2, o2, d2, own2, base2, w2)
  <2>1. /\ Len(s2) = n + 1 /\ s2[n + 1] = "else" /\ d2[n + 1] = d[n] + Step("else")
    <3>1. Len(s2) = n + 1
      BY <1>10, GoesOn
    <3>2. s2[n + 1] = "else"
      BY <1>10, GoesOn
    <3>3. d2[n + 1] = d[n] + Step("else")
      BY <1>10 DEF Goes
    <3> QED  BY <3>1, <3>2, <3>3
  <2>0. \A k \in 1 .. n : s2[k] = s[k]
    BY <1>10, GoesOn
  <2>2. d2[n + 1] = h /\ base2[n + 1] = top.lb
    BY <1>1, <1>3, <1>4, <1>6, <1>10, <2>1 DEF BaseFor
  <2>3. /\ \A k \in 1 .. h - 1 : Active(s2, d2, base2, o[k], k)
        /\ \A t \in 1 .. n : Shut(s, own, t, n) \/ p = t => Shut(s2, own2, t, n + 1)
    <3>1. \A k \in 1 .. h - 1 : k \in 1 .. h /\ k < h
      BY <1>1
    <3>2. /\ \A k \in 1 .. h : ("else" \in Closer => k < h) => Active(s2, d2, base2, o[k], k)
          /\ \A t \in 1 .. n : Shut(s, own, t, n) \/ ("else" \in Closer /\ p = t) => Shut(s2, own2, t, n + 1)
      BY <1>1, <1>2, <1>10, StackStays
    <3> QED  BY <1>4, <3>1, <3>2
  <2> HIDE DEF s2, p, top
  <2>4. \A k \in 1 .. h : k \in 1 .. h - 1 \/ k = h
    <3>1. \A a \in Nat : \A b \in 1 .. a : b \in 1 .. a - 1 \/ b = a
      OBVIOUS
    <3> QED  BY <1>1, <3>1
  <2>5. ASSUME NEW k \in 1 .. h
        PROVE  /\ Active(s2, d2, base2, o2[k], k)
               /\ o2[k].kind \in {"case", "default"} <=> k > 1 /\ o2[k - 1].kind = "switch"
    <3>1. k > 1 => k - 1 \in 1 .. h - 1
      BY <1>1
    <3>2. CASE k = h
      <4>1. Active(s2, d2, base2, o2[h], h)
        <5>1. n + 1 \in 1 .. n + 1 /\ (n + 1) + 1 .. n + 1 = {}
          BY <1>1
        <5> QED  BY <1>9, <2>1, <2>2, <5>1 DEF Active
      <4>2. ~ (k > 1 /\ o[k - 1].kind = "switch")
        BY <1>3, <1>5, <3>2 DEF top
      <4> QED  BY <1>9, <3>1, <3>2, <4>1, <4>2
    <3>3. CASE k # h
      <4>1. k \in 1 .. h - 1
        BY <2>4, <3>3
      <4> QED  BY <1>3, <2>3, <3>1, <4>1
    <3> QED  BY <3>2, <3>3
  <2>6. ASSUME NEW k \in 1 .. h, NEW m \in 1 .. h, k < m
        PROVE  o2[k].tok < o2[m].tok
    <3>1. k \in 1 .. h - 1
      BY <1>1, <2>6
    <3>2. CASE m = h
      <4>1. o[k].tok \in 1 .. n
        BY <1>3, <3>1 DEF Active
      <4> QED  BY <1>1, <1>9, <3>1, <3>2, <4>1
    <3>3. CASE m # h
      <4>1. m \in 1 .. h - 1
        BY <2>4, <3>3
      <4> QED  BY <1>3, <2>6, <3>1, <4>1
    <3> QED  BY <3>2, <3>3
  <2>7. ASSUME NEW t \in 1 .. n + 1, s2[t] \in Opener
        PROVE  (\E k \in 1 .. h : o2[k].tok = t) \/ Shut(s2, own2, t, n + 1)
    <3>1. CASE t = n + 1
      BY <1>5, <1>9, <3>1
    <3>2. CASE t \in 1 .. n
      <4>1. (\E k \in 1 .. h : o[k].tok = t) \/ Shut(s, own, t, n)
        BY <1>3, <2>0, <2>7, <3>2
      <4>2. ASSUME NEW k \in 1 .. h, o[k].tok = t
            PROVE  k \in 1 .. h - 1 \/ p = t
        BY <1>5, <2>4, <4>2 DEF p
      <4> QED  BY <2>3, <3>2, <4>1, <4>2
    <3> QED  BY <1>1, <3>1, <3>2, Upto
  <2>8. Forked(s2, own2, n + 1) <=> w2 = "switch"
    BY <1>10 DEF s2
  <2> QED  BY <2>1, <2>2, <2>5, <2>6, <2>7, <2>8 DEF Stacked
<1> DEFINE g == TokenCode("else", KindAt(s, p), n + 1, BaseFor("else", base[p], l), base[p])
<1>11. g = << Jmp(top.lb + 1), Label(top.lb) >>
  <2> HIDE DEF top, p
  <2> QED  BY <1>6 DEF TokenCode
<1>12. \A d2, own2, base2 :
              /\ Goes(s, d, own, "else", p, d2, own2)
              /\ Agree(Len(s), base, base2) /\ base2[Len(s) + 1] = BaseFor("else", base[p], l)
              /\ Forked(Append(s, "else"), own2, Len(s) + 1)
                    <=> "else" = "switch" \/ ("else" = "end" /\ s[p] = "case")
              => Stacked(s2, o2, d2, own2, base2, w2)
  BY <1>10
<1>13. Booked(s2, o2, c \o g, l + Made("else"), w2)
  <2> HIDE DEF p, top
  <2> QED  BY <1>2, <1>4, <1>8, <1>12, GoodGrows
<1>14. l + Made("else") = l
  BY <1>1, <1>4
<1> HIDE DEF g, top
<1> QED
  BY <1>11, <1>13, <1>14 DEF top

\* A statement of one token; break and continue have one to leave or go on with.
LEMMA SingleBooked ==
    ASSUME NEW s, NEW o, NEW c, NEW l, NEW w, Good(s, o, c, l, w), w # "switch",
           NEW x \in Single, NEW g,
           \/ /\ x \notin {"break", "continue"}
              /\ \A m, b, a : g = TokenCode(x, m, Len(s) + 1, b, a)
           \/ \E k \in 1 .. Len(o) :
                 /\ o[k].kind \in Jumpable
                 /\ \A m \in 1 .. Len(o) : o[m].kind \in Jumpable => m <= k
                 /\ x = "continue" => o[k].kind \in {"while", "for"}
                 /\ \A b : g = TokenCode(x, o[k].kind, Len(s) + 1, b, o[k].lb)
    PROVE  Booked(Append(s, x), o, c \o g, l, w)
<1> DEFINE n   == Len(s)
           s2  == Append(s, x)
           h   == Len(o)
<1>1. /\ s \in Seq(Token) /\ o \in Seq(Method) /\ c \in Seq(AnyInstr) /\ l \in Nat
      /\ n \in Nat /\ DOMAIN s = 1 .. n /\ h \in Nat /\ DOMAIN o = 1 .. h
  BY GoodIs
<1>2. PICK d, own, base, start, role :
         Kept(s, c, l, d, own, base, start, role) /\ Stacked(s, o, d, own, base, w)
  BY GoodIs
<1>3. /\ d[n] = h /\ \A k \in 1 .. h : Active(s, d, base, o[k], k)
      /\ \A k, m \in 1 .. h : k < m => o[k].tok < o[m].tok
      /\ \A t \in 1 .. n : s[t] \in Opener =>
           (\E k \in 1 .. h : o[k].tok = t) \/ Shut(s, own, t, n)
      /\ \A k \in 1 .. h :
           o[k].kind \in {"case", "default"} <=> k > 1 /\ o[k - 1].kind = "switch"
      /\ Forked(s, own, n) <=> w = "switch"
  BY <1>2 DEF Stacked
<1>4. x \notin Closer /\ x \in Token /\ Step(x) = 0 /\ Made(x) = 0
      /\ x \notin Opener /\ x \notin {"case", "default", "end", "switch"}
  BY DEF Closer, Token, Step, Opener, Single, Loop, Made
<1>5. \E p :
        /\ NewToken(s, d, own, x, p)
        /\ \A b : g = TokenCode(x, KindAt(s, p), n + 1, b, base[p])
  <2>0. d[n] + Step(x) \in Nat /\ ~ Forked(s, own, n)
    BY <1>1, <1>3, <1>4
  <2>1. CASE /\ x \notin {"break", "continue"}
             /\ \A m, b, a : g = TokenCode(x, m, Len(s) + 1, b, a)
    <3>1. 0 \in 0 .. n
      BY <1>1
    <3>2. NewToken(s, d, own, x, 0)
      BY <1>4, <2>0, <2>1, <3>1 DEF NewToken
    <3> QED  BY <2>1, <3>2
  <2>2. ASSUME NEW k \in 1 .. h, o[k].kind \in Jumpable,
               \A m \in 1 .. h : o[m].kind \in Jumpable => m <= k,
               x = "continue" => o[k].kind \in {"while", "for"},
               \A b : g = TokenCode(x, o[k].kind, n + 1, b, o[k].lb)
        PROVE  \E p : /\ NewToken(s, d, own, x, p)
                      /\ \A b : g = TokenCode(x, KindAt(s, p), n + 1, b, base[p])
    <3> DEFINE p == o[k].tok
    <3>1. /\ p \in 1 .. n /\ s[p] = o[k].kind /\ d[p] = k /\ base[p] = o[k].lb
          /\ \A f \in p + 1 .. n : s[f] \in Closer => d[f - 1] > k
      BY <1>3 DEF Active
    <3>2. KindAt(s, p) = o[k].kind
      BY <1>1, <3>1 DEF KindAt
    <3>3. ~ Shut(s, own, p, n)
      <4> SUFFICES ASSUME NEW e \in p + 1 .. n, s[e] \in Closer, own[e] = p
                   PROVE  FALSE
        BY DEF Shut
      <4>1. e \in 1 .. n
        BY <1>1, <3>1
      <4>2. Closes(s, d, own[e], e)
        BY <1>2, <4>1 DEF Kept, Tree, TokenOK
      <4>3. d[e - 1] = k
        BY <3>1, <4>2 DEF Closes
      <4> QED  BY <3>1, <4>3
    <3>4. ASSUME NEW q \in p + 1 .. n, s[q] \in Jumpable
          PROVE  Shut(s, own, q, n)
      <4>1. q \in 1 .. n /\ q > p
        BY <1>1, <3>1
      <4>2. s[q] \in Opener
        BY <3>4 DEF Jumpable, Opener
      <4>3. ASSUME NEW m \in 1 .. h, o[m].tok = q  PROVE FALSE
        <5>1. s[q] = o[m].kind
          BY <1>3, <4>3 DEF Active
        <5>2. m <= k
          BY <2>2, <3>4, <5>1
        <5>3. m < k => q < p
          BY <1>3, <4>3
        <5>4. m = k => q = p
          BY <4>3
        <5> QED  BY <1>1, <3>1, <4>1, <5>2, <5>3, <5>4
      <4> QED  BY <1>3, <4>1, <4>2, <4>3
    <3>5. p \in 0 .. n
      BY <1>1, <3>1
    <3> HIDE DEF p
    <3>6. NewToken(s, d, own, x, p)
      BY <1>4, <2>0, <2>2, <3>1, <3>3, <3>4, <3>5 DEF NewToken
    <3> QED  BY <2>2, <3>1, <3>2, <3>6
  <2> QED  BY <2>1, <2>2
<1>6. PICK p : /\ NewToken(s, d, own, x, p)
               /\ \A b : g = TokenCode(x, KindAt(s, p), n + 1, b, base[p])
  BY <1>5
<1>10. ASSUME NEW d2, NEW own2, NEW base2, Goes(s, d, own, x, p, d2, own2),
              Agree(Len(s), base, base2), base2[Len(s) + 1] = BaseFor(x, base[p], l),
              Forked(Append(s, x), own2, Len(s) + 1)
                 <=> x = "switch" \/ (x = "end" /\ s[p] = "case")
       PROVE  Stacked(s2, o, d2, own2, base2, w)
  <2>1. /\ Len(s2) = n + 1 /\ s2[n + 1] = x /\ d2[n + 1] = d[n] + Step(x)
    BY <1>10, GoesOn
  <2>0. \A k \in 1 .. n : s2[k] = s[k]
    BY <1>10, GoesOn
  <2>2. d2[n + 1] = h
    BY <1>1, <1>3, <1>4, <2>1
  <2>3. /\ \A k \in 1 .. h : Active(s2, d2, base2, o[k], k)
        /\ \A t \in 1 .. n : Shut(s, own, t, n) => Shut(s2, own2, t, n + 1)
    BY <1>1, <1>2, <1>4, <1>10, StackStays
  <2> HIDE DEF s2
  <2>7. ASSUME NEW t \in 1 .. n + 1, s2[t] \in Opener
        PROVE  (\E k \in 1 .. h : o[k].tok = t) \/ Shut(s2, own2, t, n + 1)
    <3>1. CASE t = n + 1
      BY <1>4, <2>1, <2>7, <3>1
    <3>2. CASE t \in 1 .. n
      BY <1>3, <2>0, <2>3, <2>7, <3>2
    <3> QED  BY <1>1, <3>1, <3>2, Upto
  <2>8. Forked(s2, own2, n + 1) <=> w = "switch"
    BY <1>4, <1>10 DEF s2
  <2> QED  BY <1>3, <2>1, <2>2, <2>3, <2>7, <2>8 DEF Stacked
<1>12. \A d2, own2, base2 :
              /\ Goes(s, d, own, x, p, d2, own2)
              /\ Agree(Len(s), base, base2) /\ base2[Len(s) + 1] = BaseFor(x, base[p], l)
              /\ Forked(Append(s, x), own2, Len(s) + 1)
                    <=> x = "switch" \/ (x = "end" /\ s[p] = "case")
              => Stacked(s2, o, d2, own2, base2, w)
  BY <1>10
<1>13. Booked(s2, o, c \o g, l + Made(x), w)
  <2>1. g = TokenCode(x, KindAt(s, p), Len(s) + 1, BaseFor(x, base[p], l), base[p])
    BY <1>6
  <2> QED  BY <1>2, <1>4, <1>6, <1>12, <2>1, GoodGrows
<1>14. l + Made(x) = l
  BY <1>1, <1>4
<1> QED
  BY <1>13, <1>14

-----------------------------------------------------------------------------
(* The parser keeps account of its tokens *)

Parsed ==
    pc = "parse" =>
        /\ at = 1
        /\ rejected = {} => Booked(src, open, code, labels, TopKind(open))

\* In the innermost active method, statements are parsed or branches.
LEMMA ParsedGood ==
    ASSUME IInv, Parsed, pc = "parse", rejected = {}
    PROVE  /\ Good(src, open, code, labels, TopKind(open)) /\ Tok = Len(src) + 1
           /\ InBlock <=> TopKind(open) # "switch"
           /\ open # << >> => /\ Len(open) >= 1 /\ Top = Back(open) /\ TopKind(open) = Top.kind
                              /\ open \in Seq(Method)
<1>1. /\ src \in Seq(Token) /\ open \in Seq(Method) /\ labels \in Nat
      /\ code \in Seq(Instr(labels)) /\ Len(open) \in Nat
  BY LenProperties DEF IInv, Typed, Token
<1>2. code \in Seq(AnyInstr)
  <2>1. 0 .. labels \cup {None} \subseteq Nat \cup {None}
    BY <1>1
  <2>2. Instr(labels) \subseteq AnyInstr
    BY <2>1 DEF Instr, AnyInstr
  <2> QED  BY <1>1, <2>2, SeqMonotonic
<1>3. Good(src, open, code, labels, TopKind(open))
  BY <1>1, <1>2 DEF Good, Parsed
<1>4. Top = Back(open)
  BY DEF Top, Back
<1>5. open # << >> => Len(open) >= 1 /\ TopKind(open) = Top.kind
  <2>1. open # << >> => Len(open) # 0
    BY <1>1, EmptySeq
  <2> QED  BY <1>1, <1>4, <2>1 DEF TopKind
<1>6. InBlock <=> TopKind(open) # "switch"
  BY <1>5 DEF InBlock, TopKind
<1> QED
  BY <1>1, <1>3, <1>4, <1>5, <1>6 DEF Tok

\* A method begins with the code of its token.
LEMMA BeginKeeps ==
    ASSUME IInv, Parsed, pc = "parse", NEW kind \in Opener \ {"else"}, NEW n, n = Own(kind),
           kind \in {"case", "default"} <=> TopKind(open) = "switch",
           NEW insts, \A m, a : insts = TokenCode(kind, m, Tok, labels + 1, a),
           Begin(kind, n, insts)
    PROVE  Parsed'
<1>1. /\ src' = Append(src, kind) /\ labels' = labels + Own(kind) /\ code' = code \o insts
      /\ open' = Append(open, [kind |-> kind, tok |-> Tok, lb |-> labels + 1])
      /\ rejected' = rejected /\ at' = at
  BY DEF Begin
<1>2. ASSUME rejected = {}
      PROVE  Booked(src', open', code', labels', TopKind(open'))
  <2>1. Good(src, open, code, labels, TopKind(open)) /\ Tok = Len(src) + 1
    BY <1>2, ParsedGood
  <2>2. Booked(src', open', code', labels', kind)
    BY <1>1, <2>1, OpenBooked
  <2>3. TopKind(open') = kind
    <3> DEFINE meth == [kind |-> kind, tok |-> Tok, lb |-> labels + 1]
    <3>1. open \in Seq(Method) /\ labels \in Nat /\ Len(src) \in Nat
      BY LenProperties DEF IInv, Typed
    <3>2. meth \in Method /\ meth.kind = kind
      BY <2>1, <3>1 DEF Method
    <3> HIDE DEF meth
    <3>3. open' = Append(open, meth)
      BY <1>1 DEF meth
    <3>4. /\ open' \in Seq(Method) /\ Len(open') = Len(open) + 1 /\ Len(open) \in Nat
          /\ open'[Len(open) + 1] = meth
      BY <3>1, <3>2, <3>3, AppendType
    <3>5. open' # << >> /\ Back(open') = meth
      BY <3>4, EmptySeq DEF Back
    <3> QED  BY <3>2, <3>5 DEF TopKind
  <2> QED  BY <2>2, <2>3
<1> QED
  BY <1>1, <1>2 DEF Parsed

\* Every method that begins keeps the account.
LEMMA BeginsKeep ==
    ASSUME IInv, Parsed, While \/ DoWhile \/ For \/ If \/ Switch \/ Case \/ Default
    PROVE  Parsed'
<1> DEFINE l == labels + 1
<1>1. CASE rejected # {}
  <2>1. rejected' = rejected /\ at' = at /\ pc = "parse"
    BY DEF While, DoWhile, For, If, Switch, Case, Default, Begin
  <2> QED  BY <1>1, <2>1 DEF Parsed
<1>2. CASE rejected = {}
  <2>0. pc = "parse"
    BY DEF While, DoWhile, For, If, Switch, Case, Default
  <2>1. /\ InBlock <=> TopKind(open) # "switch"
        /\ open # << >> => TopKind(open) = Top.kind
    BY <1>2, <2>0, ParsedGood
  <2>2. /\ Own("while") = 2 /\ Own("do") = 2 /\ Own("for") = 4 /\ Own("if") = 2
        /\ Own("switch") = 1 /\ Own("case") = 1 /\ Own("default") = 0
    BY DEF Own
  <2>3. {"while", "do", "for", "if", "switch", "case", "default"} \subseteq Opener \ {"else"}
    BY DEF Opener, Loop
  <2>4. CASE While
    <3> DEFINE insts == << Label(l), Branch("jf", Tok, l + 1) >>
    <3>1. \A m, a : insts = TokenCode("while", m, Tok, l, a)
      BY DEF TokenCode
    <3> HIDE DEF insts
    <3>2. Begin("while", 2, insts) /\ InBlock
      BY <2>4 DEF While, insts
    <3> QED  BY <2>0, <2>1, <2>2, <2>3, <3>1, <3>2, BeginKeeps
  <2>5. CASE DoWhile
    <3> DEFINE insts == << Label(l) >>
    <3>1. \A m, a : insts = TokenCode("do", m, Tok, l, a)
      BY DEF TokenCode
    <3> HIDE DEF insts
    <3>2. Begin("do", 2, insts) /\ InBlock
      BY <2>5 DEF DoWhile, insts
    <3> QED  BY <2>0, <2>1, <2>2, <2>3, <3>1, <3>2, BeginKeeps
  <2>6. CASE For
    <3> DEFINE insts == << Do(Tok, "init"), Label(l), Branch("jf", Tok, l + 1),
                           Jmp(l + 2), Label(l + 3), Do(Tok, "step"), Jmp(l),
                           Label(l + 2) >>
    <3>1. \A m, a : insts = TokenCode("for", m, Tok, l, a)
      BY DEF TokenCode
    <3> HIDE DEF insts
    <3>2. Begin("for", 4, insts) /\ InBlock
      BY <2>6 DEF For, insts
    <3> QED  BY <2>0, <2>1, <2>2, <2>3, <3>1, <3>2, BeginKeeps
  <2>7. CASE If
    <3> DEFINE insts == << Branch("jf", Tok, l) >>
    <3>1. \A m, a : insts = TokenCode("if", m, Tok, l, a)
      BY DEF TokenCode
    <3> HIDE DEF insts
    <3>2. Begin("if", 2, insts) /\ InBlock
      BY <2>7 DEF If, insts
    <3> QED  BY <2>0, <2>1, <2>2, <2>3, <3>1, <3>2, BeginKeeps
  <2>8. CASE Switch
    <3> DEFINE insts == << Do(Tok, "value") >>
    <3>1. \A m, a : insts = TokenCode("switch", m, Tok, l, a)
      BY DEF TokenCode
    <3> HIDE DEF insts
    <3>2. Begin("switch", 1, insts) /\ InBlock
      BY <2>8 DEF Switch, insts
    <3> QED  BY <2>0, <2>1, <2>2, <2>3, <3>1, <3>2, BeginKeeps
  <2>9. CASE Case
    <3> DEFINE insts == << Branch("jne", Tok, l) >>
    <3>1. \A m, a : insts = TokenCode("case", m, Tok, l, a)
      BY DEF TokenCode
    <3> HIDE DEF insts
    <3>2. Begin("case", 1, insts) /\ open # << >> /\ Top.kind = "switch"
      BY <2>9 DEF Case, insts
    <3> QED  BY <2>0, <2>1, <2>2, <2>3, <3>1, <3>2, BeginKeeps
  <2>10. CASE Default
    <3> DEFINE insts == << >>
    <3>1. \A m, a : insts = TokenCode("default", m, Tok, l, a)
      BY DEF TokenCode
    <3> HIDE DEF insts
    <3>2. Begin("default", 0, insts) /\ open # << >> /\ Top.kind = "switch"
      BY <2>10 DEF Default, insts
    <3> QED  BY <2>0, <2>1, <2>2, <2>3, <3>1, <3>2, BeginKeeps
  <2> QED  BY <2>4, <2>5, <2>6, <2>7, <2>8, <2>9, <2>10
<1> QED
  BY <1>1, <1>2

\* A branch lies right in its switch, and nothing else does.
LEMMA BranchInSwitch ==
    ASSUME NEW s, NEW o, NEW c, NEW l, NEW w, Good(s, o, c, l, w), Len(o) >= 1
    PROVE  TopKind(Popped(o)) = "switch" <=> Back(o).kind \in {"case", "default"}
<1> DEFINE h == Len(o)
<1>1. o \in Seq(Method) /\ h \in Nat
  BY GoodIs
<1>2. \A k \in 1 .. h : o[k].kind \in {"case", "default"} <=> k > 1 /\ o[k - 1].kind = "switch"
  BY GoodIs DEF Stacked
<1>3. Back(o).kind \in {"case", "default"} <=> h > 1 /\ o[h - 1].kind = "switch"
  <2>1. h \in 1 .. h
    BY <1>1
  <2> QED  BY <1>2, <2>1 DEF Back
<1>4. /\ Popped(o) \in Seq(Method) /\ Len(Popped(o)) = h - 1
      /\ \A k \in 1 .. h - 1 : Popped(o)[k] = o[k]
  BY <1>1, PoppedType
<1>5. CASE h = 1
  <2>1. Popped(o) = << >>
    BY <1>4, <1>5, EmptySeq
  <2> QED  BY <1>3, <1>5, <2>1 DEF TopKind
<1>6. CASE h # 1
  <2>1. h - 1 \in 1 .. h - 1 /\ h > 1 /\ h - 1 # 0
    <3>1. \A a \in Nat : a >= 1 /\ a # 1 => a - 1 \in 1 .. a - 1 /\ a > 1 /\ a - 1 # 0
      OBVIOUS
    <3> HIDE DEF h
    <3>2. h >= 1
      BY DEF h
    <3> QED  BY <1>1, <1>6, <3>1, <3>2
  <2>2. Popped(o) # << >>
    BY <1>4, <2>1, EmptySeq
  <2>3. Back(Popped(o)) = o[h - 1]
    BY <1>4, <2>1 DEF Back
  <2> QED  BY <1>3, <2>1, <2>2, <2>3 DEF TopKind
<1> QED
  BY <1>5, <1>6

\* A method ends with the code of its end.
LEMMA EndKeeps ==
    ASSUME IInv, Parsed, NEW kind, NEW insts, End(kind, insts),
           kind # "default", insts = EndCode(kind, Tok, Top.lb),
           kind = "case" => Back(src) \in {"break", "continue", "return"}
    PROVE  Parsed'
<1>1. /\ pc = "parse" /\ open # << >> /\ Top.kind = kind
      /\ src' = Append(src, "end") /\ open' = Popped(open) /\ code' = code \o insts
      /\ labels' = labels /\ rejected' = rejected /\ at' = at
  BY DEF End
<1>2. ASSUME rejected = {}
      PROVE  Booked(src', open', code', labels', TopKind(open'))
  <2>1. /\ Good(src, open, code, labels, TopKind(open)) /\ Tok = Len(src) + 1
        /\ Len(open) >= 1 /\ Top = Back(open) /\ TopKind(open) = Top.kind
    BY <1>1, <1>2, ParsedGood
  <2>2. TopKind(Popped(open)) = "switch" <=> Back(open).kind = "case"
    BY <1>1, <2>1, BranchInSwitch
  <2>3. Back(open).kind = "case" => Len(src) >= 1 /\ src[Len(src)] \in {"break", "continue", "return"}
    <3>1. Back(open).kind = "case" => Back(src) \in {"break", "continue", "return"}
      BY <1>1, <2>1
    <3>2. Len(src) >= 1
      <4>1. Top.tok \in DOMAIN src
        <5>1. Len(open) \in DOMAIN open
          BY <2>1, LenProperties DEF IInv, Typed
        <5> QED  BY <5>1 DEF IInv, Nested, Top
      <4>2. DOMAIN src = 1 .. Len(src) /\ Len(src) \in Nat
        BY LenProperties DEF IInv, Typed
      <4> QED  BY <4>1, <4>2
    <3> QED  BY <3>1, <3>2 DEF Back
  <2>4. Booked(Append(src, "end"), Popped(open),
               code \o EndCode(Back(open).kind, Len(src) + 1, Back(open).lb), labels, TopKind(Popped(open)))
    BY <2>1, <2>2, <2>3, CloseBooked
  <2> QED  BY <1>1, <2>1, <2>4
<1> QED
  BY <1>1, <1>2 DEF Parsed

\* A case goes on with the next unless a jump ends it.
Falls == "fall through" \in Odd

\* Every method that ends keeps the account.
LEMMA EndsKeep ==
    ASSUME IInv, Parsed, ~ Falls,
           EndWhile \/ EndDoWhile \/ EndFor \/ EndIf \/ EndElse \/ EndSwitch \/ EndCase
    PROVE  Parsed'
<1>1. CASE EndWhile
  <2>1. End("while", << Jmp(Top.lb), Label(Top.lb + 1) >>)
    BY <1>1 DEF EndWhile
  <2>2. << Jmp(Top.lb), Label(Top.lb + 1) >> = EndCode("while", Tok, Top.lb)
    BY DEF EndCode
  <2> QED  BY <2>1, <2>2, EndKeeps
<1>2. CASE EndDoWhile
  <2>1. End("do", << Branch("jt", Tok, Top.lb), Label(Top.lb + 1) >>)
    BY <1>2 DEF EndDoWhile
  <2>2. << Branch("jt", Tok, Top.lb), Label(Top.lb + 1) >> = EndCode("do", Tok, Top.lb)
    BY DEF EndCode
  <2> QED  BY <2>1, <2>2, EndKeeps
<1>3. CASE EndFor
  <2>1. End("for", << Jmp(Top.lb + 3), Label(Top.lb + 1) >>)
    BY <1>3 DEF EndFor
  <2>2. << Jmp(Top.lb + 3), Label(Top.lb + 1) >> = EndCode("for", Tok, Top.lb)
    BY DEF EndCode
  <2> QED  BY <2>1, <2>2, EndKeeps
<1>4. CASE EndIf
  <2>1. End("if", << Jmp(Top.lb + 1), Label(Top.lb), Label(Top.lb + 1) >>)
    BY <1>4 DEF EndIf
  <2>2. << Jmp(Top.lb + 1), Label(Top.lb), Label(Top.lb + 1) >> = EndCode("if", Tok, Top.lb)
    BY DEF EndCode
  <2> QED  BY <2>1, <2>2, EndKeeps
<1>5. CASE EndElse
  <2>1. End("else", << Label(Top.lb + 1) >>)
    BY <1>5 DEF EndElse
  <2>2. << Label(Top.lb + 1) >> = EndCode("else", Tok, Top.lb)
    BY DEF EndCode
  <2> QED  BY <2>1, <2>2, EndKeeps
<1>6. CASE EndSwitch
  <2>1. End("switch", << Label(Top.lb) >>)
    BY <1>6 DEF EndSwitch
  <2>2. << Label(Top.lb) >> = EndCode("switch", Tok, Top.lb)
    BY DEF EndCode
  <2> QED  BY <2>1, <2>2, EndKeeps
<1>7. CASE EndCase
  <2>1. End("case", << Label(Top.lb) >>) /\ Back(src) \in {"break", "continue", "return"}
    BY <1>7, Zenon DEF EndCase, Falls
  <2>2. << Label(Top.lb) >> = EndCode("case", Tok, Top.lb)
    BY DEF EndCode
  <2> QED  BY <2>1, <2>2, EndKeeps
<1> QED
  BY <1>1, <1>2, <1>3, <1>4, <1>5, <1>6, <1>7

\* An if that goes on with its other branch keeps its place.
LEMMA ElseKeeps ==
    ASSUME IInv, Parsed, Else
    PROVE  Parsed'
<1> DEFINE n    == Len(open)
           meth == [open[n] EXCEPT !.kind = "else", !.tok = Tok]
<1>1. /\ pc = "parse" /\ open # << >> /\ Top.kind = "if"
      /\ src' = Append(src, "else")
      /\ code' = code \o << Jmp(Top.lb + 1), Label(Top.lb) >>
      /\ open' = [open EXCEPT ![Len(open)].kind = "else", ![Len(open)].tok = Tok]
      /\ labels' = labels /\ rejected' = rejected /\ at' = at
  BY DEF Else
<1>2. ASSUME rejected = {}
      PROVE  Booked(src', open', code', labels', TopKind(open'))
  <2>1. /\ Good(src, open, code, labels, TopKind(open)) /\ Tok = Len(src) + 1
        /\ n >= 1 /\ Top = Back(open) /\ TopKind(open) = Top.kind
    BY <1>1, <1>2, ParsedGood
  <2>2. open \in Seq(Method) /\ n \in Nat /\ Len(src) \in Nat
    BY LenProperties DEF IInv, Typed
  <2>3. n \in 1 .. n /\ open[n] \in Method /\ Top = open[n]
    <3>1. n \in 1 .. n
      BY <2>1, <2>2
    <3> QED  BY <2>2, <3>1, ElementOfSeq DEF Top
  <2>4. /\ meth \in Method /\ meth.kind = "else" /\ meth.tok = Len(src) + 1
        /\ meth.lb = Back(open).lb
    <3>1. /\ Tok \in Nat /\ Tok = Len(src) + 1 /\ "else" \in Opener
          /\ Back(open) = open[n] /\ open[n] \in Method
      BY <2>1, <2>2, <2>3 DEF Opener, Back
    <3> HIDE DEF Opener
    <3>2. meth \in Method /\ meth.kind = "else" /\ meth.lb = open[n].lb /\ meth.tok = Tok
      BY <3>1 DEF Method
    <3> QED  BY <3>1, <3>2
  <2>5. open' = [open EXCEPT ![n] = meth]
    BY <1>1
  <2> HIDE DEF meth
  <2>6. /\ open' \in Seq(Method) /\ Len(open') = n
        /\ \A k \in 1 .. n : open'[k] = IF k = n THEN meth ELSE open[k]
    BY <2>2, <2>3, <2>4, <2>5, ExceptSeq
  <2>7. \A k \in 1 .. n - 1 : k \in 1 .. n /\ k # n
    BY <2>2
  <2>8. /\ open'[n] = meth /\ \A k \in 1 .. n - 1 : open'[k] = open[k]
    BY <2>3, <2>6, <2>7
  <2>9. TopKind(open') = "else"
    <3>1. open' # << >>
      BY <2>1, <2>6, EmptySeq
    <3>2. Back(open') = meth
      BY <2>6, <2>8 DEF Back
    <3>3. meth.kind = "else"
      BY <2>4
    <3> QED  BY <3>1, <3>2, <3>3 DEF TopKind
  <2>10. Booked(Append(src, "else"), open',
                code \o << Jmp(Back(open).lb + 1), Label(Back(open).lb) >>, labels, TopKind(open'))
    <3>1. Back(open).kind = "if" /\ TopKind(open) # "switch" /\ TopKind(open') # "switch"
      BY <1>1, <2>1, <2>9
    <3>2. /\ open'[Len(open)].kind = "else" /\ open'[Len(open)].tok = Len(src) + 1
          /\ open'[Len(open)].lb = Back(open).lb
      BY <2>4, <2>8
    <3> QED  BY <2>1, <2>6, <2>8, <3>1, <3>2, ElseBooked
  <2> QED  BY <1>1, <2>1, <2>10
<1> QED
  BY <1>1, <1>2 DEF Parsed

\* A default and its switch end one after the other.
LEMMA EndDefaultKeeps ==
    ASSUME IInv, Parsed, EndDefault
    PROVE  Parsed'
<1> DEFINE o == Popped(open)
           n == Len(open)
<1>1. /\ pc = "parse" /\ open # << >> /\ Top.kind = "default" /\ open' = Popped(o)
      /\ src' = src \o << "end", "end" >> /\ code' = Append(code, Label(o[n - 1].lb))
      /\ labels' = labels /\ rejected' = rejected /\ at' = at
  BY DEF EndDefault
<1>2. ASSUME rejected = {}
      PROVE  Booked(src', open', code', labels', TopKind(open'))
  <2>1. /\ Good(src, open, code, labels, TopKind(open)) /\ Tok = Len(src) + 1
        /\ n >= 1 /\ Top = Back(open) /\ TopKind(open) = Top.kind
    BY <1>1, <1>2, ParsedGood
  <2>2. /\ src \in Seq(Token) /\ open \in Seq(Method) /\ code \in Seq(AnyInstr) /\ labels \in Nat
        /\ n \in Nat
    BY <2>1, GoodIs
  <2>3. o \in Seq(Method) /\ Len(o) = n - 1
    BY <2>1, <2>2, PoppedType
  <2>4. TopKind(o) = "switch"
    BY <1>1, <2>1, BranchInSwitch
  <2>5. o # << >> /\ Back(o).kind = "switch"
    BY <2>4 DEF TopKind
  <2>6. Len(o) >= 1 /\ Back(o) = o[n - 1]
    <3>1. Len(o) # 0
      BY <2>3, <2>5, EmptySeq
    <3>2. Len(o) \in Nat
      BY <2>3, LenProperties
    <3> QED  BY <2>3, <3>1, <3>2 DEF Back
  <2> HIDE DEF o
  <2>7. Booked(Append(src, "end"), o, code \o EndCode("default", Len(src) + 1, Back(open).lb), labels, "default")
    <3>1. Back(open).kind = "default" /\ TopKind(open) # "switch"
      BY <1>1, <2>1
    <3> QED  BY <2>1, <3>1, CloseBooked DEF o
  <2>8. code \o EndCode("default", Len(src) + 1, Back(open).lb) = code
    <3>1. EndCode("default", Len(src) + 1, Back(open).lb) = << >>
      BY DEF EndCode
    <3> QED  BY <2>2, <3>1, ConcatEmptySeq
  <2>9. /\ "end" \in Token /\ Append(src, "end") \in Seq(Token)
        /\ src' = Append(Append(src, "end"), "end")
    <3>1. "end" \in Token
      BY DEF Token, Closer
    <3> HIDE DEF Token
    <3>2. Append(src, "end") \in Seq(Token)
      BY <2>2, <3>1, AppendType
    <3>3. Append(Append(src, "end"), "end") = src \o << "end", "end" >>
      BY <2>2, <3>1
    <3> QED  BY <1>1, <3>1, <3>2, <3>3
  <2>10. Good(Append(src, "end"), o, code, labels, "default")
    BY <2>2, <2>3, <2>7, <2>8, <2>9 DEF Good
  <2>11. TopKind(Popped(o)) # "switch"
    BY <2>5, <2>6, <2>10, BranchInSwitch
  <2>12. Booked(Append(Append(src, "end"), "end"), Popped(o),
                code \o EndCode(Back(o).kind, Len(Append(src, "end")) + 1, Back(o).lb), labels, TopKind(Popped(o)))
    BY <2>5, <2>6, <2>10, <2>11, CloseBooked
  <2>13. code \o EndCode(Back(o).kind, Len(Append(src, "end")) + 1, Back(o).lb) = code'
    <3>1. EndCode(Back(o).kind, Len(Append(src, "end")) + 1, Back(o).lb) = << Label(Back(o).lb) >>
      BY <2>5 DEF EndCode
    <3>2. Label(Back(o).lb) \in AnyInstr
      <4>1. Back(o) \in Method
        BY <2>3, <2>6, PoppedType
      <4>2. Back(o).lb \in Nat
        BY <4>1 DEF Method
      <4> QED  BY <4>2 DEF Label, AnyInstr, Event, Part
    <3> HIDE DEF Label, AnyInstr
    <3>3. Append(code, Label(Back(o).lb)) = code \o << Label(Back(o).lb) >>
      BY <2>2, <3>2, AppendIsConcat
    <3> QED  BY <1>1, <2>6, <3>1, <3>3
  <2> QED  BY <1>1, <2>9, <2>12, <2>13
<1> QED
  BY <1>1, <1>2 DEF Parsed

\* A loop jumps back past the condition of a do loop.
DoJumps == "continue in do" \in Odd

\* A statement of one token keeps the account.
LEMMA SingleKeeps ==
    ASSUME IInv, Parsed, NEW x \in Single, NEW g, OneToken(x, g), rejected = {},
           \/ /\ x \notin {"break", "continue"}
              /\ \A m, b, a : g = TokenCode(x, m, Tok, b, a)
           \/ \E k \in 1 .. Len(open) :
                 /\ open[k].kind \in Jumpable
                 /\ \A m \in 1 .. Len(open) : open[m].kind \in Jumpable => m <= k
                 /\ x = "continue" => open[k].kind \in {"while", "for"}
                 /\ \A b : g = TokenCode(x, open[k].kind, Tok, b, open[k].lb)
    PROVE  Parsed'
<1>1. /\ pc = "parse" /\ InBlock /\ src' = Append(src, x) /\ code' = code \o g
      /\ open' = open /\ labels' = labels /\ at' = at
  BY DEF OneToken
<1>2. /\ Good(src, open, code, labels, TopKind(open)) /\ Tok = Len(src) + 1
      /\ TopKind(open) # "switch"
  BY <1>1, ParsedGood
<1>3. Booked(Append(src, x), open, code \o g, labels, TopKind(open))
  BY <1>2, SingleBooked
<1> QED
  BY <1>1, <1>3 DEF Parsed

\* Every statement of one token keeps the account.
LEMMA SinglesKeep ==
    ASSUME IInv, Parsed, ~ DoJumps, Run \/ Return \/ Break \/ Continue
    PROVE  Parsed'
<1>1. pc = "parse" /\ at' = at /\ rejected \subseteq rejected'
  BY DEF Run, Return, Break, Continue, OneToken
<1>2. /\ open \in Seq(Method) /\ DOMAIN open = 1 .. Len(open) /\ Len(open) \in Nat
      /\ heads \in Seq(Place) /\ tails \in Seq(Place) /\ Mirrors(open, heads, tails)
  <2>1. 0 .. labels \cup {None} \subseteq Place
    BY DEF IInv, Typed, Place
  <2>2. /\ open \in Seq(Method) /\ heads \in Seq(0 .. labels \cup {None})
        /\ tails \in Seq(0 .. labels \cup {None}) /\ Mirrors(open, heads, tails)
    BY DEF IInv, Typed
  <2> QED  BY <2>1, <2>2, LenProperties, SeqMonotonic
<1>3. CASE rejected' # {}
  BY <1>1, <1>3 DEF Parsed
<1>4. CASE rejected' = {}
  <2>0. rejected = {}
    BY <1>1, <1>4
  <2>1. CASE Run
    <3> DEFINE g == << Do(Tok, "run") >>
    <3>1. \A m, b, a : g = TokenCode("run", m, Tok, b, a)
      BY DEF TokenCode
    <3> HIDE DEF g
    <3>2. OneToken("run", g) /\ "run" \in Single
      BY <2>1 DEF Run, g, Single
    <3> QED  BY <2>0, <3>1, <3>2, SingleKeeps
  <2>2. CASE Return
    <3> DEFINE g == << Do(Tok, "return"), Jmp(ReturnPoint) >>
    <3>1. \A m, b, a : g = TokenCode("return", m, Tok, b, a)
      BY DEF TokenCode
    <3> HIDE DEF g
    <3>2. OneToken("return", g) /\ "return" \in Single
      BY <2>2 DEF Return, g, Single
    <3> QED  BY <2>0, <3>1, <3>2, SingleKeeps
  <2>3. CASE Break
    <3>1. Back(tails) # None
      <4>1. Back(tails) = None => rejected' = rejected \cup {Tok}
        BY <2>3 DEF Break
      <4> QED  BY <1>4, <4>1
    <3>2. OneToken("break", << Jmp(Back(tails)) >>)
      BY <2>3, <3>1 DEF Break
    <3>3. PICK k \in 1 .. Len(open) :
             /\ open[k].kind \in Jumpable
             /\ \A m \in 1 .. Len(open) : open[m].kind \in Jumpable => m <= k
             /\ Back(tails) = TailOf(open[k])
      BY <1>2, <3>1, MirrorTop
    <3> DEFINE g == << Jmp(Back(tails)) >>
    <3>4. \A b : g = TokenCode("break", open[k].kind, Tok, b, open[k].lb)
      BY <3>3 DEF TokenCode, TailOf
    <3> HIDE DEF g
    <3>5. OneToken("break", g) /\ "break" \in Single
      BY <3>2 DEF g, Single
    <3> QED  BY <2>0, <3>3, <3>4, <3>5, SingleKeeps
  <2>4. CASE Continue
    <3>1. Back(heads) # None
      <4>1. Back(heads) = None => rejected' = rejected \cup {Tok}
        BY <2>4 DEF Continue
      <4> QED  BY <1>4, <4>1
    <3>2. OneToken("continue", << Jmp(Back(heads)) >>)
      BY <2>4, <3>1 DEF Continue
    <3>3. PICK k \in 1 .. Len(open) :
             /\ open[k].kind \in Jumpable
             /\ \A m \in 1 .. Len(open) : open[m].kind \in Jumpable => m <= k
             /\ Back(tails) = TailOf(open[k]) /\ Back(heads) = HeadOf(open[k])
      <4>1. \E k \in DOMAIN open : open[k].kind \in Jumpable
        <5>1. \E k \in DOMAIN open : open[k].kind \in Loop
          BY <1>2, <3>1, MirrorTop
        <5> QED  BY <5>1 DEF Jumpable
      <4>2. Back(tails) # None
        BY <1>2, <4>1, MirrorTop
      <4> QED  BY <1>2, <4>2, MirrorTop
    <3>4. open[k].kind \in Loop
      BY <3>1, <3>3 DEF HeadOf, Jumpable
    <3>5. open[k].kind # "do"
      <4>1. KindIn(Loop) # "do"
        BY <2>4, Zenon DEF Continue, DoJumps
      <4>2. /\ Innermost(Loop) # 0 => Innermost(Loop) \in DOMAIN open
            /\ Innermost(Loop) # 0 => open[Innermost(Loop)].kind \in Loop
            /\ Innermost(Loop) # 0 =>
                  \A m \in DOMAIN open : open[m].kind \in Loop => m <= Innermost(Loop)
            /\ Innermost(Loop) = 0 => \A m \in DOMAIN open : open[m].kind \notin Loop
        BY InnermostIs
      <4>3. Innermost(Loop) # 0
        BY <1>2, <3>4, <4>2
      <4>4. Innermost(Loop) = k
        <5>1. Innermost(Loop) \in 1 .. Len(open) /\ k <= Innermost(Loop)
          BY <1>2, <3>4, <4>2, <4>3
        <5>2. Innermost(Loop) <= k
          BY <3>3, <4>2, <4>3, <5>1 DEF Jumpable
        <5> QED  BY <1>2, <5>1, <5>2
      <4> QED  BY <4>1, <4>3, <4>4 DEF KindIn
    <3>6. open[k].kind \in {"while", "for"}
      BY <3>4, <3>5 DEF Loop
    <3> DEFINE g == << Jmp(Back(heads)) >>
    <3>7. \A b : g = TokenCode("continue", open[k].kind, Tok, b, open[k].lb)
      BY <3>3, <3>6 DEF TokenCode, HeadOf
    <3> HIDE DEF g
    <3>8. OneToken("continue", g) /\ "continue" \in Single
      BY <3>2 DEF g, Single
    <3> QED  BY <2>0, <3>3, <3>6, <3>7, <3>8, SingleKeeps
  <2> QED  BY <2>1, <2>2, <2>3, <2>4
<1> QED
  BY <1>3, <1>4

\* Before the first token, and after each.
LEMMA InitParsed == Init => Parsed
<1> SUFFICES ASSUME Init  PROVE Parsed
  OBVIOUS
<1>1. /\ src = << >> /\ open = << >> /\ code = << >> /\ labels = 0 /\ at = 1
  BY DEF Init
<1> DEFINE zero == [k \in Nat |-> 0]
           role == [k \in Nat |-> << 0, 0 >>]
<1>2. /\ zero \in [Nat -> Nat] /\ role \in [Nat -> Nat \X Nat] /\ zero[0] = 0 /\ role[0] = << 0, 0 >>
      /\ zero[1] = 0 /\ 1 .. 0 = {} /\ 0 + 1 = 1
  OBVIOUS
<1> HIDE DEF zero, role
<1>3. Len(src) = 0 /\ Len(open) = 0 /\ Len(code) = 0 /\ DOMAIN src = {}
  BY <1>1
<1>4. Tree(src, zero, zero) /\ Labelled(src, zero, zero, role, labels)
  BY <1>2, <1>3 DEF Tree, Labelled
<1>5. Laid(Len(src), Codes(Len(src), src, zero, zero), zero, code)
  BY <1>2, <1>3 DEF Laid
<1>6. Stacked(src, open, zero, zero, zero, TopKind(open))
  <2>1. TopKind(open) # "switch"
    BY <1>1 DEF TopKind
  <2>2. ~ Forked(src, zero, Len(src))
    BY <1>3 DEF Forked
  <2> QED  BY <1>2, <1>3, <2>1, <2>2 DEF Stacked
<1> QED
  BY <1>1, <1>4, <1>5, <1>6 DEF Parsed, Booked

\* Every step keeps the account: only a continue in a do loop and a case that runs
\* into the next are not accounted for.
LEMMA NextParsed ==
    ASSUME IInv, Parsed, ~ DoJumps, ~ Falls, [Next]_vars
    PROVE  Parsed'
<1>1. CASE EndFunction \/ Silent \/ Act
  BY <1>1 DEF EndFunction, Silent, Act, Parsed
<1>2. CASE UNCHANGED vars
  BY <1>2 DEF vars, generated, Parsed
<1> QED
  BY <1>1, <1>2, BeginsKeep, EndsKeep, ElseKeeps, EndDefaultKeeps, SinglesKeep DEF Next, Parse

-----------------------------------------------------------------------------
(* The source, read with what its tokens belong to *)

\* A function whose values are given by later ones exists.
Solves(g, n, R, next, val) ==
    /\ g = [t \in 1 .. n |-> g[t]]
    /\ \A t \in 1 .. n : g[t] = IF t \in R THEN g[next[t]] ELSE val[t]

\* Such a function is built from its end, where nothing later is asked for.
LEMMA Chain ==
    ASSUME NEW n \in Nat, NEW R, NEW next, \A t \in 1 .. n : t \in R => next[t] \in t + 1 .. n, NEW val
    PROVE  \E g : Solves(g, n, R, next, val)
<1> DEFINE Right(g, t) == g[t] = IF t \in R THEN g[next[t]] ELSE val[t]
           From(k)     == \E g : /\ g = [t \in 1 .. n |-> g[t]]
                                 /\ \A t \in n + 1 - k .. n : t >= 1 => Right(g, t)
           S           == {k \in Nat : k <= n => From(k)}
<1>1. From(0)
  <2> DEFINE g == [t \in 1 .. n |-> 0]
  <2>1. g = [t \in 1 .. n |-> g[t]]
    OBVIOUS
  <2>2. n + 1 - 0 .. n = {}
    OBVIOUS
  <2> QED  BY <2>1, <2>2
<1>2. ASSUME NEW k \in Nat, k + 1 <= n, From(k)
      PROVE  From(k + 1)
  <2> DEFINE u == n - k
  <2>1. u \in 1 .. n /\ n + 1 - k = u + 1 /\ n + 1 - (k + 1) = u
    BY <1>2
  <2>2. PICK g : /\ g = [t \in 1 .. n |-> g[t]]
                 /\ \A t \in u + 1 .. n : t >= 1 => Right(g, t)
    BY <1>2, <2>1
  <2> DEFINE h == [g EXCEPT ![u] = IF u \in R THEN g[next[u]] ELSE val[u]]
  <2> HIDE DEF u
  <2>3. h = [t \in 1 .. n |-> h[t]] /\ h[u] = (IF u \in R THEN g[next[u]] ELSE val[u])
        /\ \A t \in 1 .. n : t # u => h[t] = g[t]
    BY <2>1, <2>2
  <2> HIDE DEF h
  <2>4. \A t \in 1 .. n : t \in R => next[t] \in 1 .. n /\ next[t] # t /\ (t >= u => next[t] # u)
    <3>1. \A t \in 1 .. n : \A m \in t + 1 .. n : m \in 1 .. n /\ m # t /\ (t >= u => m # u)
      BY <2>1
    <3> QED  BY <3>1
  <2>5. ASSUME NEW t \in u .. n
        PROVE  Right(h, t)
    <3>1. t \in 1 .. n /\ t >= u
      BY <2>1
    <3>2. t \in R => h[next[t]] = g[next[t]]
      BY <2>3, <2>4, <3>1
    <3>3. CASE t = u
      BY <2>3, <3>2, <3>3
    <3>4. CASE t # u
      <4>1. t \in u + 1 .. n /\ t >= 1
        BY <2>1, <3>4
      <4> QED  BY <2>2, <2>3, <3>1, <3>2, <3>4, <4>1
    <3> QED  BY <3>3, <3>4
  <2> HIDE DEF Right
  <2> QED  BY <2>1, <2>3, <2>5
<1>3. S = Nat
  <2> HIDE DEF From
  <2>1. 0 \in S
    BY <1>1
  <2>2. ASSUME NEW k \in S  PROVE k + 1 \in S
    <3>1. k + 1 <= n => k <= n
      OBVIOUS
    <3> QED  BY <1>2, <3>1
  <2> HIDE DEF S
  <2>3. S \in SUBSET Nat
    BY DEF S
  <2> QED  BY <2>1, <2>2, <2>3, Induction
<1>4. From(n)
  <2> HIDE DEF From
  <2> QED  BY <1>3
<1>5. PICK g : g = [t \in 1 .. n |-> g[t]] /\ \A t \in n + 1 - n .. n : t >= 1 => Right(g, t)
  BY <1>4
<1>6. \A t \in 1 .. n : Right(g, t)
  <2>1. n + 1 - n = 1 /\ \A t \in 1 .. n : t >= 1
    OBVIOUS
  <2> QED  BY <1>5, <2>1
<1> QED
  BY <1>5, <1>6 DEF Solves

\* The tokens of a whole body: all is shut that was open.
Whole(d, own) ==
    /\ src \in Seq(Token) /\ Tree(src, d, own) /\ ~ Forked(src, own, Len(src))
    /\ \A t \in 1 .. Len(src) : src[t] \in Opener => Shut(src, own, t, Len(src))

\* The parts of a whole body.
LEMMA WholeIs ==
    ASSUME NEW d, NEW own, Whole(d, own)
    PROVE  /\ Len(src) \in Nat /\ DOMAIN src = 1 .. Len(src) /\ d \in [Nat -> Nat] /\ d[0] = 0
           /\ own \in [Nat -> Nat]
           /\ \A t \in 1 .. Len(src) : TokenOK(src, d, own, t) /\ src[t] \in Token
<1>1. src \in Seq(Token)
  BY DEF Whole
<1>2. Len(src) \in Nat /\ DOMAIN src = 1 .. Len(src) /\ \A t \in 1 .. Len(src) : src[t] \in Token
  BY <1>1, LenProperties, ElementOfSeq
<1> QED
  BY <1>2 DEF Whole, Tree

\* d are the levels.
LEMMA DepthIs ==
    ASSUME NEW d, NEW own, Whole(d, own)
    PROVE  \A k \in 0 .. Len(src) : Depth[k] = d[k]
<1> DEFINE n       == Len(src)
           body(f) == [k \in 0 .. n |->
                         IF k = 0 THEN 0
                         ELSE f[k - 1] + (IF src[k] \in Opener THEN 1 ELSE 0)
                                       - (IF src[k] \in Closer THEN 1 ELSE 0)]
           g       == [k \in 0 .. n |-> d[k]]
<1>1. n \in Nat /\ d \in [Nat -> Nat] /\ d[0] = 0 /\ \A t \in 1 .. n : TokenOK(src, d, own, t)
  BY WholeIs
<1> HIDE DEF n
<1>2. ASSUME NEW k \in 0 .. n, k # 0
      PROVE  /\ k - 1 \in 0 .. n /\ d[k - 1] \in Nat
             /\ d[k] = d[k - 1] + (IF src[k] \in Opener THEN 1 ELSE 0)
                                - (IF src[k] \in Closer THEN 1 ELSE 0)
  <2>1. k \in 1 .. n /\ k - 1 \in 0 .. n /\ k - 1 \in Nat
    BY <1>1, <1>2
  <2>2. d[k - 1] \in Nat
    BY <1>1, <2>1
  <2>3. d[k] = d[k - 1] + Step(src[k])
    BY <1>1, <2>1 DEF TokenOK
  <2> QED  BY <2>1, <2>2, <2>3 DEF Step
<1>3. g = body(g)
  <2>1. ASSUME NEW k \in 0 .. n
        PROVE  g[k] = IF k = 0 THEN 0
                      ELSE g[k - 1] + (IF src[k] \in Opener THEN 1 ELSE 0)
                                    - (IF src[k] \in Closer THEN 1 ELSE 0)
    BY <1>1, <1>2
  <2> QED  BY <2>1
<1>4. Depth = CHOOSE f : f = body(f)
  BY DEF Depth, n
<1>5. Depth = body(Depth)
  <2> HIDE DEF body
  <2> QED  BY <1>3, <1>4
<1>6. /\ Depth[0] = 0
      /\ \A k \in 0 .. n : k # 0 => Depth[k] = Depth[k - 1] + (IF src[k] \in Opener THEN 1 ELSE 0)
                                                           - (IF src[k] \in Closer THEN 1 ELSE 0)
  <2> HIDE DEF g
  <2>1. 0 \in 0 .. n
    BY <1>1
  <2> QED  BY <1>5, <2>1
<1> DEFINE S == {k \in Nat : k <= n => Depth[k] = d[k]}
<1>7. S = Nat
  <2>1. 0 \in S
    BY <1>1, <1>6
  <2>2. ASSUME NEW k \in S  PROVE k + 1 \in S
    <3>1. k \in Nat /\ (k + 1 <= n => k + 1 \in 0 .. n /\ k + 1 # 0 /\ (k + 1) - 1 = k /\ k <= n)
      BY <1>1
    <3> QED  BY <1>2, <1>6, <3>1
  <2>3. S \in SUBSET Nat
    OBVIOUS
  <2> HIDE DEF S
  <2> QED  BY <2>1, <2>2, <2>3, Induction
<1> QED
  BY <1>7 DEF n

\* Match finds what own remembers.
LEMMA MatchIs ==
    ASSUME NEW d, NEW own, Whole(d, own), NEW e \in 1 .. Len(src), src[e] \in Closer
    PROVE  Match(own[e]) = e
<1> DEFINE n == Len(src)
           o == own[e]
           Fits(m) == /\ src[m] \in Closer /\ Depth[m - 1] = Depth[o]
                      /\ \A f \in o + 1 .. m - 1 : src[f] \in Closer => Depth[f - 1] > Depth[o]
<1>1. n \in Nat /\ d \in [Nat -> Nat] /\ \A k \in 0 .. n : Depth[k] = d[k]
  BY WholeIs, DepthIs
<1>2. Closes(src, d, o, e)
  BY WholeIs DEF TokenOK
<1> HIDE DEF n, o
<1>3. /\ o \in 1 .. e - 1 /\ d[o] = d[e - 1]
      /\ \A f \in o + 1 .. e - 1 : src[f] \in Closer => d[f - 1] > d[o]
  BY <1>2 DEF Closes
<1>4. e \in 1 .. n /\ e \in o + 1 .. n /\ o \in 0 .. n /\ \A m \in o + 1 .. n : m - 1 \in 0 .. n
  <2>1. e \in 1 .. n
    BY DEF n
  <2>2. \A k \in 1 .. n : \A p \in 1 .. k - 1 :
           k \in p + 1 .. n /\ p \in 0 .. n /\ \A m \in p + 1 .. n : m - 1 \in 0 .. n
    BY <1>1
  <2> QED  BY <1>3, <2>1, <2>2
<1>5. \A m \in o + 1 .. n : Depth[m - 1] = d[m - 1] /\ d[m - 1] \in Nat
  <2>1. \A k \in 0 .. n : d[k] \in Nat /\ Depth[k] = d[k]
    <3>1. \A k \in 0 .. n : k \in Nat
      OBVIOUS
    <3> QED  BY <1>1, <3>1
  <2> QED  BY <1>4, <2>1
<1>6. Depth[o] = d[o] /\ d[o] \in Nat
  BY <1>1, <1>4, SMTT(30)
<1>7. Fits(e)
  <2>1. \A f \in o + 1 .. e - 1 : f \in o + 1 .. n
    <3>1. \A k \in 1 .. n : \A p \in 0 .. n : \A f \in p + 1 .. k - 1 : f \in p + 1 .. n
      BY <1>1
    <3> QED  BY <1>4, <3>1
  <2> QED  BY <1>3, <1>4, <1>5, <1>6, <2>1
<1>8. ASSUME NEW m \in o + 1 .. n, Fits(m)
      PROVE  m = e
  <2>1. ~ (m < e)
    <3>1. m < e => m \in o + 1 .. e - 1
      BY <1>4
    <3> QED  BY <1>5, <1>6, <1>7, <1>8, <3>1
  <2>2. ~ (e < m)
    <3>1. e < m => e \in o + 1 .. m - 1
      BY <1>4
    <3> QED  BY <1>4, <1>5, <1>6, <1>7, <1>8, <3>1
  <2> QED  BY <1>4, <2>1, <2>2
<1>9. Match(o) = CHOOSE m \in o + 1 .. n : Fits(m)
  BY DEF Match, n
<1> HIDE DEF Fits
<1> QED
  BY <1>4, <1>7, <1>8, <1>9 DEF o

\* Everything that opens is matched by what belongs to it.
LEMMA MatchOf ==
    ASSUME NEW d, NEW own, Whole(d, own), NEW t \in 1 .. Len(src), src[t] \in Opener
    PROVE  /\ Match(t) \in t + 1 .. Len(src) /\ src[Match(t)] \in Closer /\ own[Match(t)] = t
           /\ \A m \in 0 .. Len(src) : Shut(src, own, t, m) <=> Match(t) <= m
<1>1. PICK e \in t + 1 .. Len(src) : src[e] \in Closer /\ own[e] = t
  BY DEF Whole, Shut
<1>2. Len(src) \in Nat /\ e \in 1 .. Len(src)
  BY WholeIs
<1>3. Match(t) = e
  BY <1>1, <1>2, MatchIs
<1>4. ASSUME NEW m \in 0 .. Len(src)
      PROVE  Shut(src, own, t, m) <=> e <= m
  <2>1. ASSUME e <= m  PROVE Shut(src, own, t, m)
    <3>1. e \in t + 1 .. m
      BY <1>2, <2>1
    <3> QED  BY <1>1, <3>1 DEF Shut
  <2>2. ASSUME NEW f \in t + 1 .. m, src[f] \in Closer, own[f] = t
        PROVE  e <= m
    <3>1. f \in 1 .. Len(src)
      BY <1>2
    <3>2. Match(t) = f
      BY <2>2, <3>1, MatchIs
    <3> QED  BY <1>2, <1>3, <3>2
  <2> QED  BY <2>1, <2>2 DEF Shut
<1> QED
  BY <1>1, <1>3, <1>4

\* Owner finds what own remembers.
LEMMA OwnerIs ==
    ASSUME NEW d, NEW own, Whole(d, own), NEW e \in 1 .. Len(src), src[e] \in Closer
    PROVE  Owner(e) = own[e]
<1>1. own[e] \in 1 .. e - 1 /\ src[own[e]] \in Opener
  BY WholeIs DEF TokenOK, Closes
<1>2. Match(own[e]) = e
  BY MatchIs
<1>3. ASSUME NEW t \in 1 .. e - 1, src[t] \in Opener, Match(t) = e
      PROVE  t = own[e]
  <2>1. t \in 1 .. Len(src)
    BY WholeIs
  <2> QED  BY <1>3, <2>1, MatchOf
<1> QED
  BY <1>1, <1>2, <1>3 DEF Owner

\* break and continue leave or go on with what they belong to.
LEMMA AroundIs ==
    ASSUME NEW d, NEW own, Whole(d, own), NEW t \in 1 .. Len(src),
           src[t] \in {"break", "continue"},
           NEW kinds, kinds = IF src[t] = "break" THEN Loop \cup {"switch"} ELSE Loop
    PROVE  /\ Around(t, kinds) = own[t] /\ own[t] \in 1 .. t - 1 /\ src[own[t]] \in Jumpable
           /\ src[t] = "continue" => src[own[t]] \in {"while", "for"}
           /\ Match(own[t]) \in t + 1 .. Len(src)
<1> DEFINE o == own[t]
           found == {p \in 1 .. t - 1 : src[p] \in kinds /\ Match(p) > t}
<1>1. Leaves(src, own, o, t)
  BY WholeIs DEF TokenOK
<1>2. /\ o \in 1 .. t - 1 /\ src[o] \in Jumpable /\ ~ Shut(src, own, o, t - 1)
      /\ \A p \in o + 1 .. t - 1 : src[p] \in Jumpable => Shut(src, own, p, t - 1)
      /\ src[t] = "continue" => src[o] \in {"while", "for"}
  BY <1>1 DEF Leaves
<1> HIDE DEF o
<1>3. Len(src) \in Nat /\ \A p \in 1 .. t - 1 : p \in 1 .. Len(src)
  BY WholeIs
<1>4. t - 1 \in 0 .. Len(src) /\ o \in 1 .. Len(src)
  BY <1>2, <1>3
<1>5. \A p \in 1 .. t - 1 : src[p] \in Jumpable => src[p] \in Opener
  BY DEF Jumpable, Opener
<1>6. Match(o) \in o + 1 .. Len(src) /\ src[Match(o)] \in Closer
      /\ (Shut(src, own, o, t - 1) <=> Match(o) <= t - 1)
  BY <1>2, <1>4, <1>5, MatchOf
<1>7. Match(o) \in t + 1 .. Len(src)
  <2>1. Match(o) # t
    BY <1>6 DEF Closer
  <2>2. ~ (Match(o) <= t - 1)
    BY <1>2, <1>6
  <2> QED  BY <1>3, <1>6, <2>1, <2>2
<1>8. src[o] \in kinds
  BY <1>2 DEF Jumpable, Loop
<1>9. o \in found
  BY <1>2, <1>3, <1>7, <1>8
<1>10. ASSUME NEW p \in found  PROVE p <= o
  <2>1. p \in 1 .. t - 1 /\ src[p] \in Jumpable /\ Match(p) > t
    BY DEF Jumpable
  <2>2. ASSUME p > o  PROVE FALSE
    <3>1. p \in o + 1 .. t - 1 /\ p \in 1 .. Len(src)
      BY <1>2, <1>3, <2>1, <2>2
    <3>2. Shut(src, own, p, t - 1)
      BY <1>2, <2>1, <3>1
    <3>3. Match(p) <= t - 1 /\ Match(p) \in p + 1 .. Len(src)
      BY <1>4, <1>5, <2>1, <3>1, <3>2, MatchOf
    <3> QED  BY <1>3, <2>1, <3>3
  <2> QED  BY <1>2, <1>3, <2>1, <2>2
<1>11. Around(t, kinds) = CHOOSE p \in found : \A m \in found : m <= p
  BY <1>9 DEF Around
<1> HIDE DEF found
<1>12. \A p \in found : p = o \/ ~ (\A m \in found : m <= p)
  <2>1. \A p \in found : p \in Nat
    BY DEF found
  <2>2. \A p, q \in Nat : p <= q /\ q <= p => p = q
    OBVIOUS
  <2> QED  BY <1>9, <1>10, <2>1, <2>2
<1>13. Around(t, kinds) = o
  BY <1>9, <1>10, <1>11, <1>12
<1> QED
  BY <1>2, <1>7, <1>13 DEF o

\* What kinds of tokens there are.
LEMMA Kinds ==
    ASSUME NEW kind \in Token
    PROVE  kind \in {"while", "do", "for", "if", "else", "switch", "case", "default", "end",
                     "run", "break", "continue", "return"}
BY DEF Token, Opener, Closer, Single, Loop

\* The equation of Enter has a solution: what it asks for is always further on.
LEMMA EnterSolves ==
    ASSUME NEW d, NEW own, Whole(d, own)
    PROVE  Enter = [t \in 1 .. Len(src) + 1 |->
                      IF t > Len(src) THEN Return0
                      ELSE CASE src[t] \in {"run", "return"} -> << t, src[t] >>
                             [] src[t] \in {"while", "if"}   -> << t, "cond" >>
                             [] src[t] = "for"               -> << t, "init" >>
                             [] src[t] = "switch"            -> << t, "value" >>
                             [] src[t] \in {"do", "case", "default"} -> Enter[t + 1]
                             [] src[t] = "break"    -> Enter[Match(Around(t, Loop \cup {"switch"})) + 1]
                             [] src[t] = "continue" -> Again(Around(t, Loop))
                             [] src[t] = "else"     -> Enter[Match(t) + 1]
                             [] OTHER               ->
                                  IF src[Owner(t)] \in Loop THEN Again(Owner(t)) ELSE Enter[t + 1]]
<1> DEFINE n == Len(src)
           Body(f, t) ==
                      IF t > n THEN Return0
                      ELSE CASE src[t] \in {"run", "return"} -> << t, src[t] >>
                             [] src[t] \in {"while", "if"}   -> << t, "cond" >>
                             [] src[t] = "for"               -> << t, "init" >>
                             [] src[t] = "switch"            -> << t, "value" >>
                             [] src[t] \in {"do", "case", "default"} -> f[t + 1]
                             [] src[t] = "break"    -> f[Match(Around(t, Loop \cup {"switch"})) + 1]
                             [] src[t] = "continue" -> Again(Around(t, Loop))
                             [] src[t] = "else"     -> f[Match(t) + 1]
                             [] OTHER               ->
                                  IF src[Owner(t)] \in Loop THEN Again(Owner(t)) ELSE f[t + 1]
           R    == {t \in 1 .. n : \/ src[t] \in {"do", "case", "default", "break", "else"}
                                   \/ src[t] = "end" /\ src[Owner(t)] \notin Loop}
           next == [t \in 1 .. n + 1 |->
                      IF src[t] = "break" THEN Match(Around(t, Loop \cup {"switch"})) + 1
                      ELSE IF src[t] = "else" THEN Match(t) + 1 ELSE t + 1]
           val  == [t \in 1 .. n + 1 |->
                      IF t > n THEN Return0
                      ELSE IF src[t] \in {"run", "return"} THEN << t, src[t] >>
                      ELSE IF src[t] \in {"while", "if"} THEN << t, "cond" >>
                      ELSE IF src[t] = "for" THEN << t, "init" >>
                      ELSE IF src[t] = "switch" THEN << t, "value" >>
                      ELSE IF src[t] = "continue" THEN Again(Around(t, Loop)) ELSE Again(Owner(t))]
<1>1. n \in Nat /\ n = Len(src)
  BY WholeIs
<1>2. \A t \in 1 .. n : src[t] \in Token
  BY WholeIs
<1> HIDE DEF n
<1>3. ASSUME NEW t \in 1 .. n + 1, t \in R
      PROVE  next[t] \in t + 1 .. n + 1
  <2>1. t \in 1 .. n
    BY <1>3 DEF R
  <2>2. CASE src[t] = "break"
    <3>1. Match(Around(t, Loop \cup {"switch"})) \in t + 1 .. n
      BY <1>1, <2>1, <2>2, AroundIs
    <3> QED  BY <1>1, <2>2, <3>1
  <2>3. CASE src[t] = "else"
    <3>1. src[t] \in Opener
      BY <2>3 DEF Opener
    <3>2. Match(t) \in t + 1 .. n
      BY <1>1, <2>1, <3>1, MatchOf
    <3> QED  BY <1>1, <2>3, <3>2
  <2>4. CASE src[t] \notin {"break", "else"}
    BY <1>1, <2>1, <2>4
  <2> QED  BY <2>2, <2>3, <2>4
<1>4. ASSUME NEW f, NEW t \in 1 .. n + 1
      PROVE  Body(f, t) = IF t \in R THEN f[next[t]] ELSE val[t]
  <2>1. CASE t = n + 1
    <3>1. t > n /\ t \notin 1 .. n
      BY <1>1, <2>1
    <3> QED  BY <3>1
  <2>2. CASE t \in 1 .. n
    <3>1. ~ (t > n)
      BY <1>1, <2>2
    <3>2. src[t] \in {"while", "do", "for", "if", "else", "switch", "case", "default", "end",
                      "run", "break", "continue", "return"}
      BY <1>2, <2>2, Kinds
    <3>3. CASE src[t] \in {"while", "for", "if", "switch", "run", "return", "continue"}
      <4>1. t \notin R
        BY <3>3
      <4>2. Body(f, t) = val[t]
        <5> HIDE DEF R, next
        <5> QED  BY <3>1, <3>3
      <4> HIDE DEF R, next, val, Body
      <4> QED  BY <4>1, <4>2
    <3>4. CASE src[t] \in {"do", "case", "default", "break", "else"}
      <4>1. t \in R
        BY <2>2, <3>4
      <4>2. Body(f, t) = f[next[t]]
        <5> HIDE DEF R, val
        <5> QED  BY <3>1, <3>4
      <4> HIDE DEF R, next, val, Body
      <4> QED  BY <4>1, <4>2
    <3>5. CASE src[t] = "end" /\ src[Owner(t)] \in Loop
      <4>1. t \notin R
        BY <3>5
      <4>2. Body(f, t) = val[t]
        <5> HIDE DEF R, next
        <5> QED  BY <3>1, <3>5
      <4> HIDE DEF R, next, val, Body
      <4> QED  BY <4>1, <4>2
    <3>6. CASE src[t] = "end" /\ src[Owner(t)] \notin Loop
      <4>1. t \in R
        BY <2>2, <3>6
      <4>2. Body(f, t) = f[next[t]]
        <5> HIDE DEF R, val
        <5> QED  BY <3>1, <3>6
      <4> HIDE DEF R, next, val, Body
      <4> QED  BY <4>1, <4>2
    <3> HIDE DEF R, next, val, Body
    <3> QED  BY <3>2, <3>3, <3>4, <3>5, <3>6
  <2> HIDE DEF R, next, val, Body
  <2> QED  BY <1>1, <2>1, <2>2, Upto
<1>5. Enter = CHOOSE f : f = [t \in 1 .. n + 1 |-> Body(f, t)]
  BY DEF Enter, n
<1> HIDE DEF R, next, val, Body
<1>6. PICK g : Solves(g, n + 1, R, next, val)
  <2>1. n + 1 \in Nat
    BY <1>1
  <2>2. \A t \in 1 .. n + 1 : t \in R => next[t] \in t + 1 .. n + 1
    BY <1>3
  <2> QED  BY <2>1, <2>2, Chain
<1>7. g = [t \in 1 .. n + 1 |-> Body(g, t)]
  BY <1>4, <1>6 DEF Solves
<1>8. Enter = [t \in 1 .. n + 1 |-> Body(Enter, t)]
  BY <1>5, <1>7
<1> QED
  BY <1>8 DEF Body, n

\* Where execution comes to at each kind of token.
LEMMA EnterIs ==
    ASSUME NEW d, NEW own, Whole(d, own), NEW t \in 1 .. Len(src)
    PROVE  /\ src[t] \in {"run", "return"} => Enter[t] = << t, src[t] >>
           /\ src[t] \in {"while", "if"} => Enter[t] = << t, "cond" >>
           /\ src[t] = "for" => Enter[t] = << t, "init" >>
           /\ src[t] = "switch" => Enter[t] = << t, "value" >>
           /\ src[t] \in {"do", "case", "default"} => Enter[t] = Enter[t + 1]
           /\ src[t] = "break" => Enter[t] = Enter[Match(own[t]) + 1]
           /\ src[t] = "continue" => Enter[t] = Again(own[t])
           /\ src[t] = "else" => Enter[t] = Enter[Match(t) + 1]
           /\ src[t] = "end" =>
                 Enter[t] = IF src[own[t]] \in Loop THEN Again(own[t]) ELSE Enter[t + 1]
<1>1. Len(src) \in Nat /\ t \in 1 .. Len(src) + 1 /\ ~ (t > Len(src))
  <2>1. Len(src) \in Nat
    BY WholeIs
  <2> QED  BY <2>1
<1>2. Enter[t] =
         CASE src[t] \in {"run", "return"} -> << t, src[t] >>
           [] src[t] \in {"while", "if"}   -> << t, "cond" >>
           [] src[t] = "for"               -> << t, "init" >>
           [] src[t] = "switch"            -> << t, "value" >>
           [] src[t] \in {"do", "case", "default"} -> Enter[t + 1]
           [] src[t] = "break"    -> Enter[Match(Around(t, Loop \cup {"switch"})) + 1]
           [] src[t] = "continue" -> Again(Around(t, Loop))
           [] src[t] = "else"     -> Enter[Match(t) + 1]
           [] OTHER               ->
                IF src[Owner(t)] \in Loop THEN Again(Owner(t)) ELSE Enter[t + 1]
  BY <1>1, EnterSolves
<1>3. /\ src[t] = "break" => Around(t, Loop \cup {"switch"}) = own[t]
      /\ src[t] = "continue" => Around(t, Loop) = own[t]
  BY AroundIs
<1>4. src[t] = "end" => Owner(t) = own[t]
  BY OwnerIs DEF Closer
<1>5. /\ src[t] \in {"run", "return"} => Enter[t] = << t, src[t] >>
      /\ src[t] \in {"while", "if"} => Enter[t] = << t, "cond" >>
      /\ src[t] = "for" => Enter[t] = << t, "init" >>
      /\ src[t] = "switch" => Enter[t] = << t, "value" >>
  BY <1>2
<1>6. /\ src[t] \in {"do", "case", "default"} => Enter[t] = Enter[t + 1]
      /\ src[t] = "else" => Enter[t] = Enter[Match(t) + 1]
  BY <1>2
<1>7. /\ src[t] = "break" => Enter[t] = Enter[Match(own[t]) + 1]
      /\ src[t] = "continue" => Enter[t] = Again(own[t])
  BY <1>2, <1>3
<1>8. src[t] = "end" =>
         Enter[t] = IF src[own[t]] \in Loop THEN Again(own[t]) ELSE Enter[t + 1]
  BY <1>2, <1>4
<1> QED
  BY <1>5, <1>6, <1>7, <1>8

\* Past the last token the function ends.
LEMMA EnterEnd ==
    ASSUME NEW d, NEW own, Whole(d, own)
    PROVE  Enter[Len(src) + 1] = Return0
<1>1. Len(src) \in Nat /\ Len(src) + 1 \in 1 .. Len(src) + 1 /\ Len(src) + 1 > Len(src)
  <2>1. Len(src) \in Nat
    BY WholeIs
  <2> QED  BY <2>1
<1> QED
  BY <1>1, EnterSolves

\* What follows each event.
LEMMA AfterIs ==
    ASSUME NEW t, NEW holds \in BOOLEAN
    PROVE  /\ After(<< t, "return" >>, holds) = Return0
           /\ After(<< t, "run" >>, holds) = Enter[t + 1]
           /\ After(<< t, "value" >>, holds) = Test(t + 1)
           /\ After(<< t, "init" >>, holds) = << t, "cond" >>
           /\ After(<< t, "step" >>, holds) = << t, "cond" >>
           /\ src[t] \notin {"end", "case"} =>
                 After(<< t, "cond" >>, holds) = IF holds THEN Enter[t + 1] ELSE Enter[Match(t) + 1]
           /\ src[t] = "case" =>
                 After(<< t, "cond" >>, holds) = IF holds THEN Enter[t + 1] ELSE Test(Match(t) + 1)
           /\ src[t] = "end" =>
                 After(<< t, "cond" >>, holds) = IF holds THEN Enter[Owner(t) + 1] ELSE Enter[t + 1]
<1>1. After(<< t, "return" >>, holds) = Return0
  BY DEF After
<1>2. After(<< t, "run" >>, holds) = Enter[t + 1]
  BY DEF After
<1>3. After(<< t, "value" >>, holds) = Test(t + 1)
  BY DEF After
<1>4. After(<< t, "init" >>, holds) = << t, "cond" >>
  BY DEF After
<1>5. After(<< t, "step" >>, holds) = << t, "cond" >>
  BY DEF After
<1>6. src[t] \notin {"end", "case"} =>
         After(<< t, "cond" >>, holds) = IF holds THEN Enter[t + 1] ELSE Enter[Match(t) + 1]
  BY DEF After
<1>7. src[t] = "case" =>
         After(<< t, "cond" >>, holds) = IF holds THEN Enter[t + 1] ELSE Test(Match(t) + 1)
  BY DEF After
<1>8. src[t] = "end" =>
         After(<< t, "cond" >>, holds) = IF holds THEN Enter[Owner(t) + 1] ELSE Enter[t + 1]
  BY DEF After
<1> QED
  BY <1>1, <1>2, <1>3, <1>4, <1>5, <1>6, <1>7, <1>8

-----------------------------------------------------------------------------
(* What each instruction stands for *)

\* The event that is next when the walk comes to token t.
First(own, t) ==
    IF KindAt(src, t) = "case" THEN << t, "cond" >>
    ELSE IF KindAt(src, t) = "end" /\ src[own[t]] = "case" THEN Test(t + 1) ELSE Enter[t]

\* The events that are next at the instructions of token t.
EndValues(kind, e) ==
    CASE kind \in {"while", "for"}   -> << Enter[e], Enter[e + 1] >>
      [] kind = "do"                 -> << << e, "cond" >>, Enter[e + 1] >>
      [] kind = "if"                 -> << Enter[e + 1], Enter[e + 1], Enter[e + 1] >>
      [] kind \in {"else", "switch"} -> << Enter[e + 1] >>
      [] kind = "case"               -> << Test(e + 1) >>
      [] OTHER                       -> << >>

ValuesOf(kind, m, t) ==
    CASE kind = "while"    -> << << t, "cond" >>, << t, "cond" >> >>
      [] kind = "do"       -> << Enter[t + 1] >>
      [] kind = "for"      -> << << t, "init" >>, << t, "cond" >>, << t, "cond" >>, Enter[t + 1],
                                 << t, "step" >>, << t, "step" >>, << t, "cond" >>, Enter[t + 1] >>
      [] kind = "if"       -> << << t, "cond" >> >>
      [] kind = "else"     -> << Enter[t], Enter[t + 1] >>
      [] kind = "switch"   -> << << t, "value" >> >>
      [] kind = "case"     -> << << t, "cond" >> >>
      [] kind = "run"      -> << << t, "run" >> >>
      [] kind = "return"   -> << << t, "return" >>, Return0 >>
      [] kind \in {"break", "continue"} -> << Enter[t] >>
      [] kind = "end"      -> EndValues(m, t)
      [] kind = "exit"     -> << Return0, Return0 >>
      [] OTHER             -> << >>

Values(own, t) == ValuesOf(KindAt(src, t), KindAt(src, own[t]), t)

\* The event that is next at label j of statement o, 0 for the whole function.
Ending(o) == IF src[Match(o)] = "else" THEN Match(Match(o)) ELSE Match(o)

Meaning(o, j) ==
    CASE KindAt(src, o) = "while"  -> IF j = 0 THEN << o, "cond" >> ELSE Enter[Match(o) + 1]
      [] KindAt(src, o) = "do"     -> IF j = 0 THEN Enter[o + 1] ELSE Enter[Match(o) + 1]
      [] KindAt(src, o) = "for"    -> IF j = 0 THEN << o, "cond" >>
                                      ELSE IF j = 1 THEN Enter[Match(o) + 1]
                                      ELSE IF j = 2 THEN Enter[o + 1] ELSE << o, "step" >>
      [] KindAt(src, o) = "if"     -> IF j = 0 THEN Enter[Match(o) + 1] ELSE Enter[Ending(o) + 1]
      [] KindAt(src, o) = "switch" -> Enter[Match(o) + 1]
      [] KindAt(src, o) = "case"   -> Test(Match(o) + 1)
      [] OTHER                     -> Return0

Means(role, l) == Meaning(role[l][1], role[l][2])

\* The branch op is taken when its condition holds or not.
Taken(op, holds) == op = (IF holds THEN "jt" ELSE "jf") \/ (op = "jne" /\ ~ holds)

\* At an instruction event v is next, and event nx at the instruction after it.
RightAt(ins, v, nx, role) ==
    /\ ins.op = "label" => v = nx /\ v = Means(role, ins.to)
    /\ ins.op = "jmp" => v = Means(role, ins.to)
    /\ ins.ev = None <=> ins.op \in {"label", "jmp"}
    /\ ins.ev # None =>
          /\ ins.ev = v
          /\ \A holds \in BOOLEAN :
                After(v, holds) = IF Taken(ins.op, holds) THEN Means(role, ins.to) ELSE nx

RightSeq(c, v, nx, role) ==
    /\ Len(v) = Len(c)
    /\ \A i \in 1 .. Len(c) :
          RightAt(c[i], v[i], IF i < Len(c) THEN v[i + 1] ELSE nx, role)

\* When an instruction of each kind is right.
LEMMA RightInstr ==
    ASSUME NEW nx, NEW role
    PROVE  /\ \A l : nx = Means(role, l) => RightAt(Label(l), nx, nx, role)
           /\ \A l, v : v = Means(role, l) => RightAt(Jmp(l), v, nx, role)
           /\ \A t \in Nat : \A part \in {"init", "step", "value", "run", "return"} :
                 (\A holds \in BOOLEAN : After(<< t, part >>, holds) = nx)
                 => RightAt(Do(t, part), << t, part >>, nx, role)
           /\ \A l : \A t \in Nat : \A op \in {"jf", "jne"} :
                 (\A holds \in BOOLEAN :
                     After(<< t, "cond" >>, holds) = IF holds THEN nx ELSE Means(role, l))
                 => RightAt(Branch(op, t, l), << t, "cond" >>, nx, role)
           /\ \A l : \A t \in Nat :
                 (\A holds \in BOOLEAN :
                     After(<< t, "cond" >>, holds) = IF holds THEN Means(role, l) ELSE nx)
                 => RightAt(Branch("jt", t, l), << t, "cond" >>, nx, role)
<1>0. \A t \in Nat : \A part \in {"init", "step", "value", "run", "return", "cond"} : << t, part >> # None
  <2>1. None \notin Nat \X Part
    BY ConstAssumption, Zenon
  <2> QED  BY <2>1 DEF Part
<1>1. \A l : nx = Means(role, l) => RightAt(Label(l), nx, nx, role)
  BY DEF RightAt, Label
<1>2. \A l, v : v = Means(role, l) => RightAt(Jmp(l), v, nx, role)
  BY DEF RightAt, Jmp
<1>3. \A t \in Nat : \A part \in {"init", "step", "value", "run", "return"} :
         (\A holds \in BOOLEAN : After(<< t, part >>, holds) = nx)
         => RightAt(Do(t, part), << t, part >>, nx, role)
  BY <1>0 DEF RightAt, Do, Taken
<1>4. ASSUME NEW l, NEW t \in Nat, NEW op \in {"jf", "jne"},
             \A holds \in BOOLEAN :
                After(<< t, "cond" >>, holds) = IF holds THEN nx ELSE Means(role, l)
      PROVE  RightAt(Branch(op, t, l), << t, "cond" >>, nx, role)
  <2>1. \A holds \in BOOLEAN : Taken(op, holds) <=> ~ holds
    BY DEF Taken
  <2>2. \A holds \in BOOLEAN :
           After(<< t, "cond" >>, holds) = IF Taken(op, holds) THEN Means(role, l) ELSE nx
    BY <1>4, <2>1
  <2> QED  BY <1>0, <2>2 DEF RightAt, Branch
<1>5. ASSUME NEW l, NEW t \in Nat,
             \A holds \in BOOLEAN :
                After(<< t, "cond" >>, holds) = IF holds THEN Means(role, l) ELSE nx
      PROVE  RightAt(Branch("jt", t, l), << t, "cond" >>, nx, role)
  <2>1. \A holds \in BOOLEAN : Taken("jt", holds) <=> holds
    BY DEF Taken
  <2>2. \A holds \in BOOLEAN :
           After(<< t, "cond" >>, holds) = IF Taken("jt", holds) THEN Means(role, l) ELSE nx
    BY <1>5, <2>1
  <2> QED  BY <1>0, <2>2 DEF RightAt, Branch
<1> QED
  BY <1>1, <1>2, <1>3, <1>4, <1>5

\* What comes first after token t.
LEMMA FirstNext ==
    ASSUME NEW d, NEW own, Whole(d, own), NEW t \in 1 .. Len(src)
    PROVE  /\ src[t] = "switch" \/ (src[t] = "end" /\ src[own[t]] = "case")
              => First(own, t + 1) = Test(t + 1)
           /\ /\ src[t] \notin {"switch", "break", "continue", "return"}
              /\ ~ (src[t] = "end" /\ src[own[t]] = "case")
              => First(own, t + 1) = Enter[t + 1]
<1>1. Len(src) \in Nat /\ DOMAIN src = 1 .. Len(src)
  BY WholeIs
<1>2. Forked(src, own, t) <=> src[t] = "switch" \/ (src[t] = "end" /\ src[own[t]] = "case")
  BY <1>1 DEF Forked
<1>3. CASE t = Len(src)
  <2>1. ~ Forked(src, own, t)
    BY <1>3 DEF Whole
  <2>2. KindAt(src, t + 1) = "exit"
    BY <1>1, <1>3 DEF KindAt
  <2>3. First(own, t + 1) = Enter[t + 1]
    BY <2>2 DEF First
  <2> QED  BY <1>2, <2>1, <2>3
<1>4. CASE t # Len(src)
  <2> DEFINE u == t + 1
  <2>1. u \in 1 .. Len(src) /\ u - 1 = t
    <3>1. \A n \in Nat : \A k \in 1 .. n : k # n => k + 1 \in 1 .. n /\ (k + 1) - 1 = k
      OBVIOUS
    <3> QED  BY <1>1, <1>4, <3>1
  <2> HIDE DEF u
  <2>2. Follows(src, own, u) /\ KindAt(src, u) = src[u]
    BY <1>1, <2>1, WholeIs DEF TokenOK, KindAt
  <2>3. /\ src[u] \in {"case", "default"} => Forked(src, own, t)
        /\ Forked(src, own, t) =>
              src[u] \in {"case", "default"} \/ (src[u] = "end" /\ src[own[u]] = "switch")
        /\ src[u] = "end" /\ src[own[u]] = "case" => src[t] \in {"break", "continue", "return"}
    BY <2>1, <2>2 DEF Follows
  <2>4. ASSUME Forked(src, own, t)
        PROVE  First(own, u) = Test(u)
    <3>1. CASE src[u] = "case"
      BY <2>2, <3>1 DEF First, Test
    <3>2. CASE src[u] # "case"
      <4>1. ~ (src[u] = "end" /\ src[own[u]] = "case")
        BY <2>3, <2>4, <3>2
      <4>2. First(own, u) = Enter[u]
        BY <2>2, <3>2, <4>1 DEF First
      <4>3. Test(u) = Enter[u + 1]
        BY <3>2 DEF Test
      <4>4. Enter[u] = Enter[u + 1]
        <5>1. CASE src[u] = "default"
          BY <2>1, <5>1, EnterIs
        <5>2. CASE src[u] # "default"
          <6>1. src[u] = "end" /\ src[own[u]] = "switch"
            BY <2>3, <2>4, <3>2, <5>2
          <6>2. src[own[u]] \notin Loop
            BY <6>1 DEF Loop
          <6> QED  BY <2>1, <6>1, <6>2, EnterIs
        <5> QED  BY <5>1, <5>2
      <4> QED  BY <4>2, <4>3, <4>4
    <3> QED  BY <3>1, <3>2
  <2>5. ASSUME ~ Forked(src, own, t), src[t] \notin {"break", "continue", "return"}
        PROVE  First(own, u) = Enter[u]
    BY <2>2, <2>3, <2>5 DEF First
  <2>6. ASSUME src[t] = "switch" \/ (src[t] = "end" /\ src[own[t]] = "case")
        PROVE  First(own, t + 1) = Test(t + 1)
    BY <1>2, <2>4, <2>6 DEF u
  <2>7. ASSUME src[t] \notin {"switch", "break", "continue", "return"},
               ~ (src[t] = "end" /\ src[own[t]] = "case")
        PROVE  First(own, t + 1) = Enter[t + 1]
    BY <1>2, <2>5, <2>7 DEF u
  <2> QED  BY <2>6, <2>7
<1> QED
  BY <1>3, <1>4

\* What the labels of a statement stand for.
LEMMA LabelMeans ==
    ASSUME NEW d, NEW own, Whole(d, own), NEW base, NEW role, Labelled(src, own, base, role, labels),
           NEW t \in 1 .. Len(src), src[t] \in Opener \ {"else"}, NEW j \in 0 .. Own(src[t]) - 1
    PROVE  Means(role, base[t] + j) = Meaning(t, j)
<1>1. role[base[t] + j] = << t, j >>
  BY DEF Labelled
<1> QED
  BY <1>1 DEF Means

\* What the labels of each kind of statement stand for; an else has those of its if.
LEMMA LabelsAre ==
    ASSUME NEW d, NEW own, Whole(d, own), NEW base, NEW role, Labelled(src, own, base, role, labels),
           NEW t \in 1 .. Len(src)
    PROVE  /\ src[t] = "while" => /\ Means(role, base[t]) = << t, "cond" >>
                                  /\ Means(role, base[t] + 1) = Enter[Match(t) + 1]
           /\ src[t] = "do" => /\ Means(role, base[t]) = Enter[t + 1]
                               /\ Means(role, base[t] + 1) = Enter[Match(t) + 1]
           /\ src[t] = "for" => /\ Means(role, base[t]) = << t, "cond" >>
                                /\ Means(role, base[t] + 1) = Enter[Match(t) + 1]
                                /\ Means(role, base[t] + 2) = Enter[t + 1]
                                /\ Means(role, base[t] + 3) = << t, "step" >>
           /\ src[t] = "if" => /\ Means(role, base[t]) = Enter[Match(t) + 1]
                               /\ Means(role, base[t] + 1) = Enter[Ending(t) + 1]
           /\ src[t] = "else" => /\ Means(role, base[t]) = Enter[t + 1]
                                 /\ Means(role, base[t] + 1) = Enter[Match(t) + 1]
           /\ src[t] = "switch" => Means(role, base[t]) = Enter[Match(t) + 1]
           /\ src[t] = "case" => Means(role, base[t]) = Test(Match(t) + 1)
<1>1. /\ \A k \in 1 .. Len(src) : KindAt(src, k) = src[k]
      /\ base \in [Nat -> Nat]
  BY WholeIs DEF KindAt, Labelled
<1>2. \A k \in 1 .. Len(src) : base[k] + 0 = base[k]
  <2>1. \A k \in 1 .. Len(src) : k \in Nat
    OBVIOUS
  <2> QED  BY <1>1, <2>1
<1>3. ASSUME NEW k \in 1 .. Len(src), src[k] = "while"
      PROVE  /\ Means(role, base[k]) = << k, "cond" >>
             /\ Means(role, base[k] + 1) = Enter[Match(k) + 1]
  <2>1. src[k] \in Opener \ {"else"} /\ 0 \in 0 .. Own(src[k]) - 1 /\ 1 \in 0 .. Own(src[k]) - 1
    BY <1>3 DEF Opener, Loop, Own
  <2>2. Means(role, base[k] + 0) = Meaning(k, 0) /\ Means(role, base[k] + 1) = Meaning(k, 1)
    BY <2>1, LabelMeans
  <2>3. \A j \in Nat : Meaning(k, j) = IF j = 0 THEN << k, "cond" >> ELSE Enter[Match(k) + 1]
    BY <1>1, <1>3 DEF Meaning
  <2>4. Meaning(k, 0) = << k, "cond" >> /\ Meaning(k, 1) = Enter[Match(k) + 1]
    BY <2>3
  <2> QED  BY <1>2, <2>2, <2>4
<1>4. ASSUME NEW k \in 1 .. Len(src), src[k] = "do"
      PROVE  /\ Means(role, base[k]) = Enter[k + 1]
             /\ Means(role, base[k] + 1) = Enter[Match(k) + 1]
  <2>1. src[k] \in Opener \ {"else"} /\ 0 \in 0 .. Own(src[k]) - 1 /\ 1 \in 0 .. Own(src[k]) - 1
    BY <1>4 DEF Opener, Loop, Own
  <2>2. Means(role, base[k] + 0) = Meaning(k, 0) /\ Means(role, base[k] + 1) = Meaning(k, 1)
    BY <2>1, LabelMeans
  <2>3. \A j \in Nat : Meaning(k, j) = IF j = 0 THEN Enter[k + 1] ELSE Enter[Match(k) + 1]
    BY <1>1, <1>4 DEF Meaning
  <2>4. Meaning(k, 0) = Enter[k + 1] /\ Meaning(k, 1) = Enter[Match(k) + 1]
    BY <2>3
  <2> QED  BY <1>2, <2>2, <2>4
<1>5. ASSUME NEW k \in 1 .. Len(src), src[k] = "for"
      PROVE  /\ Means(role, base[k]) = << k, "cond" >>
             /\ Means(role, base[k] + 1) = Enter[Match(k) + 1]
             /\ Means(role, base[k] + 2) = Enter[k + 1]
             /\ Means(role, base[k] + 3) = << k, "step" >>
  <2>1. src[k] \in Opener \ {"else"} /\ 0 \in 0 .. Own(src[k]) - 1 /\ 1 \in 0 .. Own(src[k]) - 1
        /\ 2 \in 0 .. Own(src[k]) - 1 /\ 3 \in 0 .. Own(src[k]) - 1
    BY <1>5 DEF Opener, Loop, Own
  <2>2. Means(role, base[k] + 0) = Meaning(k, 0) /\ Means(role, base[k] + 1) = Meaning(k, 1)
        /\ Means(role, base[k] + 2) = Meaning(k, 2) /\ Means(role, base[k] + 3) = Meaning(k, 3)
    BY <2>1, LabelMeans
  <2>3. \A j \in Nat : Meaning(k, j) = IF j = 0 THEN << k, "cond" >>
                                       ELSE IF j = 1 THEN Enter[Match(k) + 1]
                                       ELSE IF j = 2 THEN Enter[k + 1] ELSE << k, "step" >>
    BY <1>1, <1>5 DEF Meaning
  <2>4. Meaning(k, 0) = << k, "cond" >> /\ Meaning(k, 1) = Enter[Match(k) + 1]
        /\ Meaning(k, 2) = Enter[k + 1] /\ Meaning(k, 3) = << k, "step" >>
    BY <2>3
  <2> QED  BY <1>2, <2>2, <2>4
<1>6. ASSUME NEW k \in 1 .. Len(src), src[k] = "if"
      PROVE  /\ Means(role, base[k]) = Enter[Match(k) + 1]
             /\ Means(role, base[k] + 1) = Enter[Ending(k) + 1]
  <2>1. src[k] \in Opener \ {"else"} /\ 0 \in 0 .. Own(src[k]) - 1 /\ 1 \in 0 .. Own(src[k]) - 1
    BY <1>6 DEF Opener, Loop, Own
  <2>2. Means(role, base[k] + 0) = Meaning(k, 0) /\ Means(role, base[k] + 1) = Meaning(k, 1)
    BY <2>1, LabelMeans
  <2>3. \A j \in Nat : Meaning(k, j) = IF j = 0 THEN Enter[Match(k) + 1] ELSE Enter[Ending(k) + 1]
    BY <1>1, <1>6 DEF Meaning
  <2>4. Meaning(k, 0) = Enter[Match(k) + 1] /\ Meaning(k, 1) = Enter[Ending(k) + 1]
    BY <2>3
  <2> QED  BY <1>2, <2>2, <2>4
<1>7. ASSUME src[t] = "else"
      PROVE  /\ Means(role, base[t]) = Enter[t + 1]
             /\ Means(role, base[t] + 1) = Enter[Match(t) + 1]
  <2>1. src[t] \in Closer /\ src[t] \in Opener
    BY <1>7 DEF Closer, Opener
  <2>2. own[t] \in 1 .. t - 1 /\ src[own[t]] = "if"
    BY <1>7, <2>1, WholeIs DEF TokenOK, Closes
  <2>3. own[t] \in 1 .. Len(src) /\ Match(own[t]) = t /\ base[t] = base[own[t]]
    <3>1. Len(src) \in Nat
      BY WholeIs
    <3>2. own[t] \in 1 .. Len(src)
      BY <2>2, <3>1
    <3> QED  BY <1>7, <2>1, <3>2, MatchIs DEF Labelled
  <2>4. Ending(own[t]) = Match(t)
    BY <1>7, <2>3 DEF Ending
  <2> QED  BY <1>6, <2>2, <2>3, <2>4
<1>8. ASSUME src[t] = "switch"
      PROVE  Means(role, base[t]) = Enter[Match(t) + 1]
  <2>1. src[t] \in Opener \ {"else"} /\ 0 \in 0 .. Own(src[t]) - 1
    BY <1>8 DEF Opener, Loop, Own
  <2>2. Means(role, base[t] + 0) = Meaning(t, 0)
    BY <2>1, LabelMeans
  <2> QED  BY <1>1, <1>2, <1>8, <2>2 DEF Meaning
<1>9. ASSUME src[t] = "case"
      PROVE  Means(role, base[t]) = Test(Match(t) + 1)
  <2>1. src[t] \in Opener \ {"else"} /\ 0 \in 0 .. Own(src[t]) - 1
    BY <1>9 DEF Opener, Loop, Own
  <2>2. Means(role, base[t] + 0) = Meaning(t, 0)
    BY <2>1, LabelMeans
  <2> QED  BY <1>1, <1>2, <1>9, <2>2 DEF Meaning
<1> QED
  BY <1>3, <1>4, <1>5, <1>6, <1>7, <1>8, <1>9

\* The return point stands for the end of the function.
LEMMA ReturnMeans ==
    ASSUME NEW own, NEW base, NEW role, NEW l, Labelled(src, own, base, role, l), src \in Seq(Token)
    PROVE  Means(role, ReturnPoint) = Return0
<1>1. role[0] = << 0, 0 >>
  BY DEF Labelled
<1>2. KindAt(src, 0) = "exit"
  BY LenProperties DEF KindAt
<1> QED
  BY <1>1, <1>2 DEF Means, Meaning, ReturnPoint

\* Short pieces of code.
LEMMA RightShort ==
    ASSUME NEW nx, NEW role
    PROVE  /\ RightSeq(<< >>, << >>, nx, role)
           /\ \A a, v : RightAt(a, v, nx, role) => RightSeq(<< a >>, << v >>, nx, role)
           /\ \A a, b, v, w : RightAt(a, v, w, role) /\ RightAt(b, w, nx, role)
                              => RightSeq(<< a, b >>, << v, w >>, nx, role)
           /\ \A a, b, c, v, w, z :
                 RightAt(a, v, w, role) /\ RightAt(b, w, z, role) /\ RightAt(c, z, nx, role)
                 => RightSeq(<< a, b, c >>, << v, w, z >>, nx, role)
<1> HIDE DEF RightAt
<1>1. RightSeq(<< >>, << >>, nx, role)
  BY DEF RightSeq
<1>2. ASSUME NEW a, NEW v, RightAt(a, v, nx, role)
      PROVE  RightSeq(<< a >>, << v >>, nx, role)
  <2>1. \A i \in 1 .. 1 : i = 1 /\ ~ (i < 1)
    OBVIOUS
  <2> QED  BY <1>2, <2>1 DEF RightSeq
<1>3. ASSUME NEW a, NEW b, NEW v, NEW w, RightAt(a, v, w, role), RightAt(b, w, nx, role)
      PROVE  RightSeq(<< a, b >>, << v, w >>, nx, role)
  <2>1. \A i \in 1 .. 2 : i = 1 \/ i = 2
    OBVIOUS
  <2> QED  BY <1>3, <2>1 DEF RightSeq
<1>4. ASSUME NEW a, NEW b, NEW c, NEW v, NEW w, NEW z,
             RightAt(a, v, w, role), RightAt(b, w, z, role), RightAt(c, z, nx, role)
      PROVE  RightSeq(<< a, b, c >>, << v, w, z >>, nx, role)
  <2>1. \A i \in 1 .. 3 : i = 1 \/ i = 2 \/ i = 3
    OBVIOUS
  <2> QED  BY <1>4, <2>1 DEF RightSeq
<1> QED
  BY <1>1, <1>2, <1>3, <1>4

\* The code of each token is right: what is next at each instruction, in src, is
\* what the instruction does or where it goes.
RightToken(own, base, role, t) ==
    RightSeq(CodeAt(src, own, base, t), Values(own, t), First(own, t + 1), role)

\* The code at the beginning of a loop is right.
LEMMA LoopsRight ==
    ASSUME NEW d, NEW own, Whole(d, own), NEW base, NEW role, Labelled(src, own, base, role, labels),
           NEW t \in 1 .. Len(src), src[t] \in {"while", "do", "for"}
    PROVE  RightToken(own, base, role, t)
<1> DEFINE b  == base[t]
           nx == First(own, t + 1)
           k  == << t, "cond" >>
<1>1. t \in Nat /\ KindAt(src, t) = src[t]
  BY WholeIs DEF KindAt
<1>2. nx = Enter[t + 1]
  BY FirstNext
<1> HIDE DEF nx
<1>3. CASE src[t] = "while"
  <2>1. /\ CodeAt(src, own, base, t) = << Label(b), Branch("jf", t, b + 1) >>
        /\ Values(own, t) = << k, k >>
    BY <1>1, <1>3 DEF CodeAt, TokenCode, Values, ValuesOf
  <2>2. Means(role, b) = k /\ Means(role, b + 1) = Enter[Match(t) + 1]
    BY <1>3, LabelsAre
  <2>3. \A holds \in BOOLEAN : After(k, holds) = IF holds THEN nx ELSE Means(role, b + 1)
    BY <1>2, <1>3, <2>2, AfterIs
  <2> HIDE DEF b, k
  <2>4. RightAt(Label(b), k, k, role)
    BY <2>2, RightInstr
  <2>5. RightAt(Branch("jf", t, b + 1), k, nx, role)
    BY <1>1, <2>3, RightInstr DEF k
  <2>6. RightSeq(<< Label(b), Branch("jf", t, b + 1) >>, << k, k >>, nx, role)
    BY <2>4, <2>5, RightShort
  <2> QED  BY <2>1, <2>6 DEF RightToken, nx
<1>4. CASE src[t] = "do"
  <2>1. /\ CodeAt(src, own, base, t) = << Label(b) >>
        /\ Values(own, t) = << Enter[t + 1] >>
    BY <1>1, <1>4 DEF CodeAt, TokenCode, Values, ValuesOf
  <2>2. Means(role, b) = nx
    BY <1>2, <1>4, LabelsAre
  <2> HIDE DEF b
  <2>3. RightAt(Label(b), nx, nx, role)
    BY <2>2, RightInstr
  <2>4. RightSeq(<< Label(b) >>, << nx >>, nx, role)
    BY <2>3, RightShort
  <2> QED  BY <1>2, <2>1, <2>4 DEF RightToken, nx
<1>5. CASE src[t] = "for"
  <2> DEFINE c == << Do(t, "init"), Label(b), Branch("jf", t, b + 1), Jmp(b + 2),
                     Label(b + 3), Do(t, "step"), Jmp(b), Label(b + 2) >>
             s == << t, "step" >>
             i == << t, "init" >>
             v == << i, k, k, nx, s, s, k, nx >>
  <2>1. CodeAt(src, own, base, t) = c /\ Values(own, t) = v
    BY <1>1, <1>2, <1>5 DEF CodeAt, TokenCode, Values, ValuesOf
  <2>2. /\ Means(role, b) = k /\ Means(role, b + 1) = Enter[Match(t) + 1]
        /\ Means(role, b + 2) = nx /\ Means(role, b + 3) = s
    BY <1>2, <1>5, LabelsAre
  <2>3. /\ \A holds \in BOOLEAN : After(k, holds) = IF holds THEN nx ELSE Means(role, b + 1)
        /\ \A holds \in BOOLEAN : After(i, holds) = k
        /\ \A holds \in BOOLEAN : After(s, holds) = k
    BY <1>2, <1>5, <2>2, AfterIs
  <2> HIDE DEF b, k, s, i
  <2>4. RightAt(Do(t, "init"), i, k, role)
    BY <1>1, <2>3, RightInstr DEF i
  <2>5. RightAt(Label(b), k, k, role)
    BY <2>2, RightInstr
  <2>6. RightAt(Branch("jf", t, b + 1), k, nx, role)
    BY <1>1, <2>3, RightInstr DEF k
  <2>7. RightAt(Jmp(b + 2), nx, s, role)
    BY <2>2, RightInstr
  <2>8. RightAt(Label(b + 3), s, s, role)
    BY <2>2, RightInstr
  <2>9. RightAt(Do(t, "step"), s, k, role)
    BY <1>1, <2>3, RightInstr DEF s
  <2>10. RightAt(Jmp(b), k, nx, role)
    BY <2>2, RightInstr
  <2>11. RightAt(Label(b + 2), nx, nx, role)
    BY <2>2, RightInstr
  <2>12. RightSeq(c, v, nx, role)
    <3> HIDE DEF RightAt, Label, Jmp, Branch, Do
    <3>1. Len(c) = 8 /\ Len(v) = 8
      OBVIOUS
    <3>2. /\ RightAt(c[1], v[1], v[2], role) /\ RightAt(c[2], v[2], v[3], role)
          /\ RightAt(c[3], v[3], v[4], role) /\ RightAt(c[4], v[4], v[5], role)
      BY <2>4, <2>5, <2>6, <2>7
    <3>3. /\ RightAt(c[5], v[5], v[6], role) /\ RightAt(c[6], v[6], v[7], role)
          /\ RightAt(c[7], v[7], v[8], role) /\ RightAt(c[8], v[8], nx, role)
      BY <2>8, <2>9, <2>10, <2>11
    <3> HIDE DEF c, v
    <3>4. ASSUME NEW m \in 1 .. 8
          PROVE  RightAt(c[m], v[m], IF m < 8 THEN v[m + 1] ELSE nx, role)
      <4>1. m \in {1, 2, 3, 4, 5, 6, 7, 8}
        OBVIOUS
      <4>2. CASE m \in {1, 2, 3, 4}
        BY <3>2, <4>2
      <4>3. CASE m \in {5, 6, 7, 8}
        BY <3>3, <4>3
      <4> QED  BY <4>1, <4>2, <4>3
    <3> QED  BY <3>1, <3>4 DEF RightSeq
  <2> QED  BY <2>1, <2>12 DEF RightToken, nx
<1> QED
  BY <1>3, <1>4, <1>5

\* The code at the beginning of a branch is right.
LEMMA BranchesRight ==
    ASSUME NEW d, NEW own, Whole(d, own), NEW base, NEW role, Labelled(src, own, base, role, labels),
           NEW t \in 1 .. Len(src), src[t] \in {"if", "else", "switch", "case", "default"}
    PROVE  RightToken(own, base, role, t)
<1> DEFINE b  == base[t]
           nx == First(own, t + 1)
           k  == << t, "cond" >>
<1>1. t \in Nat /\ KindAt(src, t) = src[t]
  BY WholeIs DEF KindAt
<1>2. nx = IF src[t] = "switch" THEN Test(t + 1) ELSE Enter[t + 1]
  BY FirstNext
<1> HIDE DEF nx
<1>3. CASE src[t] = "if"
  <2>1. /\ CodeAt(src, own, base, t) = << Branch("jf", t, b) >>
        /\ Values(own, t) = << k >>
    BY <1>1, <1>3 DEF CodeAt, TokenCode, Values, ValuesOf
  <2>2. \A holds \in BOOLEAN : After(k, holds) = IF holds THEN nx ELSE Means(role, b)
    <3>1. Means(role, b) = Enter[Match(t) + 1]
      BY <1>3, LabelsAre
    <3>2. nx = Enter[t + 1]
      BY <1>2, <1>3
    <3> QED  BY <1>3, <3>1, <3>2, AfterIs
  <2> HIDE DEF b, k
  <2>3. RightAt(Branch("jf", t, b), k, nx, role)
    BY <1>1, <2>2, RightInstr DEF k
  <2>4. RightSeq(<< Branch("jf", t, b) >>, << k >>, nx, role)
    BY <2>3, RightShort
  <2> QED  BY <2>1, <2>4 DEF RightToken, nx
<1>4. CASE src[t] = "else"
  <2> DEFINE a == base[own[t]]
  <2>0. a = b
    BY <1>4 DEF Labelled, Opener
  <2>1. /\ CodeAt(src, own, base, t) = << Jmp(a + 1), Label(a) >>
        /\ Values(own, t) = << Enter[t], Enter[t + 1] >>
    BY <1>1, <1>4 DEF CodeAt, TokenCode, Values, ValuesOf
  <2>2. Means(role, b) = nx /\ Means(role, b + 1) = Enter[t] /\ nx = Enter[t + 1]
    BY <1>2, <1>4, LabelsAre, EnterIs
  <2> HIDE DEF a, b
  <2>3. RightAt(Jmp(a + 1), Enter[t], nx, role)
    BY <2>0, <2>2, RightInstr
  <2>4. RightAt(Label(a), nx, nx, role)
    BY <2>0, <2>2, RightInstr
  <2>5. RightSeq(<< Jmp(a + 1), Label(a) >>, << Enter[t], nx >>, nx, role)
    BY <2>3, <2>4, RightShort
  <2> QED  BY <2>1, <2>2, <2>5 DEF RightToken, nx
<1>5. CASE src[t] = "switch"
  <2> DEFINE v == << t, "value" >>
  <2>1. /\ CodeAt(src, own, base, t) = << Do(t, "value") >>
        /\ Values(own, t) = << v >>
    BY <1>1, <1>5 DEF CodeAt, TokenCode, Values, ValuesOf
  <2>2. \A holds \in BOOLEAN : After(v, holds) = nx
    BY <1>2, <1>5, AfterIs
  <2> HIDE DEF v
  <2>3. RightAt(Do(t, "value"), v, nx, role)
    BY <1>1, <2>2, RightInstr DEF v
  <2>4. RightSeq(<< Do(t, "value") >>, << v >>, nx, role)
    BY <2>3, RightShort
  <2> QED  BY <2>1, <2>4 DEF RightToken, nx
<1>6. CASE src[t] = "case"
  <2>1. /\ CodeAt(src, own, base, t) = << Branch("jne", t, b) >>
        /\ Values(own, t) = << k >>
    BY <1>1, <1>6 DEF CodeAt, TokenCode, Values, ValuesOf
  <2>2. \A holds \in BOOLEAN : After(k, holds) = IF holds THEN nx ELSE Means(role, b)
    <3>1. Means(role, b) = Test(Match(t) + 1)
      BY <1>6, LabelsAre
    <3>2. nx = Enter[t + 1]
      BY <1>2, <1>6
    <3> QED  BY <1>6, <3>1, <3>2, AfterIs
  <2> HIDE DEF b, k
  <2>3. RightAt(Branch("jne", t, b), k, nx, role)
    BY <1>1, <2>2, RightInstr DEF k
  <2>4. RightSeq(<< Branch("jne", t, b) >>, << k >>, nx, role)
    BY <2>3, RightShort
  <2> QED  BY <2>1, <2>4 DEF RightToken, nx
<1>7. CASE src[t] = "default"
  <2>1. /\ CodeAt(src, own, base, t) = << >>
        /\ Values(own, t) = << >>
    BY <1>1, <1>7 DEF CodeAt, TokenCode, Values, ValuesOf
  <2> QED  BY <2>1, RightShort DEF RightToken
<1> QED
  BY <1>3, <1>4, <1>5, <1>6, <1>7

\* The code of a statement of one token is right: break and continue have found the
\* labels of the statement they belong to.
LEMMA SinglesRight ==
    ASSUME NEW d, NEW own, Whole(d, own), NEW base, NEW role, Labelled(src, own, base, role, labels),
           NEW t \in 1 .. Len(src), src[t] \in Single
    PROVE  RightToken(own, base, role, t)
<1> DEFINE nx == First(own, t + 1)
           o  == own[t]
           a  == base[o]
<1>1. t \in Nat /\ KindAt(src, t) = src[t]
  BY WholeIs DEF KindAt
<1>2. src[t] = "run" => nx = Enter[t + 1]
  BY FirstNext
<1> HIDE DEF nx
<1>3. CASE src[t] = "run"
  <2> DEFINE v == << t, "run" >>
  <2>1. /\ CodeAt(src, own, base, t) = << Do(t, "run") >>
        /\ Values(own, t) = << v >>
    BY <1>1, <1>3 DEF CodeAt, TokenCode, Values, ValuesOf
  <2>2. \A holds \in BOOLEAN : After(v, holds) = nx
    BY <1>2, <1>3, AfterIs
  <2> HIDE DEF v
  <2>3. RightAt(Do(t, "run"), v, nx, role)
    BY <1>1, <2>2, RightInstr DEF v
  <2>4. RightSeq(<< Do(t, "run") >>, << v >>, nx, role)
    BY <2>3, RightShort
  <2> QED  BY <2>1, <2>4 DEF RightToken, nx
<1>4. CASE src[t] = "return"
  <2> DEFINE v == << t, "return" >>
  <2>1. /\ CodeAt(src, own, base, t) = << Do(t, "return"), Jmp(ReturnPoint) >>
        /\ Values(own, t) = << v, Return0 >>
    BY <1>1, <1>4 DEF CodeAt, TokenCode, Values, ValuesOf
  <2>2. \A holds \in BOOLEAN : After(v, holds) = Return0
    BY AfterIs
  <2> HIDE DEF v
  <2>3. Means(role, ReturnPoint) = Return0
    BY ReturnMeans DEF Whole
  <2> HIDE DEF Return0
  <2>4. RightAt(Do(t, "return"), v, Return0, role)
    BY <1>1, <2>2, RightInstr DEF v
  <2>5. RightAt(Jmp(ReturnPoint), Return0, nx, role)
    BY <2>3, RightInstr
  <2>6. RightSeq(<< Do(t, "return"), Jmp(ReturnPoint) >>, << v, Return0 >>, nx, role)
    BY <2>4, <2>5, RightShort
  <2> QED  BY <2>1, <2>6 DEF RightToken, nx
<1>5. CASE src[t] \in {"break", "continue"}
  <2>1. /\ o \in 1 .. t - 1 /\ src[o] \in Jumpable /\ Len(src) \in Nat
        /\ src[t] = "continue" => src[o] \in {"while", "for"}
    <3>1. Leaves(src, own, own[t], t) /\ Len(src) \in Nat
      BY <1>5, WholeIs DEF TokenOK
    <3> QED  BY <3>1 DEF Leaves
  <2>2. o \in 1 .. Len(src)
    BY <2>1
  <2>3. KindAt(src, o) = src[o]
    BY <2>2, WholeIs DEF KindAt
  <2> HIDE DEF o
  <2>4. PICK l : CodeAt(src, own, base, t) = << Jmp(l) >> /\ Means(role, l) = Enter[t]
    <3>1. CASE src[t] = "break"
      <4>1. CodeAt(src, own, base, t) = << Jmp(IF src[o] = "switch" THEN a ELSE a + 1) >>
        BY <1>1, <2>3, <3>1 DEF CodeAt, TokenCode, o
      <4>2. Means(role, IF src[o] = "switch" THEN a ELSE a + 1) = Enter[Match(o) + 1]
        <5>1. src[o] \in {"while", "do", "for", "switch"}
          BY <2>1 DEF Jumpable, Loop
        <5> HIDE DEF a
        <5>2. CASE src[o] = "switch"
          BY <2>2, <5>2, LabelsAre DEF a
        <5>3. CASE src[o] \in {"while", "do", "for"}
          <6>1. Means(role, a + 1) = Enter[Match(o) + 1]
            BY <2>2, <5>3, LabelsAre DEF a
          <6> QED  BY <5>3, <6>1
        <5> QED  BY <5>1, <5>2, <5>3
      <4>3. Enter[t] = Enter[Match(o) + 1]
        BY <3>1, EnterIs DEF o
      <4> QED  BY <4>1, <4>2, <4>3
    <3>2. CASE src[t] = "continue"
      <4>1. CodeAt(src, own, base, t) = << Jmp(IF src[o] = "for" THEN a + 3 ELSE a) >>
        BY <1>1, <2>3, <3>2 DEF CodeAt, TokenCode, o
      <4>2. Means(role, IF src[o] = "for" THEN a + 3 ELSE a) = Again(o)
        <5> HIDE DEF a
        <5>1. CASE src[o] = "while"
          <6>1. Means(role, a) = << o, "cond" >>
            BY <2>2, <5>1, LabelsAre DEF a
          <6> QED  BY <5>1, <6>1 DEF Again
        <5>2. CASE src[o] = "for"
          <6>1. Means(role, a + 3) = << o, "step" >>
            BY <2>2, <5>2, LabelsAre DEF a
          <6> QED  BY <5>2, <6>1 DEF Again
        <5> QED  BY <2>1, <3>2, <5>1, <5>2
      <4>3. Enter[t] = Again(o)
        BY <3>2, EnterIs DEF o
      <4> QED  BY <4>1, <4>2, <4>3
    <3> QED  BY <1>5, <3>1, <3>2
  <2>5. Values(own, t) = << Enter[t] >>
    BY <1>1, <1>5 DEF Values, ValuesOf
  <2>6. RightAt(Jmp(l), Enter[t], nx, role)
    BY <2>4, RightInstr
  <2>7. RightSeq(<< Jmp(l) >>, << Enter[t] >>, nx, role)
    BY <2>6, RightShort
  <2> QED  BY <2>4, <2>5, <2>7 DEF RightToken, nx
<1> QED
  BY <1>3, <1>4, <1>5 DEF Single

\* The code at the end of a statement is right.
LEMMA EndsRight ==
    ASSUME NEW d, NEW own, Whole(d, own), NEW base, NEW role, Labelled(src, own, base, role, labels),
           NEW t \in 1 .. Len(src), src[t] = "end"
    PROVE  RightToken(own, base, role, t)
<1> DEFINE nx == First(own, t + 1)
           o  == own[t]
           a  == base[o]
           k  == << t, "cond" >>
<1>1. t \in Nat /\ KindAt(src, t) = "end" /\ src[t] \in Closer
  BY WholeIs DEF KindAt, Closer
<1>2. o \in 1 .. Len(src) /\ src[o] \in Opener /\ Match(o) = t /\ Owner(t) = o /\ KindAt(src, o) = src[o]
  <2>1. o \in 1 .. t - 1 /\ src[o] \in Opener
    BY <1>1, WholeIs DEF TokenOK, Closes
  <2>2. Len(src) \in Nat /\ DOMAIN src = 1 .. Len(src)
    BY WholeIs
  <2>3. \A n \in Nat : \A m \in 1 .. n : \A p \in 1 .. m - 1 : p \in 1 .. n
    OBVIOUS
  <2>4. o \in 1 .. Len(src)
    BY <2>1, <2>2, <2>3
  <2>5. Match(o) = t /\ Owner(t) = o
    BY <1>1, MatchIs, OwnerIs
  <2> QED  BY <2>1, <2>2, <2>4, <2>5 DEF KindAt
<1>3. src[o] \in {"while", "do", "for", "if", "else", "switch", "case", "default"}
  BY <1>2 DEF Opener, Loop
<1>4. nx = IF src[o] = "case" THEN Test(t + 1) ELSE Enter[t + 1]
  BY FirstNext
<1>5. Enter[t] = IF src[o] \in Loop THEN Again(o) ELSE Enter[t + 1]
  BY EnterIs
<1>6. CodeAt(src, own, base, t) = EndCode(src[o], t, a) /\ Values(own, t) = EndValues(src[o], t)
  BY <1>1, <1>2 DEF CodeAt, TokenCode, Values, ValuesOf
<1> SUFFICES RightSeq(EndCode(src[o], t, a), EndValues(src[o], t), nx, role)
  BY <1>6 DEF RightToken, nx
<1>7. /\ src[o] = "while" => Means(role, a) = << o, "cond" >> /\ Means(role, a + 1) = Enter[t + 1]
      /\ src[o] = "do" => Means(role, a) = Enter[o + 1] /\ Means(role, a + 1) = Enter[t + 1]
      /\ src[o] = "for" => Means(role, a + 3) = << o, "step" >> /\ Means(role, a + 1) = Enter[t + 1]
  BY <1>2, LabelsAre
<1>8. /\ src[o] = "if" => Means(role, a) = Enter[t + 1] /\ Means(role, a + 1) = Enter[Ending(o) + 1]
      /\ src[o] = "else" => Means(role, a + 1) = Enter[t + 1]
  BY <1>2, LabelsAre
<1>9. /\ src[o] = "switch" => Means(role, a) = Enter[t + 1]
      /\ src[o] = "case" => Means(role, a) = Test(t + 1)
  BY <1>2, LabelsAre
<1>10. Ending(o) = t
  BY <1>2 DEF Ending
<1> HIDE DEF nx, o, a
<1>11. CASE src[o] \in {"while", "for"}
  <2>1. PICK l : /\ EndCode(src[o], t, a) = << Jmp(l), Label(a + 1) >>
                 /\ Means(role, l) = Enter[t]
    <3>1. CASE src[o] = "while"
      <4>1. Enter[t] = << o, "cond" >>
        BY <1>5, <3>1 DEF Again, Loop
      <4> QED  BY <1>7, <3>1, <4>1 DEF EndCode
    <3>2. CASE src[o] = "for"
      <4>1. Enter[t] = << o, "step" >>
        BY <1>5, <3>2 DEF Again, Loop
      <4> QED  BY <1>7, <3>2, <4>1 DEF EndCode
    <3> QED  BY <1>11, <3>1, <3>2
  <2>2. EndValues(src[o], t) = << Enter[t], nx >> /\ Means(role, a + 1) = nx
    BY <1>4, <1>7, <1>11 DEF EndValues
  <2>3. RightAt(Jmp(l), Enter[t], nx, role)
    BY <2>1, RightInstr
  <2>4. RightAt(Label(a + 1), nx, nx, role)
    BY <2>2, RightInstr
  <2>5. RightSeq(<< Jmp(l), Label(a + 1) >>, << Enter[t], nx >>, nx, role)
    BY <2>3, <2>4, RightShort
  <2> QED  BY <2>1, <2>2, <2>5
<1>12. CASE src[o] = "do"
  <2>1. /\ EndCode(src[o], t, a) = << Branch("jt", t, a), Label(a + 1) >>
        /\ EndValues(src[o], t) = << k, nx >>
    BY <1>4, <1>12 DEF EndCode, EndValues
  <2>2. Means(role, a) = Enter[o + 1] /\ Means(role, a + 1) = nx /\ nx = Enter[t + 1]
    BY <1>4, <1>7, <1>12
  <2>3. \A holds \in BOOLEAN : After(k, holds) = IF holds THEN Means(role, a) ELSE nx
    <3>1. \A holds \in BOOLEAN : After(k, holds) = IF holds THEN Enter[Owner(t) + 1] ELSE Enter[t + 1]
      BY AfterIs
    <3>2. Owner(t) = o
      BY <1>2
    <3> HIDE DEF k
    <3> QED  BY <2>2, <3>1, <3>2
  <2> HIDE DEF k
  <2>4. RightAt(Branch("jt", t, a), k, nx, role)
    BY <1>1, <2>3, RightInstr DEF k
  <2>5. RightAt(Label(a + 1), nx, nx, role)
    BY <2>2, RightInstr
  <2>6. RightSeq(<< Branch("jt", t, a), Label(a + 1) >>, << k, nx >>, nx, role)
    BY <2>4, <2>5, RightShort
  <2> QED  BY <2>1, <2>6
<1>13. CASE src[o] = "if"
  <2>1. /\ EndCode(src[o], t, a) = << Jmp(a + 1), Label(a), Label(a + 1) >>
        /\ EndValues(src[o], t) = << nx, nx, nx >>
    BY <1>4, <1>13 DEF EndCode, EndValues
  <2>2. Means(role, a) = nx /\ Means(role, a + 1) = nx
    BY <1>4, <1>8, <1>10, <1>13
  <2>3. RightAt(Jmp(a + 1), nx, nx, role) /\ RightAt(Label(a), nx, nx, role) /\ RightAt(Label(a + 1), nx, nx, role)
    BY <2>2, RightInstr
  <2>4. RightSeq(<< Jmp(a + 1), Label(a), Label(a + 1) >>, << nx, nx, nx >>, nx, role)
    BY <2>3, RightShort
  <2> QED  BY <2>1, <2>4
<1>14. CASE src[o] \in {"else", "switch", "case"}
  <2>1. PICK l : EndCode(src[o], t, a) = << Label(l) >> /\ Means(role, l) = nx
    <3>1. CASE src[o] = "else"
      BY <1>4, <1>8, <3>1 DEF EndCode
    <3>2. CASE src[o] \in {"switch", "case"}
      BY <1>4, <1>9, <3>2 DEF EndCode
    <3> QED  BY <1>14, <3>1, <3>2
  <2>2. EndValues(src[o], t) = << nx >>
    BY <1>4, <1>14 DEF EndValues
  <2>3. RightAt(Label(l), nx, nx, role)
    BY <2>1, RightInstr
  <2>4. RightSeq(<< Label(l) >>, << nx >>, nx, role)
    BY <2>3, RightShort
  <2> QED  BY <2>1, <2>2, <2>4
<1>15. CASE src[o] = "default"
  <2>1. EndCode(src[o], t, a) = << >> /\ EndValues(src[o], t) = << >>
    BY <1>15 DEF EndCode, EndValues
  <2> QED  BY <2>1, RightShort
<1> QED
  BY <1>3, <1>11, <1>12, <1>13, <1>14, <1>15

\* The code of every token is right.
LEMMA TokensRight ==
    ASSUME NEW d, NEW own, Whole(d, own), NEW base, NEW role, Labelled(src, own, base, role, labels),
           NEW t \in 1 .. Len(src)
    PROVE  RightToken(own, base, role, t)
<1>1. src[t] \in {"while", "do", "for", "if", "else", "switch", "case", "default", "end",
                  "run", "break", "continue", "return"}
  BY WholeIs, Kinds
<1> QED
  BY <1>1, LoopsRight, BranchesRight, SinglesRight, EndsRight DEF Single

\* The end of the function is what is next after the last token.
LEMMA FirstExit ==
    ASSUME NEW d, NEW own, Whole(d, own), NEW base
    PROVE  /\ CodeAt(src, own, base, Len(src) + 1) = << Label(ReturnPoint), Do(Len(src) + 1, "exit") >>
           /\ Values(own, Len(src) + 1) = << Return0, Return0 >>
           /\ First(own, Len(src) + 1) = Return0
           /\ Do(Len(src) + 1, "exit").ev = Return0 /\ Return0 # None
<1>1. Len(src) \in Nat /\ Len(src) + 1 \in Nat /\ KindAt(src, Len(src) + 1) = "exit"
  <2>1. Len(src) \in Nat /\ DOMAIN src = 1 .. Len(src)
    BY WholeIs
  <2>2. \A n \in Nat : n + 1 \in Nat /\ n + 1 \notin 1 .. n
    OBVIOUS
  <2>3. Len(src) + 1 \notin DOMAIN src
    BY <2>1, <2>2
  <2> QED  BY <2>1, <2>2, <2>3 DEF KindAt
<1>2. CodeAt(src, own, base, Len(src) + 1) = << Label(ReturnPoint), Do(Len(src) + 1, "exit") >>
      /\ Values(own, Len(src) + 1) = << Return0, Return0 >>
  BY <1>1 DEF CodeAt, TokenCode, Values, ValuesOf
<1>3. Do(Len(src) + 1, "exit").ev = Return0
  BY DEF Do, Return0
<1>4. Return0 # None
  <2>1. None \notin Nat \X Part
    BY ConstAssumption, Zenon
  <2>2. Return0 \in Nat \X Part
    BY <1>1 DEF Return0, Part
  <2> QED  BY <2>1, <2>2
<1>5. First(own, Len(src) + 1) = Return0
  BY <1>1, EnterEnd DEF First
<1> QED
  BY <1>2, <1>3, <1>4, <1>5

\* The first instruction of a token comes with what is next when the walk comes to
\* the token; a token without code leaves that to the token after it.
LEMMA FirstIs ==
    ASSUME NEW d, NEW own, Whole(d, own), NEW base, NEW t \in 1 .. Len(src)
    PROVE  IF Len(CodeAt(src, own, base, t)) = 0 THEN First(own, t) = First(own, t + 1)
           ELSE Values(own, t)[1] = First(own, t)
<1> DEFINE o == own[t]
           k == src[t]
           e == src[o]
           c == CodeAt(src, own, base, t)
<1>1. KindAt(src, t) = k
  BY WholeIs DEF KindAt
<1>2. k \in {"while", "do", "for", "if", "else", "switch", "case", "default", "end",
             "run", "break", "continue", "return"}
  BY WholeIs, Kinds
<1>3. First(own, t) = IF k = "case" THEN << t, "cond" >>
                      ELSE IF k = "end" /\ e = "case" THEN Test(t + 1) ELSE Enter[t]
  BY <1>1 DEF First
<1> SUFFICES IF Len(c) = 0 THEN First(own, t) = First(own, t + 1) ELSE Values(own, t)[1] = First(own, t)
  OBVIOUS
<1> HIDE DEF k, e, c
<1>4. CASE k = "default"
  <2>1. Len(c) = 0
    BY <1>1, <1>4 DEF c, CodeAt, TokenCode
  <2>2. Enter[t] = Enter[t + 1] /\ First(own, t + 1) = Enter[t + 1]
    BY <1>4, EnterIs, FirstNext DEF k
  <2> QED  BY <1>3, <1>4, <2>1, <2>2
<1>5. CASE k = "end"
  <2>1. e \in {"while", "do", "for", "if", "else", "switch", "case", "default"} /\ KindAt(src, o) = e
        /\ Owner(t) = o /\ Match(o) = t
    <3>1. src[t] \in Closer
      BY <1>5 DEF k, Closer
    <3>2. o \in 1 .. t - 1 /\ src[o] \in Opener
      BY <3>1, WholeIs DEF TokenOK, Closes
    <3>3. Len(src) \in Nat /\ DOMAIN src = 1 .. Len(src)
      BY WholeIs
    <3>4. \A n \in Nat : \A m \in 1 .. n : \A p \in 1 .. m - 1 : p \in 1 .. n
      OBVIOUS
    <3>5. o \in DOMAIN src
      BY <3>2, <3>3, <3>4
    <3> QED  BY <3>1, <3>2, <3>5, MatchIs, OwnerIs DEF KindAt, e, Opener, Loop
  <2>2. c = EndCode(e, t, base[o]) /\ Values(own, t) = EndValues(e, t)
    BY <1>1, <1>5, <2>1 DEF c, CodeAt, TokenCode, Values, ValuesOf
  <2>3. Enter[t] = IF e \in Loop THEN Again(o) ELSE Enter[t + 1]
    BY <1>5, EnterIs DEF k, e
  <2>4. CASE e = "default"
    <3>1. Len(c) = 0
      BY <2>2, <2>4 DEF EndCode
    <3>2. First(own, t + 1) = Enter[t + 1]
      BY <1>5, <2>4, FirstNext DEF k, e
    <3>3. Enter[t] = Enter[t + 1]
      BY <2>3, <2>4 DEF Loop
    <3>4. First(own, t) = Enter[t]
      BY <1>3, <1>5, <2>4
    <3> QED  BY <3>1, <3>2, <3>3, <3>4
  <2>5. CASE e # "default"
    <3>1. Len(c) # 0
      BY <2>1, <2>2, <2>5 DEF EndCode
    <3>2. Values(own, t)[1] = First(own, t)
      <4>1. CASE e \in {"while", "for"}
        BY <1>3, <1>5, <2>2, <4>1 DEF EndValues
      <4>2. CASE e = "do"
        <5>1. Again(o) = << t, "cond" >>
          BY <2>1, <4>2 DEF Again, e
        <5>2. Enter[t] = << t, "cond" >>
          BY <2>3, <4>2, <5>1 DEF Loop
        <5> QED  BY <1>3, <1>5, <2>2, <4>2, <5>2 DEF EndValues
      <4>3. CASE e \in {"if", "else", "switch"}
        <5>1. Enter[t] = Enter[t + 1]
          BY <2>3, <4>3 DEF Loop
        <5> QED  BY <1>3, <1>5, <2>2, <4>3, <5>1 DEF EndValues
      <4>4. CASE e = "case"
        BY <1>3, <1>5, <2>2, <4>4 DEF EndValues
      <4> QED  BY <2>1, <2>5, <4>1, <4>2, <4>3, <4>4
    <3> QED  BY <3>1, <3>2
  <2> QED  BY <2>4, <2>5
<1>6. CASE k \notin {"default", "end"}
  <2>1. Len(c) # 0
    BY <1>1, <1>2, <1>6 DEF c, CodeAt, TokenCode
  <2>2. Values(own, t)[1] = First(own, t)
    <3>1. CASE k \in {"while", "for", "if", "switch", "run", "return"}
      <4>1. Values(own, t)[1] = IF k \in {"while", "if"} THEN << t, "cond" >>
                                ELSE IF k = "for" THEN << t, "init" >>
                                ELSE IF k = "switch" THEN << t, "value" >> ELSE << t, k >>
        BY <1>1, <3>1 DEF Values, ValuesOf
      <4>2. Enter[t] = IF k \in {"while", "if"} THEN << t, "cond" >>
                       ELSE IF k = "for" THEN << t, "init" >>
                       ELSE IF k = "switch" THEN << t, "value" >> ELSE << t, k >>
        BY <3>1, EnterIs DEF k
      <4>3. First(own, t) = Enter[t]
        BY <1>3, <3>1
      <4> QED  BY <4>1, <4>2, <4>3
    <3>2. CASE k = "do"
      <4>1. Values(own, t)[1] = Enter[t + 1]
        BY <1>1, <3>2 DEF Values, ValuesOf
      <4>2. Enter[t] = Enter[t + 1]
        BY <3>2, EnterIs DEF k
      <4> QED  BY <1>3, <3>2, <4>1, <4>2
    <3>3. CASE k \in {"else", "break", "continue"}
      BY <1>1, <1>3, <3>3 DEF Values, ValuesOf
    <3>4. CASE k = "case"
      BY <1>1, <1>3, <3>4 DEF Values, ValuesOf
    <3> QED  BY <1>2, <1>6, <3>1, <3>2, <3>3, <3>4
  <2> QED  BY <2>1, <2>2
<1> QED
  BY <1>4, <1>5, <1>6

-----------------------------------------------------------------------------
(* The walk *)

\* The code c of a whole body, whose l labels are placed by role.
Ready(c, l, d, own, base, start, role) ==
    /\ Whole(d, own) /\ Labelled(src, own, base, role, l)
    /\ Laid(Len(src) + 1, Codes(Len(src) + 1, src, own, base), start, c)

\* Event v is next at instruction p.
Stands(own, base, start, p, v) ==
    \E t \in 1 .. Len(src) + 1 : \E i \in 1 .. Len(CodeAt(src, own, base, t)) :
        p = start[t] + i /\ v = Values(own, t)[i]

\* Where the code of each token is.
LEMMA ReadyIs ==
    ASSUME NEW c, NEW l, NEW d, NEW own, NEW base, NEW start, NEW role,
           Ready(c, l, d, own, base, start, role)
    PROVE  /\ Len(src) \in Nat /\ start[1] = 0 /\ start[Len(src) + 2] = Len(c)
           /\ \A t \in 1 .. Len(src) + 1 :
                 /\ start[t] \in Nat /\ Len(CodeAt(src, own, base, t)) \in Nat
                 /\ start[t + 1] = start[t] + Len(CodeAt(src, own, base, t))
                 /\ start[t] + Len(CodeAt(src, own, base, t)) <= Len(c)
                 /\ \A i \in 1 .. Len(CodeAt(src, own, base, t)) :
                       c[start[t] + i] = CodeAt(src, own, base, t)[i]
           /\ \A p \in 1 .. Len(c) : \E t \in 1 .. Len(src) + 1 :
                 \E i \in 1 .. Len(CodeAt(src, own, base, t)) : p = start[t] + i
<1> DEFINE n    == Len(src)
           E(t) == CodeAt(src, own, base, t)
           e    == Codes(n + 1, src, own, base)
<1>1. /\ Whole(d, own) /\ Labelled(src, own, base, role, l) /\ Laid(n + 1, e, start, c)
  BY DEF Ready
<1>2. n \in Nat /\ DOMAIN src = 1 .. n /\ own \in [Nat -> Nat] /\ \A t \in 1 .. n : src[t] \in Token
  BY <1>1, WholeIs
<1>3. \A t \in 1 .. n + 1 : e[t] = E(t)
  BY DEF Codes
<1> HIDE DEF n, e
<1>4. \A t \in 1 .. n + 1 : t \in Nat /\ t + 1 \in Nat
  BY <1>2
<1>5. ASSUME NEW t \in 1 .. n + 1
      PROVE  E(t) \in Seq(AnyInstr)
  <2>1. t \in Nat
    BY <1>4
  <2>2. own[t] \in Nat
    BY <1>2, <2>1
  <2>3. base[t] \in Nat /\ base[own[t]] \in Nat
    BY <1>1, <2>1, <2>2 DEF Labelled
  <2>4. KindAt(src, t) \in Token \cup {"exit"}
    BY <1>2 DEF KindAt
  <2> QED  BY <2>1, <2>3, <2>4, CodeType DEF CodeAt
<1>6. \A t \in 1 .. n + 1 : Len(E(t)) \in Nat
  BY <1>5, LenProperties
<1> HIDE DEF E
<1>7. /\ start \in [Nat -> Nat] /\ start[1] = 0 /\ start[(n + 1) + 1] = Len(c)
      /\ \A t \in 1 .. n + 1 : start[t + 1] = start[t] + Len(e[t]) /\ start[t] + Len(e[t]) <= Len(c)
  BY <1>1 DEF Laid
<1>8. \A t \in 1 .. n + 1 : \A i \in 1 .. Len(e[t]) : c[start[t] + i] = e[t][i]
  BY <1>1 DEF Laid
<1>9. \A p \in 1 .. Len(c) : \E t \in 1 .. n + 1 : \E i \in 1 .. Len(e[t]) : p = start[t] + i
  BY <1>1 DEF Laid
<1>10. (n + 1) + 1 = n + 2
  BY <1>2
<1>11. \A t \in 1 .. n + 1 : start[t] \in Nat
  BY <1>4, <1>7
<1>12. ASSUME NEW t \in 1 .. n + 1
       PROVE  /\ start[t] \in Nat /\ Len(E(t)) \in Nat
              /\ start[t + 1] = start[t] + Len(E(t)) /\ start[t] + Len(E(t)) <= Len(c)
              /\ \A i \in 1 .. Len(E(t)) : c[start[t] + i] = E(t)[i]
  BY <1>3, <1>6, <1>7, <1>8, <1>11
<1>13. \A p \in 1 .. Len(c) : \E t \in 1 .. n + 1 : \E i \in 1 .. Len(E(t)) : p = start[t] + i
  BY <1>3, <1>9
<1>14. start[1] = 0 /\ start[n + 2] = Len(c)
  BY <1>7, <1>10
<1> QED
  BY <1>2, <1>12, <1>13, <1>14 DEF n, E

\* The walk comes to a token with what is next there, whatever tokens without
\* code are between.
LEMMA Comes ==
    ASSUME NEW c, NEW l, NEW d, NEW own, NEW base, NEW start, NEW role,
           Ready(c, l, d, own, base, start, role), NEW u \in 1 .. Len(src) + 1
    PROVE  Stands(own, base, start, start[u] + 1, First(own, u))
<1> DEFINE n    == Len(src)
           E(t) == CodeAt(src, own, base, t)
           On(t, w) == w \in t .. n + 1 /\ Len(E(w)) # 0 /\ start[w] = start[t] /\ Values(own, w)[1] = First(own, t)
           G(t) == \E w : On(t, w)
           S    == {k \in Nat : k <= n => G(n + 1 - k)}
<1>0. Whole(d, own) /\ Labelled(src, own, base, role, l)
  BY DEF Ready
<1>1. n \in Nat /\ \A t \in 1 .. n + 1 : /\ start[t] \in Nat /\ Len(E(t)) \in Nat
                                         /\ start[t + 1] = start[t] + Len(E(t))
  BY ReadyIs
<1>2. \A t \in 1 .. n : IF Len(E(t)) = 0 THEN First(own, t) = First(own, t + 1)
                        ELSE Values(own, t)[1] = First(own, t)
  BY <1>0, FirstIs
<1>3. Len(E(n + 1)) # 0 /\ Values(own, n + 1)[1] = First(own, n + 1)
  <2>1. /\ CodeAt(src, own, base, Len(src) + 1) = << Label(ReturnPoint), Do(Len(src) + 1, "exit") >>
        /\ Values(own, Len(src) + 1) = << Return0, Return0 >>
        /\ First(own, Len(src) + 1) = Return0
    <3>1. Whole(d, own)
      BY <1>0
    <3> QED  BY <3>1, FirstExit
  <2> QED  BY <2>1
<1> HIDE DEF n, E
<1>4. G(n + 1)
  <2>1. n + 1 \in n + 1 .. n + 1
    BY <1>1
  <2> QED  BY <1>3, <2>1
<1>5. ASSUME NEW t \in 1 .. n, G(t + 1)
      PROVE  G(t)
  <2>1. t \in t .. n + 1 /\ t \in 1 .. n + 1 /\ \A w \in t + 1 .. n + 1 : w \in t .. n + 1
    BY <1>1
  <2>2. CASE Len(E(t)) = 0
    <3>1. PICK w : On(t + 1, w)
      BY <1>5
    <3>2. start[t + 1] = start[t]
      <4>1. \A a, b \in Nat : b = 0 => a + b = a
        OBVIOUS
      <4> QED  BY <1>1, <2>1, <2>2, <4>1
    <3>3. First(own, t) = First(own, t + 1)
      BY <1>2, <2>2
    <3> QED  BY <2>1, <3>1, <3>2, <3>3
  <2>3. CASE Len(E(t)) # 0
    <3>1. Values(own, t)[1] = First(own, t)
      BY <1>2, <2>3
    <3> QED  BY <2>1, <2>3, <3>1
  <2> QED  BY <2>2, <2>3
<1> HIDE DEF G
<1>6. S = Nat
  <2>1. 0 \in S
    <3>1. n + 1 - 0 = n + 1
      BY <1>1
    <3> QED  BY <1>4, <3>1
  <2>2. ASSUME NEW k \in S  PROVE k + 1 \in S
    <3>1. k \in Nat /\ (k + 1 <= n => k <= n /\ n - k \in 1 .. n /\ n + 1 - (k + 1) = n - k
                                      /\ n + 1 - k = (n - k) + 1)
      BY <1>1
    <3> QED  BY <1>5, <3>1
  <2>3. S \in SUBSET Nat
    OBVIOUS
  <2> HIDE DEF S
  <2> QED  BY <2>1, <2>2, <2>3, Induction
<1>7. G(u)
  <2>1. u \in 1 .. n + 1
    BY DEF n
  <2>2. n + 1 - u \in Nat /\ n + 1 - u <= n /\ n + 1 - (n + 1 - u) = u
    BY <1>1, <2>1
  <2> QED  BY <1>6, <2>2
<1>8. PICK w : On(u, w)
  BY <1>7 DEF G
<1>9. w \in 1 .. n + 1
  <2>1. \A a \in 1 .. n + 1 : \A b \in a .. n + 1 : b \in 1 .. n + 1
    BY <1>1
  <2> QED  BY <1>8, <2>1 DEF n
<1>10. 1 \in 1 .. Len(E(w))
  <2>1. \A a \in Nat : a # 0 => 1 \in 1 .. a
    OBVIOUS
  <2> QED  BY <1>1, <1>8, <1>9, <2>1
<1>11. start[u] + 1 = start[w] + 1 /\ First(own, u) = Values(own, w)[1]
  BY <1>8
<1> QED
  BY <1>9, <1>10, <1>11 DEF Stands, n, E

\* Each instruction does what is next, and what is next after it is next where it
\* goes; only the last one, the end of the function, goes nowhere.
LEMMA GoesRight ==
    ASSUME NEW c, NEW d, NEW own, NEW base, NEW start, NEW role,
           Ready(c, labels, d, own, base, start, role),
           NEW p, NEW v, Stands(own, base, start, p, v)
    PROVE  /\ p \in 1 .. Len(c)
           /\ \/ \E nx : RightAt(c[p], v, nx, role) /\ Stands(own, base, start, p + 1, nx)
              \/ p = Len(c) /\ c[p].op = "do" /\ c[p].ev = v /\ v # None
<1> DEFINE n    == Len(src)
           E(t) == CodeAt(src, own, base, t)
<1>1. Whole(d, own) /\ Labelled(src, own, base, role, labels)
  BY DEF Ready
<1>2. n \in Nat /\ start[n + 2] = Len(c)
  BY ReadyIs
<1>3. PICK t \in 1 .. n + 1 : \E i \in 1 .. Len(E(t)) : p = start[t] + i /\ v = Values(own, t)[i]
  BY DEF Stands
<1>4. PICK i \in 1 .. Len(E(t)) : p = start[t] + i /\ v = Values(own, t)[i]
  BY <1>3
<1>5. /\ start[t] \in Nat /\ Len(E(t)) \in Nat /\ start[t + 1] = start[t] + Len(E(t))
      /\ start[t] + Len(E(t)) <= Len(c) /\ c[start[t] + i] = E(t)[i]
  BY ReadyIs, SMTT(30)
<1>6. p \in 1 .. Len(c)
  <2>1. start[t] \in Nat /\ Len(E(t)) \in Nat /\ start[t] + Len(E(t)) <= Len(c) /\ Len(c) \in Nat
    <3>1. n + 1 \in 1 .. n + 1 /\ (n + 1) + 1 = n + 2
      BY <1>2
    <3>2. start[n + 1] \in Nat /\ Len(E(n + 1)) \in Nat /\ start[(n + 1) + 1] = start[n + 1] + Len(E(n + 1))
      BY <3>1, ReadyIs
    <3>3. start[n + 2] \in Nat
      BY <3>1, <3>2
    <3> QED  BY <1>2, <1>5, <3>3
  <2>2. \A a, b, m \in Nat : \A k \in 1 .. b : a + b <= m => a + k \in 1 .. m
    OBVIOUS
  <2> QED  BY <1>4, <2>1, <2>2
<1>7. c[p] = E(t)[i]
  BY <1>4, <1>5
<1>8. i < Len(E(t)) => \A w : w = Values(own, t)[i + 1] => Stands(own, base, start, p + 1, w)
  <2>1. i < Len(E(t)) => i + 1 \in 1 .. Len(E(t)) /\ p + 1 = start[t] + (i + 1)
    <3>1. \A a, b \in Nat : \A k \in 1 .. b : (k < b => k + 1 \in 1 .. b) /\ (a + k) + 1 = a + (k + 1)
      OBVIOUS
    <3>2. start[t] \in Nat /\ Len(E(t)) \in Nat /\ p = start[t] + i
      BY <1>4, <1>5
    <3> HIDE DEF E
    <3> QED  BY <3>1, <3>2
  <2> QED  BY <2>1 DEF Stands
<1>9. CASE t \in 1 .. n
  <2>1. RightToken(own, base, role, t)
    BY <1>1, <1>9, TokensRight
  <2> DEFINE nx == IF i < Len(E(t)) THEN Values(own, t)[i + 1] ELSE First(own, t + 1)
  <2>2. RightAt(c[p], v, nx, role)
    BY <1>4, <1>7, <2>1 DEF RightToken, RightSeq
  <2>3. Stands(own, base, start, p + 1, nx)
    <3>1. CASE i < Len(E(t))
      BY <1>8, <3>1
    <3>2. CASE ~ (i < Len(E(t)))
      <4>1. t + 1 \in 1 .. n + 1
        BY <1>2, <1>9
      <4>2. Stands(own, base, start, start[t + 1] + 1, First(own, t + 1))
        BY <4>1, Comes
      <4>3. start[t + 1] + 1 = p + 1
        BY <1>4, <1>5, <3>2
      <4> QED  BY <3>2, <4>2, <4>3
    <3> QED  BY <3>1, <3>2
  <2> HIDE DEF nx
  <2> QED  BY <1>6, <2>2, <2>3
<1>10. CASE t = n + 1
  <2>1. /\ E(t) = << Label(ReturnPoint), Do(Len(src) + 1, "exit") >>
        /\ Values(own, t) = << Return0, Return0 >>
        /\ Do(Len(src) + 1, "exit").ev = Return0 /\ Return0 # None
    BY <1>1, <1>10, FirstExit
  <2>2. RightAt(Label(ReturnPoint), Return0, Return0, role)
    <3>1. Means(role, ReturnPoint) = Return0
      BY <1>1, ReturnMeans DEF Whole
    <3> HIDE DEF Return0
    <3> QED  BY <3>1, RightInstr
  <2> HIDE DEF E, Return0, Label
  <2>3. Len(E(t)) = 2 /\ i \in {1, 2}
    <3>1. Len(E(t)) = 2
      BY <2>1
    <3> QED  BY <3>1
  <2>4. CASE i = 1
    <3>1. Stands(own, base, start, p + 1, Return0)
      BY <1>8, <2>1, <2>3, <2>4
    <3>2. c[p] = Label(ReturnPoint) /\ v = Return0
      BY <1>4, <1>7, <2>1, <2>4
    <3> QED  BY <1>6, <2>2, <3>1, <3>2
  <2>5. CASE i = 2
    <3>1. p = Len(c)
      <4>1. (n + 1) + 1 = n + 2
        BY <1>2
      <4> QED  BY <1>2, <1>4, <1>5, <1>10, <2>3, <2>5, <4>1
    <3>2. c[p] = Do(Len(src) + 1, "exit") /\ v = Return0
      BY <1>4, <1>7, <2>1, <2>5
    <3>3. Do(Len(src) + 1, "exit").op = "do"
      BY DEF Do
    <3> QED  BY <1>6, <2>1, <3>1, <3>2, <3>3
  <2> QED  BY <2>3, <2>4, <2>5
<1> QED
  BY <1>2, <1>9, <1>10, Upto

\* An instruction that does something does what is next.
LEMMA DoesRight ==
    ASSUME NEW d, NEW own, NEW base, NEW start, NEW role,
           Ready(code, labels, d, own, base, start, role),
           Stands(own, base, start, at, expected), code[at].ev # None
    PROVE  code[at].ev = expected
<1>1. CASE \E nx : RightAt(code[at], expected, nx, role) /\ Stands(own, base, start, at + 1, nx)
  BY <1>1 DEF RightAt
<1>2. CASE at = Len(code) /\ code[at].op = "do" /\ code[at].ev = expected /\ expected # None
  BY <1>2
<1> QED
  BY <1>1, <1>2, GoesRight

\* What a label stands for is next at every place of the label.
LEMMA LabelRight ==
    ASSUME NEW d, NEW own, NEW base, NEW start, NEW role,
           Ready(code, labels, d, own, base, start, role), NEW l, NEW p \in PlaceOf(l),
           DOMAIN code = 1 .. Len(code)
    PROVE  Stands(own, base, start, p, Means(role, l))
<1>1. p \in 1 .. Len(code) /\ code[p].op = "label" /\ code[p].to = l
  BY DEF PlaceOf
<1>2. PICK t \in 1 .. Len(src) + 1 : \E i \in 1 .. Len(CodeAt(src, own, base, t)) : p = start[t] + i
  BY <1>1, ReadyIs
<1>3. PICK i \in 1 .. Len(CodeAt(src, own, base, t)) : p = start[t] + i
  BY <1>2
<1> DEFINE v == Values(own, t)[i]
<1>4. Stands(own, base, start, p, v)
  BY <1>3 DEF Stands
<1> HIDE DEF v
<1>5. PICK nx : RightAt(code[p], v, nx, role)
  BY <1>1, <1>4, GoesRight
<1>6. v = Means(role, l)
  BY <1>1, <1>5 DEF RightAt
<1> QED
  BY <1>4, <1>6

\* What src says should happen next is what happens next.
Walked ==
    pc = "walk" => \E d, own, base, start, role :
                      /\ Ready(code, labels, d, own, base, start, role)
                      /\ Stands(own, base, start, at, expected)

\* One step of the walk over a label or a jump.
LEMMA SilentStands ==
    ASSUME NEW d, NEW own, NEW base, NEW start, NEW role,
           Ready(code, labels, d, own, base, start, role), DOMAIN code = 1 .. Len(code),
           Stands(own, base, start, at, expected), code[at].ev = None,
           NEW q \in IF code[at].op = "label" THEN {at + 1} ELSE PlaceOf(code[at].to)
    PROVE  Stands(own, base, start, q, expected)
<1>1. PICK nx : RightAt(code[at], expected, nx, role) /\ Stands(own, base, start, at + 1, nx)
  BY GoesRight
<1>2. code[at].op \in {"label", "jmp"}
  BY <1>1 DEF RightAt
<1>3. CASE code[at].op = "label"
  <2>1. expected = nx /\ q = at + 1
    BY <1>1, <1>3 DEF RightAt
  <2> QED  BY <1>1, <2>1
<1>4. CASE code[at].op = "jmp"
  <2>1. expected = Means(role, code[at].to)
    BY <1>1, <1>4 DEF RightAt
  <2>2. q \in PlaceOf(code[at].to)
    BY <1>4
  <2>3. Stands(own, base, start, q, Means(role, code[at].to))
    BY <2>2, LabelRight
  <2> QED  BY <2>1, <2>3
<1> QED
  BY <1>2, <1>3, <1>4

\* One step of the walk that evaluates or runs something.
LEMMA ActStands ==
    ASSUME NEW d, NEW own, NEW base, NEW start, NEW role,
           Ready(code, labels, d, own, base, start, role), DOMAIN code = 1 .. Len(code),
           Stands(own, base, start, at, expected), code[at].ev # None, at # Len(code),
           NEW holds \in BOOLEAN,
           NEW q \in IF Taken(code[at].op, holds) THEN PlaceOf(code[at].to) ELSE {at + 1}
    PROVE  Stands(own, base, start, q, After(expected, holds))
<1>1. PICK nx : RightAt(code[at], expected, nx, role) /\ Stands(own, base, start, at + 1, nx)
  BY GoesRight
<1>2. After(expected, holds) = IF Taken(code[at].op, holds) THEN Means(role, code[at].to) ELSE nx
  BY <1>1 DEF RightAt
<1>3. CASE Taken(code[at].op, holds)
  <2>1. q \in PlaceOf(code[at].to)
    BY <1>3
  <2>2. Stands(own, base, start, q, Means(role, code[at].to))
    BY <2>1, LabelRight
  <2> QED  BY <1>2, <1>3, <2>2
<1>4. CASE ~ Taken(code[at].op, holds)
  BY <1>1, <1>2, <1>4
<1> QED
  BY <1>3, <1>4

\* What src says depends on src alone.
LEMMA SameValues ==
    ASSUME src' = src
    PROVE  \A own, t : Values(own, t)' = Values(own, t)
<1>1. Depth' = Depth
  BY DEF Depth
<1>2. Enter' = Enter
  BY <1>1, SMTT(30) DEF Enter, Match, Around, Again, Owner, Return0
<1>3. \A t : Test(t)' = Test(t)
  BY <1>2 DEF Test
<1>4. Return0' = Return0
  BY DEF Return0
<1>5. \A kind, e : EndValues(kind, e)' = EndValues(kind, e)
  BY <1>2, <1>3, Zenon DEF EndValues
<1>6. \A kind, m, t : ValuesOf(kind, m, t)' = ValuesOf(kind, m, t)
  BY <1>2, <1>4, <1>5, ZenonT(40) DEF ValuesOf
<1> QED
  BY <1>6, Zenon DEF Values

\* The walk begins with the whole body.
LEMMA EndFunctionReady ==
    ASSUME IInv, Parsed, EndFunction
    PROVE  \E d, own, base, start, role :
              /\ Ready(code', labels, d, own, base, start, role)
              /\ Stands(own, base, start, at, Enter[1])
<1> DEFINE n == Len(src)
<1>1. /\ pc = "parse" /\ open = << >> /\ rejected = {} /\ at = 1
      /\ code' = code \o << Label(ReturnPoint), Do(Len(src) + 1, "exit") >>
  BY DEF EndFunction, Parsed, Tok
<1>2. src \in Seq(Token) /\ code \in Seq(AnyInstr) /\ n \in Nat
  BY <1>1, ParsedGood, LenProperties DEF Good
<1>3. PICK d, own, base, start, role :
         /\ Tree(src, d, own) /\ Labelled(src, own, base, role, labels)
         /\ Laid(n, Codes(n, src, own, base), start, code)
         /\ Stacked(src, open, d, own, base, TopKind(open))
  BY <1>1 DEF Parsed, Booked
<1>4. Whole(d, own)
  <2>1. TopKind(open) # "switch"
    BY <1>1 DEF TopKind
  <2>2. ~ Forked(src, own, Len(src))
    BY <1>3, <2>1 DEF Stacked
  <2>3. \A t \in 1 .. Len(src) : src[t] \in Opener => Shut(src, own, t, Len(src))
    <3>1. 1 .. Len(open) = {}
      BY <1>1
    <3> QED  BY <1>3, <3>1 DEF Stacked
  <2> QED  BY <1>2, <1>3, <2>2, <2>3 DEF Whole
<1> DEFINE e == Codes(n, src, own, base)
           f == Codes(n + 1, src, own, base)
<1>5. \A t \in 1 .. n : f[t] = e[t] /\ e[t] \in Seq(AnyInstr)
  <2>1. ASSUME NEW t \in 1 .. n
        PROVE  CodeAt(src, own, base, t) \in Seq(AnyInstr)
    <3>1. t \in Nat /\ KindAt(src, t) \in Token
      <4>1. t \in 1 .. Len(src) /\ t \in Nat
        OBVIOUS
      <4>2. src[t] \in Token /\ DOMAIN src = 1 .. Len(src)
        BY <1>4, <4>1, WholeIs
      <4> HIDE DEF n
      <4> QED  BY <4>1, <4>2 DEF KindAt
    <3>2. own[t] \in Nat
      BY <1>4, <3>1, WholeIs
    <3>3. base[t] \in Nat /\ base[own[t]] \in Nat
      BY <1>3, <3>1, <3>2 DEF Labelled
    <3> QED  BY <3>1, <3>3, CodeType DEF CodeAt
  <2>2. \A t \in 1 .. n : t \in 1 .. n + 1
    BY <1>2
  <2> QED  BY <2>1, <2>2 DEF Codes
<1>6. f[n + 1] = << Label(ReturnPoint), Do(Len(src) + 1, "exit") >> /\ f[n + 1] \in Seq(AnyInstr)
  <2>1. CodeAt(src, own, base, n + 1) = << Label(ReturnPoint), Do(Len(src) + 1, "exit") >>
    BY <1>4, FirstExit
  <2>2. n + 1 \in 1 .. n + 1 /\ n + 1 \in Nat
    BY <1>2
  <2>3. f[n + 1] = << Label(ReturnPoint), Do(Len(src) + 1, "exit") >>
    BY <2>1, <2>2 DEF Codes
  <2>4. Label(ReturnPoint) \in AnyInstr /\ Do(Len(src) + 1, "exit") \in AnyInstr
    BY <2>2 DEF Label, Do, AnyInstr, Event, Part, ReturnPoint
  <2> HIDE DEF f, AnyInstr, Label, Do
  <2> QED  BY <2>3, <2>4
<1> HIDE DEF e, f
<1>7. PICK start2 : Laid(n + 1, f, start2, code \o f[n + 1])
  <2>1. Laid(n, e, start, code)
    BY <1>3 DEF e
  <2> HIDE DEF n
  <2> QED  BY <1>2, <1>5, <1>6, <2>1, LaidGrows
<1>8. Ready(code', labels, d, own, base, start2, role)
  BY <1>1, <1>3, <1>4, <1>6, <1>7 DEF Ready, f
<1>9. First(own, 1) = Enter[1]
  <2>1. CASE n = 0
    <3>1. KindAt(src, 1) = "exit"
      <4>1. DOMAIN src = 1 .. 0 /\ 1 \notin 1 .. 0
        BY <1>2, <2>1, LenProperties
      <4> QED  BY <4>1 DEF KindAt
    <3> QED  BY <3>1 DEF First
  <2>2. CASE n # 0
    <3>1. 1 \in 1 .. n /\ 1 .. 1 - 1 = {} /\ 0 \notin 1 .. n /\ 1 - 1 = 0
      BY <1>2, <2>2
    <3>2. TokenOK(src, d, own, 1) /\ DOMAIN src = 1 .. n
      BY <1>4, <3>1, WholeIs
    <3>3. ~ Forked(src, own, 1 - 1)
      BY <3>1, <3>2 DEF Forked
    <3>4. src[1] # "case"
      BY <3>2, <3>3 DEF TokenOK, Follows
    <3>5. src[1] # "end"
      BY <3>1, <3>2 DEF TokenOK, Closes, Closer
    <3>6. KindAt(src, 1) = src[1]
      BY <3>1, <3>2 DEF KindAt
    <3> QED  BY <3>4, <3>5, <3>6 DEF First
  <2> QED  BY <2>1, <2>2
<1>10. Stands(own, base, start2, at, Enter[1])
  <2>1. 1 \in 1 .. Len(src) + 1
    BY <1>2
  <2>2. Stands(own, base, start2, start2[1] + 1, First(own, 1)) /\ start2[1] = 0
    BY <1>8, <2>1, Comes, ReadyIs
  <2>3. start2[1] + 1 = at
    BY <1>1, <2>2
  <2> QED  BY <1>9, <2>2, <2>3
<1> QED
  BY <1>8, <1>10

\* Every step keeps the walk where the source is.
LEMMA NextWalked ==
    ASSUME IInv, Parsed, Walked, ~ DoJumps, ~ Falls, [Next]_vars
    PROVE  Walked'
<1>1. CASE Parse
  <2>1. pc' = "parse"
    BY <1>1 DEF Parse, While, EndWhile, DoWhile, EndDoWhile, For, EndFor, If, EndIf, Else, EndElse,
                Switch, EndSwitch, Case, EndCase, Default, EndDefault, Run, Return, Break, Continue,
                Begin, End, OneToken
  <2> QED  BY <2>1 DEF Walked
<1> SUFFICES ASSUME EndFunction \/ Silent \/ Act \/ UNCHANGED vars, pc' = "walk"
             PROVE  \E d, own, base, start, role :
                       /\ Ready(code', labels, d, own, base, start, role)
                       /\ Stands(own, base, start, at', expected')
  <2>1. ASSUME EndFunction \/ Silent \/ Act \/ UNCHANGED vars
        PROVE  src' = src /\ labels' = labels
    <3>1. CASE EndFunction
      BY <3>1 DEF EndFunction
    <3>2. CASE Silent \/ Act \/ UNCHANGED vars
      BY <3>2 DEF Silent, Act, vars, generated
    <3> QED  BY <2>1, <3>1, <3>2
  <2>2. CASE EndFunction \/ Silent \/ Act \/ UNCHANGED vars
    <3>1. src' = src /\ labels' = labels
      BY <2>1, <2>2
    <3>2. CASE pc' # "walk"
      BY <3>2 DEF Walked
    <3>3. CASE pc' = "walk"
      <4>1. PICK d, own, base, start, role :
               /\ Ready(code', labels, d, own, base, start, role)
               /\ Stands(own, base, start, at', expected')
        BY <2>2, <3>3
      <4>2. Ready(code, labels, d, own, base, start, role)'
        BY <3>1, <4>1 DEF Ready, Whole
      <4>3. Stands(own, base, start, at, expected)'
        BY <3>1, <4>1, SameValues DEF Stands
      <4> QED  BY <4>2, <4>3 DEF Walked
    <3> QED  BY <3>2, <3>3
  <2> QED  BY <1>1, <2>2 DEF Next
<1>2. DOMAIN code = 1 .. Len(code)
  BY LenProperties DEF IInv, Typed
<1>3. CASE EndFunction
  <2>1. at' = at /\ expected' = Enter[1]
    BY <1>3 DEF EndFunction
  <2> QED  BY <1>3, <2>1, EndFunctionReady
<1>4. CASE Silent \/ Act \/ UNCHANGED vars
  <2>1. pc = "walk" /\ code' = code
    BY <1>4 DEF Silent, Act, vars, generated
  <2>2. PICK d, own, base, start, role :
           /\ Ready(code, labels, d, own, base, start, role)
           /\ Stands(own, base, start, at, expected)
    BY <2>1 DEF Walked
  <2>3. CASE Silent
    <3>1. /\ code[at].ev = None /\ expected' = expected
          /\ at' \in IF code[at].op = "label" THEN {at + 1} ELSE PlaceOf(code[at].to)
      BY <2>3 DEF Silent
    <3>2. Stands(own, base, start, at', expected)
      BY <1>2, <2>2, <3>1, SilentStands
    <3> QED  BY <2>1, <2>2, <3>1, <3>2
  <2>4. CASE Act
    <3>1. PICK holds \in BOOLEAN :
             /\ code[at].ev # None /\ at < Len(code) /\ expected' = After(expected, holds)
             /\ at' \in IF Taken(code[at].op, holds) THEN PlaceOf(code[at].to) ELSE {at + 1}
      BY <2>4 DEF Act, Taken
    <3>2. at # Len(code)
      <4>1. at \in Nat /\ Len(code) \in Nat
        BY LenProperties DEF IInv, Typed
      <4> QED  BY <3>1, <4>1
    <3>3. Stands(own, base, start, at', After(expected, holds))
      BY <1>2, <2>2, <3>1, <3>2, ActStands
    <3> QED  BY <2>1, <2>2, <3>1, <3>3
  <2>5. CASE UNCHANGED vars
    BY <2>1, <2>2, <2>5 DEF vars
  <2> QED  BY <1>4, <2>3, <2>4, <2>5
<1> QED
  BY <1>3, <1>4

\* Whatever the body and whatever its conditions give, the code does what the
\* source says in the order the source says it; only a continue in a do loop,
\* which skips the condition, and a case that runs into the next, which genCaseTail
\* does not let it, are left out.
THEOREM OrderKept ==
    ASSUME "continue in do" \notin Odd, "fall through" \notin Odd
    PROVE  Spec => []SameOrder
<1>1. ~ DoJumps /\ ~ Falls
  BY Zenon DEF DoJumps, Falls
<1>2. Init => Parsed /\ Walked
  <2>1. Init => Walked
    BY DEF Init, Walked
  <2> QED  BY <2>1, InitParsed
<1>3. IInv /\ Parsed /\ Walked /\ [Next]_vars => Parsed' /\ Walked'
  BY <1>1, NextParsed, NextWalked
<1>4. Walked => SameOrder
  <2> SUFFICES ASSUME Walked, pc = "walk", code[at].ev # None
               PROVE  code[at].ev = expected
    BY DEF SameOrder
  <2>1. PICK d, own, base, start, role :
           /\ Ready(code, labels, d, own, base, start, role)
           /\ Stands(own, base, start, at, expected)
    BY DEF Walked
  <2> QED  BY <2>1, DoesRight
<1> QED
  BY <1>2, <1>3, <1>4, Invariance, PTL DEF Spec
=============================================================================
