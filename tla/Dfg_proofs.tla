----------------------------- MODULE Dfg_proofs -----------------------------
(***************************************************************************)
(* Proofs about Dfg, for every number of blocks and every set of graphs:   *)
(* the links stay mirrored, and a search from clean marks answers exactly  *)
(* whether there is a path from ENTRY, so what toCode exports is exactly   *)
(* the reachable part of the graph.                                        *)
(***************************************************************************)
EXTENDS Dfg, TLAPS, WellFoundedInduction

-----------------------------------------------------------------------------
(* The inductive invariant *)

\* Where each phase can be, and what the history variable says of the marks.
Phases ==
    /\ shape \in Shapes
    /\ pc = "release" => phase = "condJmpOpt"
    /\ pc # "next" => cursor <= N
    /\ pc = "search" /\ phase = "condJmpOpt" => todo # << >>
    /\ pc = "search" <=> frames # << >>
    /\ pc # "search" /\ fresh => visited = {}
    /\ phase = "toCode" /\ pc = "search" => fresh /\ query = cursor
    /\ phase = "done" => cursor = N + 1 /\ pc = "next"

\* Every block the search has still to try reaches the block asked for.
Ancestors ==
    \A i \in DOMAIN frames : \A p \in frames[i].left :
        p \in Reachable(succs) => query \in Reachable(succs)

\* Every predecessor of a marked block is marked or has still to be tried.
Pending(p) == \E i \in DOMAIN frames : p \in frames[i].left

Marked ==
    fresh /\ pc = "search" =>
        /\ Entry \notin visited
        /\ query \in visited \/ Pending(query)
        /\ \A b \in visited, a \in Block :
              a \in prevs[b] => a \in visited \/ Pending(a)

\* canReach is exact for the blocks toCode has passed.
Exported ==
    \A b \in Block :
        canReach[b] = IF phase # "condJmpOpt" /\ b < cursor
                      THEN b \in Reachable(succs) ELSE TRUE

IInv == TypeOK /\ Phases /\ Mirror /\ Ancestors /\ Marked /\ Exported

-----------------------------------------------------------------------------
(* Lemmas *)

\* NextPrev takes one of the blocks that are left.
LEMMA NextPrevInLeft ==
    ASSUME NEW b \in Block \cup {NoBlock}, NEW left \in SUBSET Block, left # {}
    PROVE  NextPrev(b, left) \in left
<1> DEFINE R == {ss \in Nat \X Nat : ss[1] < ss[2]}
<1>1. IsWellFoundedOn(R, Nat)
  BY NatLessThanWellFounded DEF OpToRel
<1>2. left \subseteq Nat
  BY NAssumption DEF Block
<1>3. PICK p \in left : \A q \in left : ~ (<< q, p >> \in R)
  <2> HIDE DEF R
  <2> QED  BY <1>1, <1>2, WFMin
<1>4. ASSUME NEW q \in left  PROVE p <= q
  <2> DEFINE pair == << q, p >>
  <2>1. pair \in Nat \X Nat /\ pair[1] = q /\ pair[2] = p
    BY <1>2
  <2>2. ~ (pair \in R)
    BY <1>3
  <2> HIDE DEF pair
  <2>3. ~ (q < p)
    BY <2>1, <2>2
  <2> QED  BY <1>2, <2>3
<1> QED
  BY <1>3, <1>4 DEF NextPrev

\* ENTRY is reachable, and so are the successors of reachable blocks.
LEMMA ReachableClosed ==
    ASSUME NEW succ \in [Block -> [Slot -> Block \cup {NoBlock}]]
    PROVE  /\ Entry \in Reachable(succ)
           /\ \A a \in Reachable(succ), k \in Slot :
                 succ[a][k] \in Reachable(succ) \cup {NoBlock}
<1>1. Entry \in Reachable(succ)
  BY NAssumption DEF Reachable, ClosedSets, Entry, Block
<1>2. ASSUME NEW a \in Reachable(succ), NEW k \in Slot, succ[a][k] # NoBlock
      PROVE  succ[a][k] \in Reachable(succ)
  <2>1. succ[a][k] \in Block
    BY <1>2 DEF Reachable
  <2>2. ASSUME NEW set \in ClosedSets(succ)  PROVE succ[a][k] \in set
    <3>1. a \in set
      BY <2>2 DEF Reachable
    <3> QED  BY <1>2, <3>1, <2>2 DEF ClosedSets
  <2> QED  BY <2>1, <2>2 DEF Reachable
<1> QED
  BY <1>1, <1>2

\* A block outside some closed set that holds ENTRY is not reachable.
LEMMA ReachableLeast ==
    ASSUME NEW succ, NEW set \in ClosedSets(succ), NEW b \in Block, b \notin set
    PROVE  b \notin Reachable(succ)
BY DEF Reachable

\* What pushing on a stack and popping it do to its elements.
LEMMA PushPop ==
    ASSUME NEW S, NEW f \in S, NEW s \in Seq(S)
    PROVE  /\ << f >> \o s \in Seq(S)
           /\ DOMAIN (<< f >> \o s) = 1 .. Len(s) + 1
           /\ (<< f >> \o s)[1] = f
           /\ \A i \in 1 .. Len(s) : (<< f >> \o s)[i + 1] = s[i]
           /\ s # << >> => /\ Head(s) \in S /\ Head(s) = s[1] /\ 1 \in DOMAIN s
                           /\ Tail(s) \in Seq(S)
                           /\ DOMAIN Tail(s) = 1 .. Len(s) - 1
                           /\ \A i \in 1 .. Len(s) - 1 : Tail(s)[i] = s[i + 1]
OBVIOUS

\* The successors of a block, as a list, are blocks.
LEMMA SuccListType ==
    ASSUME TypeOK, NEW b \in Block
    PROVE  SuccList(b) \in Seq(Block)
<1>1. \A k \in Slot : succs[b][k] # NoBlock => << succs[b][k] >> \in Seq(Block)
  BY DEF TypeOK
<1> QED
  BY <1>1 DEF SuccList, Slot

-----------------------------------------------------------------------------
(* The invariant is inductive *)

\* linkBlocks builds links that agree, and nothing is searched yet.
LEMMA InitInv == Init => IInv
<1> SUFFICES ASSUME Init  PROVE IInv
  OBVIOUS
<1> USE NAssumption
<1>1. shape \in [kind : [Block -> Kind], target : [Block -> Block]]
  BY ShapesAssumption DEF Init
<1>2. LinkBlocks(shape) \in [Block -> [Slot -> Block \cup {NoBlock}]]
  <2> SUFFICES ASSUME NEW b \in Block
               PROVE  LinkBlocks(shape)[b] \in [Slot -> Block \cup {NoBlock}]
    BY DEF LinkBlocks
  <2>1. shape.target[b] \in Block
    BY <1>1
  <2> QED  BY <2>1 DEF LinkBlocks, Slot, Block, NoBlock
<1>3. PrevsOf(LinkBlocks(shape)) \in [Block -> SUBSET Block]
  BY DEF PrevsOf
<1>4. TypeOK
  BY <1>1, <1>2, <1>3 DEF Init, TypeOK, Entry, Block
<1>5. Phases
  BY DEF Init, Phases, Entry
<1>6. Mirror
  BY DEF Init, Mirror, PrevsOf
<1>7. Ancestors /\ Marked /\ Exported
  BY DEF Init, Ancestors, Marked, Exported
<1> QED
  BY <1>4, <1>5, <1>6, <1>7 DEF IInv

\* Steps that leave links and searches alone.
LEMMA ControlInv ==
    IInv /\ (KeepLinks \/ ReleaseEnd \/ ToCodeStart \/ ToCodeEnd \/ Done) => IInv'
<1> SUFFICES ASSUME IInv,
                    KeepLinks \/ ReleaseEnd \/ ToCodeStart \/ ToCodeEnd \/ Done
             PROVE  IInv'
  OBVIOUS
<1> USE NAssumption DEF IInv
<1>1. UNCHANGED <<shape, succs, prevs, visited, todo, query, frames, canReach, fresh>>
  BY DEF KeepLinks, ReleaseEnd, ToCodeStart, ToCodeEnd, Done, vars
<1>2. /\ cursor' \in 1 .. N + 1 /\ phase' \in {"condJmpOpt", "toCode", "done"}
      /\ pc' \in {"next", "release", "search"}
      /\ Phases'
  <2> USE <1>1 DEF Phases, TypeOK, Entry
  <2>1. CASE KeepLinks
    BY <2>1 DEF KeepLinks
  <2>2. CASE ReleaseEnd
    BY <2>2 DEF ReleaseEnd
  <2>3. CASE ToCodeStart
    BY <2>3 DEF ToCodeStart
  <2>4. CASE ToCodeEnd
    BY <2>4 DEF ToCodeEnd
  <2>5. CASE Done
    BY <2>5 DEF Done, vars
  <2> QED  BY <2>1, <2>2, <2>3, <2>4, <2>5
<1>3. TypeOK'
  BY <1>1, <1>2 DEF TypeOK
<1>4. Mirror' /\ Ancestors'
  BY <1>1 DEF Mirror, Ancestors
<1>5. pc' = "search" => pc = "search"
  BY DEF KeepLinks, ReleaseEnd, ToCodeStart, ToCodeEnd, Done, vars
<1>6. Marked'
  BY <1>1, <1>5 DEF Marked, Pending
<1>7. Exported'
  <2>1. ASSUME NEW b \in Block
        PROVE  (phase' # "condJmpOpt" /\ b < cursor')
                   <=> (phase # "condJmpOpt" /\ b < cursor)
    <3> USE <1>2 DEF Entry, Block
    <3>1. CASE KeepLinks
      BY <3>1 DEF KeepLinks
    <3>2. CASE ReleaseEnd
      BY <3>2 DEF ReleaseEnd, Phases
    <3>3. CASE ToCodeStart
      BY <3>3 DEF ToCodeStart
    <3>4. CASE ToCodeEnd
      BY <3>4 DEF ToCodeEnd
    <3>5. CASE Done
      BY <3>5 DEF Done, vars
    <3> QED  BY <3>1, <3>2, <3>3, <3>4, <3>5
  <2> QED  BY <1>1, <2>1 DEF Exported
<1> QED
  BY <1>2, <1>3, <1>4, <1>6, <1>7

\* A search begins with the block asked for as the only one to try.
LEMMA AskInv == IInv /\ (ReleaseNext \/ ToCodeNext) => IInv'
<1> SUFFICES ASSUME IInv, ReleaseNext \/ ToCodeNext  PROVE IInv'
  OBVIOUS
<1> USE NAssumption DEF IInv
<1>1. UNCHANGED <<shape, succs, prevs, phase, cursor, todo, canReach>>
  BY DEF ReleaseNext, ToCodeNext
<1>2. /\ pc' = "search" /\ query' \in Block
      /\ frames' = << [of |-> NoBlock, left |-> {query'}] >>
  <2>1. CASE ReleaseNext
    BY <2>1 DEF ReleaseNext, Ask, TypeOK
  <2>2. CASE ToCodeNext
    BY <2>2 DEF ToCodeNext, Ask, TypeOK, Block
  <2> QED  BY <2>1, <2>2
<1>3. frames' \in Seq([of : Block \cup {NoBlock}, left : SUBSET Block])
  <2>1. [of |-> NoBlock, left |-> {query'}]
           \in [of : Block \cup {NoBlock}, left : SUBSET Block]
    BY <1>2
  <2> QED  BY <1>2, <2>1
<1>4. DOMAIN frames' = {1} /\ frames'[1].left = {query'}
  BY <1>2
<1>5. fresh' => visited' = {}
  BY DEF ReleaseNext, ToCodeNext, Phases
<1>6. TypeOK'
  BY <1>1, <1>2, <1>3 DEF TypeOK, ReleaseNext, ToCodeNext
<1>7. Phases'
  BY <1>1, <1>2 DEF Phases, TypeOK, ReleaseNext, ToCodeNext, Ask
<1>8. Mirror' /\ Exported'
  BY <1>1 DEF Mirror, Exported
<1>9. Ancestors' /\ Marked'
  BY <1>4, <1>5 DEF Ancestors, Marked, Pending
<1> QED
  BY <1>6, <1>7, <1>8, <1>9

\* delLink: the marks are clean and no search is on.
LEMMA ResolveInv == IInv /\ ResolveJump => IInv'
<1> SUFFICES ASSUME IInv, ResolveJump  PROVE IInv'
  OBVIOUS
<1> USE NAssumption DEF IInv
<1>1. PICK end \in {cursor + 1, shape.target[cursor]} : DelLink(cursor, end)
  BY DEF ResolveJump
<1>2. cursor \in Block /\ end \in Block /\ shape' = shape /\ frames = << >>
  BY SMTT(30), <1>1 DEF ResolveJump, DelLink, TypeOK, Block, Phases
<1>3. succs' \in [Block -> [Slot -> Block \cup {NoBlock}]]
  BY <1>1, <1>2 DEF DelLink, TypeOK, Drop
<1>4. TypeOK'
  <2>1. prevs' \in [Block -> SUBSET Block]
    BY <1>1, <1>2 DEF DelLink, TypeOK
  <2>2. todo' \in Seq(Block)
    BY <1>1, <1>2 DEF DelLink
  <2> QED  BY <1>1, <1>3, <2>1, <2>2 DEF DelLink, TypeOK
<1>5. Phases'
  BY <1>1, <1>2 DEF DelLink, Phases, ResolveJump, TypeOK
<1>6. Mirror'
  <2> SUFFICES ASSUME NEW a \in Block, NEW b \in Block
               PROVE  a \in prevs'[b] <=> \E k \in Slot : succs'[a][k] = b
    BY DEF Mirror
  <2>1. a \in prevs[b] <=> \E k \in Slot : succs[a][k] = b
    BY DEF Mirror
  <2>2. a \in prevs'[b] <=> a \in prevs[b] /\ ~ (a = cursor /\ b = end)
    BY <1>1, <1>2 DEF DelLink, TypeOK
  <2>3. \A k \in Slot : succs'[a][k] = b
                         <=> succs[a][k] = b /\ ~ (a = cursor /\ b = end)
    <3>1. CASE a = cursor
      <4>1. succs'[a] = [k \in Slot |-> IF succs[a][k] = end THEN NoBlock
                                        ELSE succs[a][k]]
        BY <1>1, <1>2, <3>1 DEF DelLink, TypeOK, Drop
      <4> QED  BY <3>1, <4>1 DEF NoBlock, Block
    <3>2. CASE a # cursor
      BY <1>1, <1>2, <3>2 DEF DelLink, TypeOK
    <3> QED  BY <3>1, <3>2
  <2> QED  BY <2>1, <2>2, <2>3
<1>7. Ancestors' /\ Marked'
  BY <1>1, <1>2 DEF DelLink, Ancestors, Marked
<1>8. Exported'
  BY <1>1 DEF DelLink, Exported, ResolveJump
<1> QED
  BY <1>4, <1>5, <1>6, <1>7, <1>8

\* The innermost loop calls reachable(p): p is marked, and its predecessors
\* are left to try unless it was marked before.
LEMMA SearchCallInv == IInv /\ SearchCall => IInv'
<1> SUFFICES ASSUME IInv, SearchCall  PROVE IInv'
  OBVIOUS
<1> USE NAssumption DEF IInv
<1> DEFINE Frame == [of : Block \cup {NoBlock}, left : SUBSET Block]
           p     == NextPrev(Top.of, Top.left)
           used  == [Top EXCEPT !.left = @ \ {p}]
           rest  == << used >> \o Tail(frames)
           new   == [of |-> p, left |-> prevs[p]]
<1>1. /\ frames \in Seq(Frame) /\ frames # << >> /\ 1 \in DOMAIN frames
      /\ Top = frames[1] /\ Top \in Frame /\ Top.left # {}
  <2>1. frames \in Seq(Frame) /\ frames # << >> /\ Top.left # {}
    BY DEF SearchCall, TypeOK
  <2> HIDE DEF Frame
  <2>2. 1 \in DOMAIN frames /\ Head(frames) = frames[1] /\ Head(frames) \in Frame
    BY <2>1
  <2> QED  BY <2>1, <2>2 DEF Top
<1>2. p \in Top.left /\ p \in Block
  BY <1>1, NextPrevInLeft
<1>3. /\ p # Entry /\ visited' = visited \cup {p}
      /\ frames' = IF p \in visited THEN rest ELSE << new >> \o rest
      /\ UNCHANGED <<shape, succs, prevs, phase, cursor, pc, todo, query,
                     canReach, fresh>>
  BY DEF SearchCall
<1>4. used \in Frame /\ used.left = Top.left \ {p} /\ new \in Frame
  BY <1>1, <1>2 DEF TypeOK
<1>5. /\ rest \in Seq(Frame) /\ Len(rest) = Len(frames)
      /\ rest[1] = used
      /\ \A i \in 2 .. Len(frames) : rest[i] = frames[i]
  <2> DEFINE tail == Tail(frames)
  <2>1. /\ tail \in Seq(Frame) /\ Len(tail) = Len(frames) - 1
        /\ Len(frames) \in Nat /\ Len(frames) >= 1
        /\ \A i \in 1 .. Len(frames) - 1 : tail[i] = frames[i + 1]
    BY <1>1
  <2> HIDE DEF tail, used, Frame
  <2>2. /\ << used >> \o tail \in Seq(Frame)
        /\ Len(<< used >> \o tail) = Len(tail) + 1
        /\ (<< used >> \o tail)[1] = used
        /\ \A i \in 1 .. Len(tail) : (<< used >> \o tail)[i + 1] = tail[i]
    BY <1>4, <2>1
  <2>3. ASSUME NEW i \in 2 .. Len(frames)  PROVE (<< used >> \o tail)[i] = frames[i]
    <3>1. i - 1 \in 1 .. Len(tail) /\ (i - 1) + 1 = i
      BY <2>1
    <3> QED  BY <2>1, <2>2, <3>1
  <2> QED  BY <2>1, <2>2, <2>3 DEF tail
<1> HIDE DEF p, used, rest, new, Frame
<1>6. frames' \in Seq(Frame) /\ frames' # << >>
  <2>1. CASE p \in visited
    <3>1. frames' = rest
      BY <1>3, <2>1
    <3>2. Len(rest) # 0
      BY <1>1, <1>5
    <3> QED  BY <1>5, <3>1, <3>2
  <2>2. CASE p \notin visited
    <3>1. frames' = << new >> \o rest
      BY <1>3, <2>2
    <3>2. << new >> \o rest \in Seq(Frame) /\ Len(<< new >> \o rest) = 1 + Len(rest)
      BY <1>4, <1>5
    <3>3. Len(rest) \in Nat /\ 1 + Len(rest) # 0
      BY <1>5
    <3> QED  BY <3>1, <3>2, <3>3
  <2> QED  BY <2>1, <2>2
<1>7. TypeOK'
  BY <1>2, <1>3, <1>6 DEF TypeOK, Frame
<1>8. Phases' /\ Mirror' /\ Exported'
  <2>1. pc = "search"
    BY DEF SearchCall
  <2>2. Phases'
    BY <1>3, <1>6, <2>1 DEF Phases
  <2> QED  BY <1>3, <2>2 DEF Mirror, Exported
<1>9. \* A block left to try is p's predecessor or was left before.
      ASSUME NEW i \in DOMAIN frames', NEW a \in frames'[i].left
      PROVE  \/ a \in prevs[p]
             \/ \E j \in DOMAIN frames : a \in frames[j].left
  <2>1. ASSUME NEW j \in DOMAIN rest, a \in rest[j].left
        PROVE  \E h \in DOMAIN frames : a \in frames[h].left
    <3>1. CASE j = 1
      BY <1>1, <1>4, <1>5, <2>1, <3>1
    <3>2. CASE j # 1
      BY <1>1, <1>5, <2>1, <3>2
    <3> QED  BY <3>1, <3>2
  <2>2. CASE p \in visited
    BY <1>3, <2>1, <2>2
  <2>3. CASE p \notin visited
    <3>1. frames' = << new >> \o rest
      BY <1>3, <2>3
    <3>2. CASE i = 1
      BY <3>1, <3>2, <1>4, <1>5 DEF new
    <3>3. CASE i # 1
      <4>1. i - 1 \in DOMAIN rest /\ frames'[i] = rest[i - 1]
        BY <3>1, <3>3, <1>4, <1>5
      <4> QED  BY <4>1, <2>1
    <3> QED  BY <3>2, <3>3
  <2> QED  BY <2>2, <2>3
<1>10. Ancestors'
  <2>1. p \in Reachable(succs) => query \in Reachable(succs)
    BY <1>1, <1>2 DEF Ancestors
  <2>2. \A a \in prevs[p] : a \in Reachable(succs) => p \in Reachable(succs)
    <3> SUFFICES ASSUME NEW a \in prevs[p], a \in Reachable(succs)
                 PROVE  p \in Reachable(succs)
      OBVIOUS
    <3>1. a \in Block
      BY DEF Reachable
    <3>2. PICK k \in Slot : succs[a][k] = p
      BY <1>2, <3>1 DEF Mirror
    <3>3. succs[a][k] \in Reachable(succs) \cup {NoBlock}
      BY ReachableClosed DEF TypeOK
    <3> QED  BY <1>2, <3>2, <3>3 DEF Block, NoBlock
  <2> QED  BY <1>3, <1>9, <2>1, <2>2 DEF Ancestors
<1>11. \* What was left to try is left still, but for p, which is marked.
       ASSUME NEW a \in Block, Pending(a)
       PROVE  a \in visited' \/ Pending(a)'
  <2>1. PICK j \in DOMAIN frames : a \in frames[j].left
    BY <1>11 DEF Pending
  <2>2. CASE a = p
    BY <1>3, <2>2
  <2>3. CASE a # p
    <3>1. j \in DOMAIN rest /\ a \in rest[j].left
      BY <1>1, <1>4, <1>5, <2>1, <2>3
    <3>2. CASE p \in visited
      BY <1>3, <3>1, <3>2 DEF Pending
    <3>3. CASE p \notin visited
      <4>1. j + 1 \in DOMAIN frames' /\ frames'[j + 1] = rest[j]
        BY <1>3, <1>4, <1>5, <3>1, <3>3
      <4> QED  BY <3>1, <4>1 DEF Pending
    <3> QED  BY <3>2, <3>3
  <2> QED  BY <2>2, <2>3
<1>12. \* The predecessors of p are left to try if p was not marked.
       ASSUME p \notin visited, NEW a \in prevs[p]
       PROVE  Pending(a)'
  <2>1. frames' = << new >> \o rest
    BY <1>3, <1>12
  <2>2. 1 \in DOMAIN frames' /\ frames'[1] = new
    BY <2>1, <1>4, <1>5
  <2> QED  BY <2>2, <1>12 DEF Pending, new
<1>13. Marked'
  <2> SUFFICES ASSUME fresh', pc' = "search"
               PROVE  /\ Entry \notin visited'
                      /\ query' \in visited' \/ Pending(query)'
                      /\ \A b \in visited', a \in Block :
                           a \in prevs'[b] => a \in visited' \/ Pending(a)'
    BY <1>3 DEF Marked, Pending
  <2>1. /\ Entry \notin visited
        /\ query \in visited \/ Pending(query)
        /\ \A b \in visited, a \in Block :
              a \in prevs[b] => a \in visited \/ Pending(a)
    BY <1>3 DEF Marked
  <2>2. Entry \notin visited'
    BY <1>3, <2>1
  <2>3. query' \in visited' \/ Pending(query)'
    <3>1. query' = query /\ query \in Block
      BY <1>3 DEF TypeOK
    <3> QED  BY <1>3, <1>11, <2>1, <3>1 DEF Pending
  <2>4. ASSUME NEW b \in visited', NEW a \in Block, a \in prevs'[b]
        PROVE  a \in visited' \/ Pending(a)'
    <3>1. CASE b \in visited
      BY <1>3, <1>11, <2>1, <2>4, <3>1
    <3>2. CASE b \notin visited
      BY <1>3, <1>12, <2>4, <3>2
    <3> QED  BY <3>1, <3>2
  <2> QED  BY <2>2, <2>3, <2>4
<1> QED
  BY <1>7, <1>8, <1>10, <1>13

\* A call returns false to the loop that made it.
LEMMA SearchReturnInv == IInv /\ SearchReturn => IInv'
<1> SUFFICES ASSUME IInv, SearchReturn  PROVE IInv'
  OBVIOUS
<1> USE NAssumption DEF IInv
<1> DEFINE Frame == [of : Block \cup {NoBlock}, left : SUBSET Block]
<1>1. /\ frames \in Seq(Frame) /\ Len(frames) > 1 /\ frames[1].left = {}
      /\ frames' = Tail(frames)
      /\ UNCHANGED <<shape, succs, prevs, visited, phase, cursor, pc, todo,
                     query, canReach, fresh>>
  <2>1. frames \in Seq(Frame) /\ frames # << >> /\ Top.left = {}
    BY DEF SearchReturn, TypeOK
  <2> HIDE DEF Frame
  <2>2. Head(frames) = frames[1]
    BY <2>1
  <2> QED  BY <2>1, <2>2 DEF Top, SearchReturn
<1> HIDE DEF Frame
<1>2. /\ frames' \in Seq(Frame) /\ DOMAIN frames' = 1 .. Len(frames) - 1
      /\ \A i \in 1 .. Len(frames) - 1 : frames'[i] = frames[i + 1]
      /\ Len(frames) \in Nat /\ DOMAIN frames = 1 .. Len(frames)
  BY <1>1
<1>3. frames' # << >>
  <2>1. 1 \in DOMAIN frames'
    BY <1>1, <1>2
  <2> QED  BY <2>1
<1>4. TypeOK'
  BY <1>1, <1>2 DEF TypeOK, Frame
<1>5. Phases' /\ Mirror' /\ Exported'
  <2>1. pc = "search"
    BY DEF SearchReturn
  <2>2. Phases'
    BY <1>1, <1>3, <2>1 DEF Phases
  <2> QED  BY <1>1, <2>2 DEF Mirror, Exported
<1>6. Ancestors'
  BY <1>1, <1>2 DEF Ancestors
<1>7. ASSUME NEW a, Pending(a)  PROVE Pending(a)'
  <2>1. PICK j \in DOMAIN frames : a \in frames[j].left
    BY <1>7 DEF Pending
  <2>2. j # 1
    BY <1>1, <2>1
  <2>3. j - 1 \in DOMAIN frames' /\ frames'[j - 1] = frames[j]
    BY <1>1, <1>2, <2>1, <2>2
  <2> QED  BY <2>1, <2>3 DEF Pending
<1>8. Marked'
  <2>1. /\ Pending(query) => Pending(query)'
        /\ \A a \in Block : Pending(a) => Pending(a)'
    BY <1>1, <1>7 DEF Pending
  <2> QED  BY <1>1, <2>1 DEF Marked, Pending
<1> QED
  BY <1>4, <1>5, <1>6, <1>8

-----------------------------------------------------------------------------
(* What the answers mean *)

\* ENTRY is reachable, so a search that comes to it began at a reachable block.
LEMMA TrueAnswer == IInv => TrueIsRight
<1> SUFFICES ASSUME IInv, AnswersTrue  PROVE query \in Reachable(succs)
  BY DEF TrueIsRight
<1> DEFINE Frame == [of : Block \cup {NoBlock}, left : SUBSET Block]
<1>1. frames \in Seq(Frame) /\ frames # << >> /\ Top.left # {}
  BY DEF AnswersTrue, IInv, TypeOK
<1>2. 1 \in DOMAIN frames /\ Top = frames[1] /\ Top \in Frame
  <2> HIDE DEF Frame
  <2> QED  BY <1>1 DEF Top
<1>3. Entry \in Top.left
  BY <1>1, <1>2, NextPrevInLeft DEF AnswersTrue
<1>4. Entry \in Reachable(succs)
  BY ReachableClosed DEF IInv, TypeOK
<1> QED
  BY <1>2, <1>3, <1>4 DEF IInv, Ancestors

\* The marks of an exhausted search are closed under predecessors, so the
\* other blocks are closed under successors; ENTRY is one of them.
LEMMA FalseAnswer == IInv => FalseIsRight
<1> SUFFICES ASSUME IInv, AnswersFalse, fresh  PROVE query \notin Reachable(succs)
  BY DEF FalseIsRight
<1> DEFINE rest == Block \ visited
<1>1. \A a : ~ Pending(a)
  <2> DEFINE Frame == [of : Block \cup {NoBlock}, left : SUBSET Block]
  <2>1. frames \in Seq(Frame) /\ Len(frames) = 1 /\ Top.left = {}
    BY DEF AnswersFalse, IInv, TypeOK
  <2>2. DOMAIN frames = {1} /\ Top = frames[1]
    <3> HIDE DEF Frame
    <3> QED  BY <2>1 DEF Top
  <2> QED  BY <2>1, <2>2 DEF Pending
<1>2. /\ Entry \notin visited /\ query \in visited
      /\ \A b \in visited, a \in Block : a \in prevs[b] => a \in visited
  BY <1>1 DEF IInv, Marked, AnswersFalse
<1>3. rest \in ClosedSets(succs)
  <2>1. Entry \in rest
    BY <1>2, NAssumption DEF Entry, Block
  <2>2. ASSUME NEW a \in rest, NEW k \in Slot, succs[a][k] # NoBlock
        PROVE  succs[a][k] \in rest
    <3>1. succs[a][k] \in Block
      BY <2>2 DEF IInv, TypeOK
    <3>2. a \in prevs[succs[a][k]]
      BY <3>1 DEF IInv, Mirror
    <3> QED  BY <1>2, <3>1, <3>2
  <2> QED  BY <2>1, <2>2 DEF ClosedSets
<1>4. query \in Block /\ query \notin rest
  BY <1>2 DEF IInv, TypeOK
<1> QED
  BY <1>3, <1>4, ReachableLeast

\* release goes on, and its block has lost its links or not.
LEMMA ReleaseInv == IInv /\ (ReleaseKeeps \/ ReleaseCuts) => IInv'
<1> SUFFICES ASSUME IInv, ReleaseKeeps \/ ReleaseCuts  PROVE IInv'
  OBVIOUS
<1> USE NAssumption DEF IInv
<1>1. /\ phase = "condJmpOpt" /\ pc = "search" /\ pc' = "release"
      /\ frames' = << >> /\ fresh' = FALSE
      /\ UNCHANGED <<shape, visited, phase, cursor, query, canReach>>
  BY DEF ReleaseKeeps, ReleaseCuts, AnswersTrue, AnswersFalse
<1>2. todo # << >> /\ todo \in Seq(Block) /\ query \in Block /\ Tail(todo) \in Seq(Block)
  BY <1>1 DEF Phases, TypeOK
<1>3. /\ succs' \in [Block -> [Slot -> Block \cup {NoBlock}]]
      /\ prevs' \in [Block -> SUBSET Block]
      /\ todo' \in Seq(Block)
      /\ Mirror'
  <2>1. CASE ReleaseKeeps
    BY <1>2, <2>1 DEF ReleaseKeeps, TypeOK, Mirror
  <2>2. CASE ReleaseCuts
    <3>1. << NoBlock, NoBlock >> \in [Slot -> Block \cup {NoBlock}]
      BY DEF Slot
    <3>2. succs' \in [Block -> [Slot -> Block \cup {NoBlock}]]
      BY <2>2, <3>1 DEF ReleaseCuts, TypeOK
    <3>3. prevs' \in [Block -> SUBSET Block]
      BY <2>2 DEF ReleaseCuts, TypeOK
    <3>4. todo' \in Seq(Block)
      BY <1>2, <2>2, SuccListType DEF ReleaseCuts
    <3>5. Mirror'
      <4> SUFFICES ASSUME NEW a \in Block, NEW b \in Block
                   PROVE  a \in prevs'[b] <=> \E k \in Slot : succs'[a][k] = b
        BY DEF Mirror
      <4>1. a \in prevs[b] <=> \E k \in Slot : succs[a][k] = b
        BY DEF Mirror
      <4>2. a \in prevs'[b] <=> a \in prevs[b] /\ a # query
        BY <1>2, <2>2, <4>1 DEF ReleaseCuts, TypeOK
      <4>3. CASE a = query
        <5>1. \A k \in Slot : succs'[a][k] = NoBlock
          BY <1>2, <2>2, <4>3 DEF ReleaseCuts, TypeOK, Slot
        <5> QED  BY <4>2, <4>3, <5>1 DEF NoBlock, Block
      <4>4. CASE a # query
        <5>1. succs'[a] = succs[a]
          BY <2>2, <4>4 DEF ReleaseCuts, TypeOK
        <5> QED  BY <4>1, <4>2, <4>4, <5>1
      <4> QED  BY <4>3, <4>4
    <3> QED  BY <3>2, <3>3, <3>4, <3>5
  <2> QED  BY <2>1, <2>2
<1>4. TypeOK'
  <2>1. frames' \in Seq([of : Block \cup {NoBlock}, left : SUBSET Block])
    BY <1>1
  <2>2. fresh' \in BOOLEAN /\ pc' \in {"next", "release", "search"}
    BY <1>1
  <2> QED  BY <1>1, <1>3, <2>1, <2>2 DEF TypeOK
<1>5. Phases'
  BY <1>1 DEF Phases
<1>6. Ancestors'
  BY <1>1 DEF Ancestors
<1>7. Marked'
  BY <1>1 DEF Marked
<1>8. Exported'
  BY <1>1 DEF Exported
<1> QED
  BY <1>3, <1>4, <1>5, <1>6, <1>7, <1>8

\* toCode notes the answer for its block and goes to the next.
LEMMA ToCodeAnswerInv == IInv /\ ToCodeAnswer => IInv'
<1> SUFFICES ASSUME IInv, ToCodeAnswer  PROVE IInv'
  OBVIOUS
<1> USE NAssumption DEF IInv
<1>1. /\ phase = "toCode" /\ pc = "search" /\ pc' = "next" /\ cursor' = cursor + 1
      /\ frames' = << >> /\ fresh' = FALSE
      /\ UNCHANGED <<shape, succs, prevs, visited, phase, todo, query>>
  BY DEF ToCodeAnswer, AnswersTrue, AnswersFalse
<1>2. fresh /\ query = cursor /\ cursor \in Block
  BY <1>1 DEF Phases, TypeOK, Block
<1>3. canReach' = [canReach EXCEPT ![cursor] = cursor \in Reachable(succs)]
  <2> DEFINE reach == cursor \in Reachable(succs)
  <2>1. canReach[cursor] = TRUE
    <3>1. ~ (cursor < cursor)
      BY <1>2 DEF Block
    <3> QED  BY <1>2, <3>1 DEF Exported
  <2>2. CASE AnswersTrue /\ UNCHANGED canReach
    <3>1. cursor \in Reachable(succs)
      BY <1>2, <2>2, TrueAnswer DEF TrueIsRight
    <3>2. reach = TRUE
      BY <3>1
    <3> HIDE DEF reach
    <3>3. canReach' = [canReach EXCEPT ![cursor] = reach]
      BY <2>1, <2>2, <3>2 DEF TypeOK
    <3> QED  BY <3>3 DEF reach
  <2>3. CASE AnswersFalse /\ canReach' = [canReach EXCEPT ![cursor] = FALSE]
    <3>1. cursor \notin Reachable(succs)
      BY <1>2, <2>3, FalseAnswer DEF FalseIsRight
    <3>2. reach = FALSE
      BY <3>1
    <3> HIDE DEF reach
    <3>3. canReach' = [canReach EXCEPT ![cursor] = reach]
      BY <2>3, <3>2
    <3> QED  BY <3>3 DEF reach
  <2> QED  BY <2>2, <2>3 DEF ToCodeAnswer
<1>4. TypeOK'
  <2>1. cursor' \in 1 .. N + 1
    BY <1>1, <1>2 DEF Block
  <2>2. canReach' \in [Block -> BOOLEAN]
    <3> DEFINE reach == cursor \in Reachable(succs)
    <3>1. reach \in BOOLEAN
      OBVIOUS
    <3> HIDE DEF reach
    <3>2. canReach' = [canReach EXCEPT ![cursor] = reach]
      BY <1>3 DEF reach
    <3> QED  BY <3>1, <3>2 DEF TypeOK
  <2>3. frames' \in Seq([of : Block \cup {NoBlock}, left : SUBSET Block])
    BY <1>1
  <2>4. fresh' \in BOOLEAN /\ pc' \in {"next", "release", "search"}
    BY <1>1
  <2> QED  BY <1>1, <2>1, <2>2, <2>3, <2>4 DEF TypeOK
<1>5. Phases'
  BY <1>1 DEF Phases
<1>6. Mirror' /\ Ancestors' /\ Marked'
  BY <1>1 DEF Mirror, Ancestors, Marked
<1>7. Exported'
  <2> SUFFICES ASSUME NEW b \in Block
               PROVE  canReach'[b] = IF b < cursor' THEN b \in Reachable(succs)
                                                    ELSE TRUE
    BY <1>1 DEF Exported
  <2>1. canReach[b] = IF b < cursor THEN b \in Reachable(succs) ELSE TRUE
    BY <1>1 DEF Exported
  <2>2. CASE b = cursor
    <3>1. b < cursor'
      BY <1>1, <1>2, <2>2 DEF Block
    <3>2. canReach'[b] = (b \in Reachable(succs))
      BY <1>2, <1>3, <2>2 DEF TypeOK
    <3> QED  BY <3>1, <3>2
  <2>3. CASE b # cursor
    <3>1. canReach'[b] = canReach[b]
      BY <1>3, <2>3 DEF TypeOK
    <3>2. b < cursor' <=> b < cursor
      BY <1>1, <1>2, <2>3 DEF Block
    <3> QED  BY <2>1, <3>1, <3>2
  <2> QED  BY <2>2, <2>3
<1> QED
  BY <1>4, <1>5, <1>6, <1>7

-----------------------------------------------------------------------------
(* Theorems *)

\* Every step keeps the invariant.
LEMMA NextInv == IInv /\ [Next]_vars => IInv'
<1> SUFFICES ASSUME IInv, [Next]_vars  PROVE IInv'
  OBVIOUS
<1>1. CASE UNCHANGED vars
  BY ZenonT(60), <1>1 DEF vars, IInv, TypeOK, Phases, Mirror, Ancestors, Marked, Pending,
              Exported
<1> QED
  BY <1>1, ControlInv, AskInv, ResolveInv, SearchCallInv, SearchReturnInv,
     ReleaseInv, ToCodeAnswerInv DEF Next

\* The inductive invariant holds in every reachable state.
THEOREM Invariance == Spec => []IInv
<1> QED
  BY InitInv, NextInv, PTL DEF Spec

\* Every variable keeps its type.
THEOREM TypeCorrect == Spec => []TypeOK
<1>1. IInv => TypeOK
  BY DEF IInv
<1> QED
  BY Invariance, <1>1, PTL

\* The predecessor and successor lists mirror each other whatever links
\* condJmpOpt takes away.
THEOREM LinksMirror == Spec => []Mirror
<1>1. IInv => Mirror
  BY DEF IInv
<1> QED
  BY Invariance, <1>1, PTL

\* DFG::reachable is right whenever it answers true.
THEOREM ReachableTrue == Spec => []TrueIsRight
<1> QED
  BY Invariance, TrueAnswer, PTL

\* DFG::reachable is right whenever it answers false and the marks were clean.
THEOREM ReachableFalse == Spec => []FalseIsRight
<1> QED
  BY Invariance, FalseAnswer, PTL

\* Both kinds of answers together: DFG::reachable can be relied on whenever its
\* marks were clean, for every graph and every order of delLink and release.
THEOREM ReachableAnswers == Spec => []ReachableIsRight
  BY ReachableTrue, ReachableFalse, PTL DEF ReachableIsRight

\* toCode exports exactly the blocks there is a path to.
THEOREM ExportExact == Spec => []CanReachIsExact
<1>1. IInv => CanReachIsExact
  <2> SUFFICES ASSUME IInv, phase = "done"
               PROVE  canReach = [b \in Block |-> b \in Reachable(succs)]
    BY DEF CanReachIsExact
  <2>1. ASSUME NEW b \in Block  PROVE canReach[b] = (b \in Reachable(succs))
    <3>1. b < cursor
      BY NAssumption DEF IInv, Phases, Block
    <3> QED  BY <3>1 DEF IInv, Exported
  <2>2. canReach \in [Block -> BOOLEAN]
    BY DEF IInv, TypeOK
  <2> QED  BY <2>1, <2>2
<1> QED
  BY Invariance, <1>1, PTL
=============================================================================
