-------------------------------- MODULE Dfg --------------------------------
(***************************************************************************)
(* The data flow graph of one function (compiler/optimize/dfg.cpp) while   *)
(* ConstPropagation::condJmpOpt resolves its constant conditional jumps    *)
(* and DFG::toCode then exports the blocks that can still be reached.      *)
(*                                                                         *)
(* Blocks are numbered in code order, from the ENTRY block 1 to the EXIT   *)
(* block N.  A block has at most two successors, so its list of successors *)
(* is a pair <<fall-through, jump>> where 0 stands for an absent link; its *)
(* predecessors are a set, and the order of the list in the code (the      *)
(* fall-through predecessor first, then the jumps in block order) is the   *)
(* order in which NextPrev takes them.                                     *)
(*                                                                         *)
(* The two recursive methods are step machines.  `frames' is the stack of  *)
(* active calls of DFG::reachable, each with the predecessors its loop has *)
(* still to try, and `todo' is the stack of pending calls of DFG::release. *)
(***************************************************************************)
EXTENDS Integers, Sequences, FiniteSets

CONSTANTS
    N,       \* number of basic blocks
    Shapes   \* the graphs to start from: [kind, target] for every block

Block == 1 .. N
Entry == 1
Slot  == 1 .. 2        \* 1: fall-through successor, 2: jump successor
NoBlock == 0

\* The last instruction of a block: none that jumps, JMP, RET or RETV, JT or
\* JF, or the JNE of a switch, whose condition condJmpOpt never resolves.
Kind == {"fall", "jmp", "jcond", "jne"}

ASSUME NAssumption == N \in Nat /\ N >= 3

\* ENTRY and EXIT are blocks of one instruction, only labels between them
\* are jumped to, and the block before EXIT ends with the return label.
ASSUME ShapesAssumption ==
    \A s \in Shapes :
        /\ s \in [kind : [Block -> Kind], target : [Block -> Block]]
        /\ s.kind[Entry] = "fall" /\ s.kind[N] = "fall"
        /\ s.kind[N - 1] = "fall"
        /\ \A b \in Block : s.target[b] \in 2 .. N - 1

VARIABLES
    shape,     \* the instructions that end the blocks, as generated
    succs,     \* Block::succs
    prevs,     \* Block::prevs
    visited,   \* the blocks whose Block::visited mark is set
    phase,     \* "condJmpOpt", "toCode" or "done"
    cursor,    \* the block the loop of the current phase is at
    pc,        \* "next", "release" or "search" within that loop
    todo,      \* pending calls of DFG::release
    query,     \* the argument of the outermost call of DFG::reachable
    frames,    \* active calls of DFG::reachable
    canReach,  \* Block::canReach
    fresh      \* history: no call of reachable has ended since resetVisit

vars == <<shape, succs, prevs, visited, phase, cursor, pc, todo, query,
          frames, canReach, fresh>>

-----------------------------------------------------------------------------
(* Links *)

\* linkBlocks: the next block unless the last instruction is a jump, and the
\* block of the label a (conditional) jump names.
LinkBlocks(s) ==
    [b \in Block |->
        << IF b < N /\ s.kind[b] # "jmp" THEN b + 1 ELSE NoBlock,
           IF s.kind[b] # "fall" THEN s.target[b] ELSE NoBlock >>]

\* The same links seen from the successors.
PrevsOf(succ) ==
    [b \in Block |-> {a \in Block : \E k \in Slot : succ[a][k] = b}]

Drop(pair, b) == [k \in Slot |-> IF pair[k] = b THEN NoBlock ELSE pair[k]]

\* The list of successors, in the order of Block::succs.
SuccList(b) ==
    (IF succs[b][1] # NoBlock THEN << succs[b][1] >> ELSE << >>) \o
    (IF succs[b][2] # NoBlock THEN << succs[b][2] >> ELSE << >>)

\* The predecessor the loop of reachable(b) tries next.
NextPrev(b, left) ==
    IF b - 1 \in left /\ succs[b - 1][1] = b
    THEN b - 1
    ELSE CHOOSE p \in left : \A q \in left : p <= q

\* The sets that hold ENTRY and, with a block, its successors.
ClosedSets(succ) ==
    {set \in SUBSET Block :
        /\ Entry \in set
        /\ \A a \in set, k \in Slot : succ[a][k] \in set \cup {NoBlock}}

\* The blocks there is a path to from ENTRY.
Reachable(succ) == LET closed == ClosedSets(succ) IN
    {b \in Block : \A set \in closed : b \in set}

-----------------------------------------------------------------------------
Init ==
    /\ shape \in Shapes
    /\ succs = LinkBlocks(shape)
    /\ prevs = PrevsOf(LinkBlocks(shape))
    /\ visited = {}
    /\ phase = "condJmpOpt"
    /\ cursor = Entry
    /\ pc = "next"
    /\ todo = << >>
    /\ query = Entry
    /\ frames = << >>
    /\ canReach = [b \in Block |-> TRUE]
    /\ fresh = TRUE

\* reachable(b) is called from outside the recursion.
Ask(b) ==
    /\ pc' = "search"
    /\ query' = b
    /\ frames' = << [of |-> NoBlock, left |-> {b}] >>

\* delLink(begin, end): forget the marks, drop the link, release `end'.
DelLink(begin, end) ==
    /\ visited' = {}
    /\ fresh' = TRUE
    /\ succs' = [succs EXCEPT ![begin] = Drop(@, end)]
    /\ prevs' = [prevs EXCEPT ![end] = @ \ {begin}]
    /\ todo' = << end >>
    /\ pc' = "release"
    /\ UNCHANGED <<shape, phase, cursor, query, frames, canReach>>

\* Mutant of KeepLinks: the loop has no end.
KeepLinksAgain ==
    /\ phase = "condJmpOpt" /\ pc = "next"
    /\ cursor' = cursor + 1
    /\ UNCHANGED <<shape, succs, prevs, visited, phase, pc, todo, query,
                   frames, canReach, fresh>>

\* condJmpOpt at a block that does not end with a conditional jump, at one
\* whose condition is not a constant, and at one whose target is the next
\* block, where the link is needed whatever the condition is.
KeepLinks ==
    /\ phase = "condJmpOpt" /\ pc = "next" /\ cursor <= N
    /\ cursor' = cursor + 1
    /\ UNCHANGED <<shape, succs, prevs, visited, phase, pc, todo, query,
                   frames, canReach, fresh>>

\* condJmpOpt at a constant condition: the instruction becomes a JMP and the
\* fall-through link goes, or it is removed and the jump link goes.
ResolveJump ==
    /\ phase = "condJmpOpt" /\ pc = "next" /\ cursor < N
    /\ shape.kind[cursor] = "jcond"
    /\ shape.target[cursor] # cursor + 1
    /\ \E end \in {cursor + 1, shape.target[cursor]} : DelLink(cursor, end)

\* release(Head(todo)) asks whether the block can be reached.
ReleaseNext ==
    /\ pc = "release" /\ todo # << >>
    /\ Ask(Head(todo))
    /\ UNCHANGED <<shape, succs, prevs, visited, phase, cursor, todo,
                   canReach, fresh>>

\* The outermost release returns, and with it delLink.
ReleaseEnd ==
    /\ pc = "release" /\ todo = << >>
    /\ pc' = "next"
    /\ cursor' = cursor + 1
    /\ UNCHANGED <<shape, succs, prevs, visited, phase, todo, query, frames,
                   canReach, fresh>>

Top == Head(frames)

\* Mutants of SearchCall: the search gives up after the first predecessor; it
\* tries a marked predecessor again and again.
SearchCallFirst ==
    /\ pc = "search" /\ frames # << >> /\ Top.left # {}
    /\ LET p    == NextPrev(Top.of, Top.left)
           rest == << [Top EXCEPT !.left = {}] >> \o Tail(frames)
       IN  /\ p # Entry
           /\ visited' = visited \cup {p}
           /\ frames' = IF p \in visited
                        THEN rest
                        ELSE << [of |-> p, left |-> prevs[p]] >> \o rest
    /\ UNCHANGED <<shape, succs, prevs, phase, cursor, pc, todo, query,
                   canReach, fresh>>

SearchCallStays ==
    /\ pc = "search" /\ frames # << >> /\ Top.left # {}
    /\ LET p    == NextPrev(Top.of, Top.left)
           rest == << [Top EXCEPT !.left = @ \ {p}] >> \o Tail(frames)
       IN  /\ p # Entry
           /\ visited' = visited \cup {p}
           /\ frames' = IF p \in visited
                        THEN frames
                        ELSE << [of |-> p, left |-> prevs[p]] >> \o rest
    /\ UNCHANGED <<shape, succs, prevs, phase, cursor, pc, todo, query,
                   canReach, fresh>>

\* The innermost loop of reachable calls reachable(p) for its next block p.
SearchCall ==
    /\ pc = "search" /\ frames # << >> /\ Top.left # {}
    /\ LET p    == NextPrev(Top.of, Top.left)
           rest == << [Top EXCEPT !.left = @ \ {p}] >> \o Tail(frames)
       IN  /\ p # Entry
           /\ visited' = visited \cup {p}
           /\ frames' = IF p \in visited
                        THEN rest
                        ELSE << [of |-> p, left |-> prevs[p]] >> \o rest
    /\ UNCHANGED <<shape, succs, prevs, phase, cursor, pc, todo, query,
                   canReach, fresh>>

\* A call of reachable has tried every predecessor: it returns false.
SearchReturn ==
    /\ pc = "search" /\ frames # << >> /\ Top.left = {}
    /\ Len(frames) > 1
    /\ frames' = Tail(frames)
    /\ UNCHANGED <<shape, succs, prevs, visited, phase, cursor, pc, todo,
                   query, canReach, fresh>>

\* The outermost call returns true: ENTRY is the next block to try, and every
\* loop on the stack breaks; or it returns false.
AnswersTrue ==
    /\ pc = "search" /\ frames # << >> /\ Top.left # {}
    /\ NextPrev(Top.of, Top.left) = Entry

AnswersFalse ==
    /\ pc = "search" /\ Len(frames) = 1 /\ Top.left = {}

\* release finds that its block can be reached and leaves it alone.
ReleaseKeeps ==
    /\ phase = "condJmpOpt" /\ AnswersTrue
    /\ todo' = Tail(todo)
    /\ pc' = "release"
    /\ frames' = << >>
    /\ fresh' = FALSE
    /\ UNCHANGED <<shape, succs, prevs, visited, phase, cursor, query, canReach>>

\* Mutant of ReleaseCuts: the successors keep their predecessor.
ReleaseCutsOneWay ==
    /\ phase = "condJmpOpt" /\ AnswersFalse
    /\ succs' = [succs EXCEPT ![query] = << NoBlock, NoBlock >>]
    /\ todo' = SuccList(query) \o Tail(todo)
    /\ pc' = "release"
    /\ frames' = << >>
    /\ fresh' = FALSE
    /\ UNCHANGED <<shape, prevs, visited, phase, cursor, query, canReach>>

\* release takes all links out of its block away and releases the successors
\* it had, in the order of the list.
ReleaseCuts ==
    /\ phase = "condJmpOpt" /\ AnswersFalse
    /\ succs' = [succs EXCEPT ![query] = << NoBlock, NoBlock >>]
    /\ prevs' = [b \in Block |->
                    IF \E k \in Slot : succs[query][k] = b
                    THEN prevs[b] \ {query} ELSE prevs[b]]
    /\ todo' = SuccList(query) \o Tail(todo)
    /\ pc' = "release"
    /\ frames' = << >>
    /\ fresh' = FALSE
    /\ UNCHANGED <<shape, visited, phase, cursor, query, canReach>>

\* toCode: forget the marks, ask for the next block.
ToCodeStart ==
    /\ phase = "condJmpOpt" /\ pc = "next" /\ cursor > N
    /\ phase' = "toCode"
    /\ cursor' = Entry
    /\ UNCHANGED <<shape, succs, prevs, visited, pc, todo, query, frames,
                   canReach, fresh>>

\* Mutant of ToCodeNext: the marks of the last search stay.
ToCodeNextMarked ==
    /\ phase = "toCode" /\ pc = "next" /\ cursor <= N
    /\ fresh' = FALSE
    /\ Ask(cursor)
    /\ UNCHANGED <<shape, succs, prevs, visited, phase, cursor, todo, canReach>>

ToCodeNext ==
    /\ phase = "toCode" /\ pc = "next" /\ cursor <= N
    /\ visited' = {}
    /\ fresh' = TRUE
    /\ Ask(cursor)
    /\ UNCHANGED <<shape, succs, prevs, phase, cursor, todo, canReach>>

ToCodeAnswer ==
    /\ phase = "toCode"
    /\ \/ AnswersTrue /\ UNCHANGED canReach
       \/ AnswersFalse /\ canReach' = [canReach EXCEPT ![cursor] = FALSE]
    /\ cursor' = cursor + 1
    /\ pc' = "next"
    /\ frames' = << >>
    /\ fresh' = FALSE
    /\ UNCHANGED <<shape, succs, prevs, visited, phase, todo, query>>

ToCodeEnd ==
    /\ phase = "toCode" /\ pc = "next" /\ cursor > N
    /\ phase' = "done"
    /\ UNCHANGED <<shape, succs, prevs, visited, cursor, pc, todo, query,
                   frames, canReach, fresh>>

Done == phase = "done" /\ UNCHANGED vars

Next ==
    \/ KeepLinks \/ ResolveJump
    \/ ReleaseNext \/ ReleaseEnd \/ ReleaseKeeps \/ ReleaseCuts
    \/ SearchCall \/ SearchReturn
    \/ ToCodeStart \/ ToCodeNext \/ ToCodeAnswer \/ ToCodeEnd
    \/ Done

Spec == Init /\ [][Next]_vars /\ WF_vars(Next)
-----------------------------------------------------------------------------
(* Properties *)

\* The variables have their types.
TypeOK ==
    /\ shape \in [kind : [Block -> Kind], target : [Block -> Block]]
    /\ succs \in [Block -> [Slot -> Block \cup {NoBlock}]]
    /\ prevs \in [Block -> SUBSET Block]
    /\ visited \in SUBSET Block
    /\ phase \in {"condJmpOpt", "toCode", "done"}
    /\ cursor \in 1 .. N + 1
    /\ pc \in {"next", "release", "search"}
    /\ todo \in Seq(Block)
    /\ query \in Block
    /\ frames \in Seq([of : Block \cup {NoBlock}, left : SUBSET Block])
    /\ canReach \in [Block -> BOOLEAN]
    /\ fresh \in BOOLEAN

\* The two lists of a link agree: a block is among the predecessors of its
\* successors and of no other block, whatever delLink and release took away.
Mirror ==
    \A a, b \in Block : a \in prevs[b] <=> \E k \in Slot : succs[a][k] = b

\* An answer of DFG::reachable that is true is right: there is a path from
\* ENTRY.  This needs no clean marks, so release never spares a dead block.
TrueIsRight == AnswersTrue => query \in Reachable(succs)

\* An answer of DFG::reachable that is false is right when the marks were
\* clean as the search began.
FalseIsRight == AnswersFalse /\ fresh => query \notin Reachable(succs)

\* So DFG::reachable, asked with clean marks, answers what the links say, in
\* whatever order the marks of a search and the links it walks were left.
ReachableIsRight == TrueIsRight /\ FalseIsRight

\* What toCode exports and later analyses process (canReach) is exactly what
\* the links that are left let control reach from ENTRY.
CanReachIsExact ==
    phase = "done" => canReach = [b \in Block |-> b \in Reachable(succs)]

\* dfg.h:54: "if the block is not reachable, delete all its successors".  So
\* a block release takes the links of is one that cannot be reached.
ReleaseOnlyUnreachable ==
    [][pc = "search" /\ succs' # succs => query \notin Reachable(succs)]_vars

\* condJmpOpt and toCode end: every search marks blocks once, every release
\* either stops or takes links away.
Terminates == <>(phase = "done")
=============================================================================
