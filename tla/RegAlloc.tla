------------------------------ MODULE RegAlloc ------------------------------
(***************************************************************************)
(* Register allocation (compiler/optimize/alloc.cpp): the constructor of   *)
(* CoGraph builds the interference graph from the live sets, one step per  *)
(* instruction; CoGraph::regAlloc colours it, one step per node.           *)
(***************************************************************************)
EXTENDS Integers, Sequences, FiniteSets

CONSTANTS
    Var,      \* the variables of LiveVar::varList
    RegNum,   \* Plat::regNum
    Funs      \* the functions to allocate registers for

Color == 0 .. RegNum - 1

\* Of a function, the parameters and declared variables (varList), those that
\* are arrays or whose address is taken, and liveInfo.out of each instruction.
ASSUME ConstAssumption ==
    /\ RegNum \in Nat
    /\ IsFiniteSet(Var)
    /\ Funs \subseteq [local : SUBSET Var, inMem : SUBSET Var, out : Seq(SUBSET Var)]

VARIABLES
    fun,       \* the function
    k,         \* instructions the constructor has still to look at
    buf,       \* the last live set it has drawn edges for
    links,     \* Node::links
    degree,    \* Node::degree, -1 for a node that had its turn
    exColors,  \* Node::exColors
    color,     \* Node::color, -1 for none
    turns,     \* turns left in regAlloc
    pc

graph == <<links, degree, exColors, color>>
vars  == <<fun, k, buf, graph, turns, pc>>

-----------------------------------------------------------------------------
Init ==
    /\ fun \in Funs
    /\ k = Len(fun.out)
    /\ buf = {}
    /\ links = [v \in fun.local |-> {}]
    /\ degree = [v \in fun.local |-> 0]
    /\ exColors = [v \in fun.local |-> IF v \in fun.inMem THEN Color ELSE {}]
    /\ color = [v \in fun.local |-> -1]
    /\ turns = Cardinality(fun.local)
    /\ pc = "build"

\* The variables of the live set of instruction k that have a node.
CoVar == fun.out[k] \cap fun.local

\* Node::addLink between any two of them.
Linked ==
    [v \in fun.local |-> IF v \in CoVar THEN links[v] \cup (CoVar \ {v}) ELSE links[v]]

\* The constructor looks at the instructions from last to first, and only at
\* live sets that differ from the one before.
OldSet ==
    /\ pc = "build" /\ k >= 1 /\ fun.out[k] = buf
    /\ k' = k - 1
    /\ UNCHANGED <<fun, buf, graph, turns, pc>>

NewSet ==
    /\ pc = "build" /\ k >= 1 /\ fun.out[k] # buf /\ CoVar # {}
    /\ buf' = fun.out[k]
    /\ links' = Linked
    /\ degree' = [v \in fun.local |-> Cardinality(links'[v])]
    /\ k' = k - 1
    /\ UNCHANGED <<fun, exColors, color, turns, pc>>

\* With no variable to link, `coVar.size() - 1' wraps around to the largest
\* size_t: the loop that it bounds does nothing 2^64 - 1 times.
NoVariable ==
    /\ pc = "build" /\ k >= 1 /\ fun.out[k] # buf /\ CoVar = {}
    /\ pc' = "endless"
    /\ UNCHANGED <<fun, k, buf, graph, turns>>

Built ==
    /\ pc = "build" /\ k = 0
    /\ pc' = "paint"
    /\ UNCHANGED <<fun, k, buf, graph, turns>>

\* pickNode: any node of largest degree may be on top of the heap.
Picked(n) == \A m \in fun.local : degree[m] <= degree[n]

\* Mutants of Waiting: neighbours that had their turn are told as well; those
\* with one neighbour left are not told.
WaitingAll(n)  == links[n]
WaitingSome(n) == {m \in links[n] : degree[m] > 1}

\* Node::addExColor leaves nodes alone that had their turn.
Waiting(n) == {m \in links[n] : degree[m] # -1}

\* Node::paint: the first colour not excluded.
Paint(n, c) ==
    /\ pc = "paint" /\ turns > 0 /\ Picked(n)
    /\ c \notin exColors[n] /\ \A e \in 0 .. c - 1 : e \in exColors[n]
    /\ color' = [color EXCEPT ![n] = c]
    /\ exColors' = [m \in fun.local |->
          IF m \in Waiting(n) THEN exColors[m] \cup {c} ELSE exColors[m]]
    /\ degree' = [m \in fun.local |-> IF m = n THEN -1
                                      ELSE IF m \in Waiting(n) THEN degree[m] - 1
                                      ELSE degree[m]]
    /\ turns' = turns - 1
    /\ UNCHANGED <<fun, k, buf, links, pc>>

\* Mutant of Spill: one excluded colour is enough.
SpillEarly(n) ==
    /\ pc = "paint" /\ turns > 0 /\ Picked(n)
    /\ Color \cap exColors[n] # {}
    /\ degree' = [degree EXCEPT ![n] = -1]
    /\ turns' = turns - 1
    /\ UNCHANGED <<fun, k, buf, links, exColors, color, pc>>

\* Every colour is excluded: the variable gets no register.
Spill(n) ==
    /\ pc = "paint" /\ turns > 0 /\ Picked(n)
    /\ Color \subseteq exColors[n]
    /\ degree' = [degree EXCEPT ![n] = -1]
    /\ turns' = turns - 1
    /\ UNCHANGED <<fun, k, buf, links, exColors, color, pc>>

\* Mutant of Painted: one turn too few.
PaintedEarly ==
    /\ pc = "paint" /\ turns <= 1
    /\ pc' = "done"
    /\ UNCHANGED <<fun, k, buf, graph, turns>>

Painted ==
    /\ pc = "paint" /\ turns = 0
    /\ pc' = "done"
    /\ UNCHANGED <<fun, k, buf, graph, turns>>

\* That loop goes on, and nothing that comes after it is done.
Endless == pc = "endless" /\ UNCHANGED vars

Done == pc = "done" /\ UNCHANGED vars

Next ==
    \/ OldSet \/ NewSet \/ NoVariable \/ Built
    \/ \E n \in fun.local : (\E c \in Color : Paint(n, c)) \/ Spill(n)
    \/ Painted \/ Endless \/ Done

Spec == Init /\ [][Next]_vars /\ WF_vars(Next)

-----------------------------------------------------------------------------
(* Properties *)

\* The variables have their types: every colour is a register there is.
TypeOK ==
    /\ fun \in Funs
    /\ k \in 0 .. Len(fun.out)
    /\ buf \in SUBSET Var
    /\ links \in [fun.local -> SUBSET fun.local]
    /\ degree \in [fun.local -> Nat \cup {-1}]
    /\ exColors \in [fun.local -> SUBSET Color]
    /\ color \in [fun.local -> Color \cup {-1}]
    /\ turns \in Nat
    /\ pc \in {"build", "endless", "paint", "done"}

\* Two variables that are live after the same instruction never share a
\* register, and one that must have an address gets none: what regAlloc owes
\* to the code generator, whichever of the largest nodes the heap puts on top.
RegistersFit ==
    /\ \A l \in 1 .. Len(fun.out) :
          \A u, v \in fun.out[l] \cap fun.local :
              u # v /\ color[u] # -1 => color[u] # color[v]
    /\ \A v \in fun.local \cap fun.inMem : color[v] = -1

\* regAlloc counts turns, not nodes: they are enough to give each node one.
EveryNodeHadATurn == pc = "done" => \A v \in fun.local : degree[v] = -1

\* The order by degree is an order by what is left to colour: the degree of a
\* waiting node is the number of its neighbours without a register.
DegreeCountsUncoloured ==
    pc = "paint" =>
        \A v \in fun.local : degree[v] # -1 =>
            degree[v] = Cardinality({u \in links[v] : color[u] = -1})

\* A variable stays in memory only if it must, or if variables live together
\* with it have all the registers.
SpillsForced ==
    pc = "done" =>
        \A v \in fun.local \ fun.inMem : color[v] = -1 =>
            \A c \in Color : \E l \in 1 .. Len(fun.out) : \E u \in fun.local :
                {u, v} \subseteq fun.out[l] /\ color[u] = c

\* No node gets a second turn.
OneTurnEach ==
    [][\A v \in fun.local :
          degree[v] = -1 => degree'[v] = -1 /\ color'[v] = color[v]]_vars

\* fun.cpp:237: alloc() reallocates registers and stack addresses; for that it
\* has to come to an end.
Allocates == <>(pc = "done")
=============================================================================
