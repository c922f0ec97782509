------------------------------- MODULE MCDfg -------------------------------
(***************************************************************************)
(* Dfg on every graph of N blocks that linkBlocks can build, and on the    *)
(* graph of one small function.                                            *)
(***************************************************************************)
EXTENDS Dfg

\* How a block between ENTRY and the block of the return label can end.
Ends == {<< "fall", 2 >>} \cup ({"jmp", "jcond", "jne"} \X (2 .. N - 1))

\* The shape whose blocks 2 .. N - 2 end as `end' says.
ShapeOf(end) ==
    [kind   |-> [b \in Block |-> IF b \in DOMAIN end THEN end[b][1] ELSE "fall"],
     target |-> [b \in Block |-> IF b \in DOMAIN end THEN end[b][2] ELSE 2]]

AllShapes == {ShapeOf(end) : end \in [2 .. N - 2 -> Ends]}

\* int main() { int k = 1; if (0) { if (k) { return 1; } return 2; } return 3; }
\* 2: JF 0, L0   3: JF k, L1   4: RETV 1   5: L1: RETV 2   6: L0: RETV 3
\* 7: the return label   8: EXIT
NestedReturn ==
    {ShapeOf(<< << "fall", 2 >>, << "jcond", 6 >>, << "jcond", 5 >>,
                << "jmp", 7 >>, << "jmp", 7 >>, << "jmp", 7 >> >>)}
=============================================================================
