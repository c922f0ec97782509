------------------------------- MODULE MCX86 -------------------------------
(***************************************************************************)
(* Small functions of seven variables, under four allocations. x and y are *)
(* ints, b holds truth values, c is a char; p points to ints, cp to chars.  *)
(***************************************************************************)
EXTENDS X86, TLC

CONSTANTS x, y, b, c, p, cp, a

F(off) == [in |-> "frame", at |-> off]
R(id) == [in |-> "reg", at |-> id]
D(adr) == [in |-> "data", at |-> adr]

Each(ofx, ofy, ofb, ofc, ofp, ofq, ofa) ==
    x :> ofx @@ y :> ofy @@ b :> ofb @@ c :> ofc @@ p :> ofp @@ cp :> ofq @@ a :> ofa

\* Without -opt the frame starts below the registers the function keeps; with
\* it, over them. A variable of the data segment is global; a char is one byte
\* there (db), and that of the last layout has nothing after it.
MCLayouts ==
    { [home |-> Each(F(-16), F(-20), F(-24), F(-28), D(4), F(-32), F(-36)), depth |-> 36,
       main |-> FALSE, callee |-> << -16 >>, calleeDepth |-> 16],
      [home |-> Each(R(2), R(0), F(-8), R(1), F(-4), D(12), D(8)), depth |-> 8,
       main |-> TRUE, callee |-> << -4, -8 >>, calleeDepth |-> 8],
      [home |-> Each(F(-4), R(2), F(-12), R(1), R(0), F(-16), F(-8)), depth |-> 16,
       main |-> FALSE, callee |-> << -4, -12 >>, calleeDepth |-> 12],
      [home |-> Each(R(0), F(-4), F(-8), D(16), R(1), F(-12), F(-16)), depth |-> 16,
       main |-> TRUE, callee |-> << >>, calleeDepth |-> 0] }

\* The last layout with a pointer declared right after the char, which MCLayouts
\* keeps off: Implements does not hold with Layouts <- Neighbours. Two bytes are
\* stored to a char (interInst.cpp:515), and four through a pointer (line 734).
Neighbours ==
    { [home |-> Each(R(0), F(-4), F(-8), D(16), D(17), F(-12), F(-16)), depth |-> 16,
       main |-> TRUE, callee |-> << >>, calleeDepth |-> 0] }

Three(ops, r, m, n) == [op : ops, res : {r}, arg1 : {m}, arg2 : {n}]
Two(ops, r, m) == [op : ops, res : {r}, arg1 : {m}]

MCInsts ==
    Three({"add", "sub", "mul", "div", "mod"}, x, x, y)
    \cup Three({"mod", "div", "gt"}, y, y, x)
    \cup Three({"ge", "lt", "equ"}, c, x, c)
    \cup Three({"le", "ne"}, x, c, 2) \cup Three({"equ"}, b, y, x)
    \cup Three({"or"}, x, b, 2) \cup Three({"or"}, c, 0, b)
    \cup Two({"as", "neg", "not"}, c, x) \cup Two({"as"}, p, a)
    \cup Two({"init"}, c, 25) \cup Two({"init"}, x, 200)
    \cup Two({"lea"}, p, y) \cup Two({"lea"}, cp, c)
    \cup Two({"set"}, x, p) \cup Two({"set"}, x, cp)
    \cup Two({"get"}, y, p) \cup Two({"get"}, c, cp)
    \cup [op : {"jmp"}, target : {1, 3}]
    \cup [op : {"jt", "jf"}, arg1 : {x}, target : {1, 3}]
    \cup [op : {"jne"}, arg1 : {c}, arg2 : {y}, target : {1, 3}]
    \cup [op : {"call"}, res : {x, c}, gives : {Given}, args : {<< y >>}, paras : {1}]
    \cup [op : {"proc"}, args : {<< c, x >>}, paras : {2}]
    \cup [op : {"ret", "dec"}] \cup [op : {"retv"}, arg1 : {c}]

\* What MCInsts keeps off: Implements does not hold with Insts <- Junctions.
\* Only the lowest byte of an operand becomes its truth value
\* (interInst.cpp:671), and the two truth values of `and' are added.
Junctions == Three({"and"}, x, b, 2) \cup Three({"and"}, y, y, x) \cup Three({"or"}, x, c, 2)

MCInputs ==
    { Each(0, 3, 0, 14, 8, 16, 0), Each(253, 5, 1, 4, 2, 40, 7),
      Each(4, 0, 3, 0, 4, 16, 2), Each(128, 255, 0, 3, 12, 18, 1) }

=============================================================================
