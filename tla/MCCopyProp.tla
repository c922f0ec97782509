----------------------------- MODULE MCCopyProp -----------------------------
(***************************************************************************)
(* CopyProp on small functions: every choice of a few instructions around  *)
(* and in a loop, and the intermediate code of two source functions.       *)
(***************************************************************************)
EXTENDS CopyProp

I(op, res, arg1, arg2) == [op |-> op, res |-> res, arg1 |-> arg1, arg2 |-> arg2]

CONSTANTS x, y, z, one, none

MCVar == {x, y, z, one}

Other == I("other", none, none, none)

\* 1: ENTRY  2: before the loop  3: its head, JF to 5  4: its body  5: after
\* it; block 6 has been dropped.
LoopSuccs == << {2}, {3}, {4, 5}, {3}, {}, {} >>

Firsts == {I("as", x, y, none), I("as", y, x, none), I("expr", x, y, z)}
Bodies == {I("as", x, y, none), I("as", z, x, none), I("as", y, y, none),
           I("expr", y, x, z), I("lea", z, x, none), I("set", x, z, none),
           I("call", y, none, none), I("use", none, x, none)}

Loops ==
    {[code  |-> << << Other >>, << a >>, << I("use", none, x, none) >>, << b, c >>,
                   << I("expr", z, x, y) >>, << Other >> >>,
      succs |-> LoopSuccs,
      reach |-> 1 .. 5] : a \in Firsts, b \in Bodies, c \in Bodies}

\* int f(int z) { int x; int y; y = z; x = y; ++z; return x; }: once
\* the second copy is x = z, the third statement changes what x is replaced by.
Chain ==
    {[code  |-> << << Other >>,
                   << I("as", y, z, none), I("as", x, y, none),
                      I("expr", z, z, one), I("use", none, x, none) >> >>,
      succs |-> << {2}, {} >>,
      reach |-> 1 .. 2]}

\* The same with z = x before the return, which becomes z = z: a search for x
\* goes on to z and from there, for ever, to z.
Circle ==
    {[code  |-> << << Other >>,
                   << I("as", y, z, none), I("as", x, y, none),
                      I("expr", z, z, one), I("as", z, x, none),
                      I("use", none, x, none) >> >>,
      succs |-> << {2}, {} >>,
      reach |-> 1 .. 2]}
=============================================================================
