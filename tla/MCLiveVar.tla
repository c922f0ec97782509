----------------------------- MODULE MCLiveVar -----------------------------
(***************************************************************************)
(* LiveVar on small functions: every choice of a few instructions in the   *)
(* blocks of a loop, and the intermediate code of some source functions.   *)
(***************************************************************************)
EXTENDS LiveVar

I(op, res, arg1, arg2) == [op |-> op, res |-> res, arg1 |-> arg1, arg2 |-> arg2]

CONSTANTS x, y, g, lit

MCVar    == {x, y, g}
MCGlobal == {g}

Skip == I("skip", lit, lit, lit)

\* 1: ENTRY  2: loop head, JF to 4  3: body, back to 2  4: last statement
\* 5: EXIT.  x and y are parameters.
LoopSuccs == << {2}, {3, 4}, {2}, {5}, {} >>

Heads  == {I("jcond", lit, x, lit), I("jne", lit, y, lit)}
Bodies == {I("as", x, lit, lit), I("as", y, x, lit), I("expr", x, x, lit),
           I("as", x, x, lit), I("expr", x, y, g), I("get", y, x, lit),
           I("as", g, y, lit), I("call", y, lit, lit)}
Lasts  == {I("retv", lit, y, lit), I("argp", lit, x, lit), I("as", x, g, lit),
           I("set", y, x, lit), I("dec", lit, y, lit)}

Loops ==
    {[code  |-> << << Skip >>, << h >>, << a, b >>, << l >>, << Skip >> >>,
      succs |-> LoopSuccs,
      reach |-> 1 .. 5] : h \in Heads, a \in Bodies, b \in Bodies, l \in Lasts}

\* The same when the loop is left at once: its body is no longer reached.
Cut == {[p EXCEPT !.succs = [@ EXCEPT ![2] = {4}], !.reach = {1, 2, 4, 5}] :
            p \in {q \in Loops : q.code[3][1] = q.code[3][2]}}

\* The loop is never left: the last statement and EXIT are not reached.
Endless == {[p EXCEPT !.succs = [@ EXCEPT ![2] = {3}], !.reach = 1 .. 3] :
                p \in {q \in Loops : q.code[3][1] = q.code[3][2]}}

LoopsAndCuts == Loops \cup Cut \cup Endless

\* int main() { int x; int *y; x = 7; y = &x; ... *y = 5; return x; } where only
\* the store through y uses y.
Store ==
    {[code  |-> << << Skip >>,
                   << I("expr", y, x, lit), I("set", lit, y, lit),
                      I("retv", lit, x, lit) >>,
                   << Skip >> >>,
      succs |-> << {2}, {3}, {} >>,
      reach |-> 1 .. 3]}

\* int main() { int x; x = 1; switch (x) { case 1: return 9; } return 0; }
Switch ==
    {[code  |-> << << Skip >>,
                   << I("as", x, lit, lit), I("jne", lit, x, lit) >>,
                   << I("retv", lit, lit, lit) >>,
                   << I("retv", lit, lit, lit) >>,
                   << Skip >> >>,
      succs |-> << {2}, {3, 4}, {5}, {5}, {} >>,
      reach |-> 1 .. 5]}

\* int main() { int x; x = 0; while (1) { x = x + 1; } }
Forever ==
    {[code  |-> << << Skip >>, << I("as", x, lit, lit) >>,
                   << I("expr", x, x, lit) >>, << Skip >> >>,
      succs |-> << {2}, {3}, {3}, {} >>,
      reach |-> 1 .. 3]}
=============================================================================
