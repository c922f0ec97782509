----------------------------- MODULE MCRegAlloc -----------------------------
(***************************************************************************)
(* RegAlloc on every sequence of a few live sets of locals and a global,   *)
(* with one register less than Plat::regNum has, and on the live sets of a *)
(* small function.                                                         *)
(***************************************************************************)
EXTENDS RegAlloc

CONSTANTS a, b, c, d, g

MCVar == {a, b, c, d, g}

\* Sequences of live sets; g is global and d may be an array.
Small ==
    [local : {{a, b, c, d}}, inMem : {{}, {d}},
     out : [1 .. 3 -> {{}, {g}, {a}, {a, b}, {b, c, g}, {c, d}, {a, d}, {b, d, g},
                       {a, b, c}, {b, c, d}, {a, c, d}, {a, b, c, d}}]]

\* int main() { int x; x = f(); return x; }: the live sets of entry, dec, call,
\* retv and exit.
Main == {[local |-> {a}, inMem |-> {}, out |-> << {}, {}, {a}, {}, {} >>]}
=============================================================================
