---------------------------- MODULE MCConstProp ----------------------------
(***************************************************************************)
(* ConstProp on small functions with a global g, a parameter p, locals x   *)
(* (initialised) and y, a pointer q and a global pointer k.                *)
(***************************************************************************)
EXTENDS ConstProp, TLC

I(op, res, arg1, arg2) == [op |-> op, res |-> res, arg1 |-> arg1, arg2 |-> arg2]

CONSTANTS g, k, p, x, y, q, none, undef

MCGlobal   == {g, k}
MCParam    == {p}
MCLocal    == {x, y, q}
MCPointers == {q, k}
MCValues   == {-1, 0, 2}

NoOp    == I("other", none, none, none)
Dec(v)  == I("dec", none, v, none)
Ret     == I("retv", none, y, none)
Inits(gv) == (g :> gv) @@ (x :> 2) @@ (p :> undef) @@ (y :> undef) @@
             (q :> undef) @@ (k :> undef)

\* 1: ENTRY  2: before the loop  3: its head, JF to 5  4: its body  5: after
\* it  6: EXIT
Loop(a, cond, body, d) ==
    [main   |-> TRUE,
     init   |-> Inits(2),
     code   |-> << << NoOp >>, << Dec(y), a >>, << I("jf", none, cond, none) >>,
                   Append(body, I("jmp", none, none, none)),
                   << d, Ret >>, << NoOp >> >>,
     target |-> << 0, 0, 5, 3, 0, 0 >>,
     fall   |-> << 2, 3, 4, 0, 6, 0 >>]

Bodies == {I("as", y, x, none), I("as", x, 0, none), I("as", g, x, none),
           I("sub", x, x, 2), I("neg", y, g, none), I("mul", y, p, x),
           I("div", y, g, x), I("proc", none, none, none), I("get", x, q, none)}

\* x is declared before the loop.
Loops == {[Loop(a, cond, << b, c >>, I("sub", y, x, y)) EXCEPT !.code[2] = << Dec(x) >> \o @] :
             a \in {I("as", y, 2, none), I("call", y, none, none)},
             cond \in {x, p}, b \in Bodies, c \in Bodies}

\* x is declared in the body of the loop, and there only.
InnerLoops == {Loop(I("not", y, g, none), p, << Dec(x), b, c >>, NoOp) :
                  b \in {I("equ", y, x, 2), I("as", x, 0, none), I("neg", y, x, none)},
                  c \in Bodies}

\* A switch: 1: ENTRY  2: JNE to 4  3: one case  4: what follows  5: after a
\* jump that may be decided  6: EXIT. Addresses are taken and stored through.
Switches ==
    {[main   |-> TRUE,
      init   |-> Inits(2),
      code   |-> << << NoOp >>, << Dec(x), a, I("jne", none, p, 0) >>, << b, c >>,
                    << I("equ", y, x, 2), I("jt", none, y, none) >>,
                    << I("arg", none, x, none), NoOp >>, << NoOp >> >>,
      target |-> << 0, 4, 0, 6, 0, 0 >>,
      fall   |-> << 2, 3, 4, 5, 6, 0 >>] :
        a \in {NoOp, I("lea", q, x, none), I("mod", x, p, 2)},
        b \in Bodies \cup {I("arg", none, q, none), I("set", p, q, none)},
        c \in Bodies \cup {I("add", x, x, 0)}}

\* Three things done after the address of v is taken.
Given     == I("arg", none, q, none)
Kept      == I("as", k, q, none)
Assign(v) == I("as", v, 0, none)
Store     == I("set", p, q, none)
Call      == I("proc", none, none, none)

Address(v, three) ==
    [main   |-> TRUE,
     init   |-> Inits(2),
     code   |-> << << NoOp >>, << I("lea", q, v, none), I("as", v, 2, none) >> \o three,
                   << I("equ", y, v, 2), Ret >>, << NoOp >>, << NoOp >>, << NoOp >> >>,
     target |-> << 0, 0, 0, 0, 0, 0 >>,
     fall   |-> << 2, 3, 0, 0, 0, 0 >>]

\* A called procedure changes what a global pointer keeps the address of, or
\* what was assigned again after its address had been given to a call.
Unforeseen(v, three) ==
    \/ \E m \in 1 .. 3, n \in 1 .. 3 :
          m < n /\ three[m] = Kept /\ three[n] = Call
    \/ three = << Given, Assign(v), Call >>

Threes(v) == [1 .. 3 -> {Given, Kept, Assign(v), Store, Call}]
Addresses ==
    UNION {{Address(v, t) : t \in {u \in Threes(v) : ~Unforeseen(v, u)}} : v \in {x, p}}
Surprises ==
    UNION {{Address(v, t) : t \in {u \in Threes(v) : Unforeseen(v, u)}} : v \in {x, p}}

\* y = l op r for a parameter and a literal, on either side.
OneOp(ops) ==
    {[main   |-> TRUE,
      init   |-> Inits(2),
      code   |-> << << NoOp >>, << I(op, y, ab[1], ab[2]), Ret >>, << NoOp >>,
                    << NoOp >>, << NoOp >>, << NoOp >> >>,
      target |-> << 0, 0, 0, 0, 0, 0 >>,
      fall   |-> << 2, 3, 0, 0, 0, 0 >>] :
        op \in ops, ab \in ({p} \X (-1 .. 2)) \cup ((-1 .. 2) \X {p})}

\* Every operator whose simplification does not use SymTab::zero, and those
\* whose simplification does.
Operators == OneOp(Binary \ {"div", "mod", "and", "or"})
ZeroOperators == OneOp({"div", "mod", "and", "or"})

Functions == Loops \cup InnerLoops \cup Switches \cup Addresses \cup Operators
=============================================================================
