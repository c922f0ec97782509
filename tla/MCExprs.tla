------------------------------ MODULE MCExprs ------------------------------
(***************************************************************************)
(* Instances of Exprs for TLC: every tree of one operation over two ints,  *)
(* a pointer and an array, every tree of two operations over fewer, and    *)
(* trees that only the grammar's levels tell apart.                        *)
(***************************************************************************)
EXTENDS Exprs

Of(type, shape) == [type |-> type, shape |-> shape]

MCVars == [a |-> Of("int", "plain"), b |-> Of("char", "plain"), p |-> Of("int", "ptr"),
           s |-> Of("int", "array"), q |-> Of("char", "ptr"), t |-> Of("char", "array")]

\* Ints at multiples of four; p points to s[0], q to t[1].
MCPlace == [a |-> 100, b |-> 104, p |-> 108, s |-> 112, q |-> 120, t |-> 124, new |-> 128]
MCStart == 100 :> 3 @@ 104 :> 2 @@ 108 :> 112 @@ 112 :> 5 @@ 116 :> 0
           @@ 120 :> 125 @@ 124 :> 8 @@ 125 :> 9 @@ 128 :> Undef

MCFuns == [f |-> [type |-> "int", params |-> << Of("int", "plain"), Of("int", "plain") >>],
           g |-> [type |-> "char", params |-> << Of("int", "array") >>],
           v |-> [type |-> "void", params |-> << >>]]

V(name) == [kind |-> "var", name |-> name]
N(n) == [kind |-> "num", n |-> n]
Un(op, x) == [kind |-> "un", op |-> op, a |-> x]
Post(op, x) == [kind |-> "post", op |-> op, a |-> x]
Bin(op, x, y) == [kind |-> "bin", op |-> op, a |-> x, b |-> y]
At1(name, x) == [kind |-> "index", name |-> name, a |-> x]
Call(name, args) == [kind |-> "call", name |-> name, args |-> args]

\* Trees of one operation over some leaves.
Trees(ops, leaves) ==
    {Un(op, x) : op \in PrefixOp, x \in leaves}
    \cup {Post(op, x) : op \in PostfixOp, x \in leaves}
    \cup {Bin(op, x, y) : op \in ops, x \in leaves, y \in leaves}
    \cup {At1(name, x) : name \in {"s", "p", "a"}, x \in leaves}
    \cup {Call("f", << x, y >>) : x \in leaves, y \in leaves}
    \cup {Call("g", << x >>) : x \in leaves}

Wide == {V("a"), V("b"), V("p"), V("s"), V("q"), V("t"), V("z"), N(1), Call("v", << >>)}
Narrow == {V("a"), V("p"), V("s"), N(1)}
Ops == {"=", "&&", "<", "==", "+", "-", "*"}
One == Trees(Ops, Narrow)

\* Two operations: the inner one in either place.
Two ==
    {Un(op, x) : op \in PrefixOp, x \in One}
    \cup {Post(op, x) : op \in PostfixOp, x \in One}
    \cup {Bin(op, x, y) : op \in Ops, x \in One, y \in {V("a"), V("p")}}
    \cup {Bin(op, x, y) : op \in Ops, x \in {V("a"), V("p"), N(0)}, y \in One}
    \cup {At1("s", x) : x \in One}
    \cup {Call("f", << V("a"), x >>) : x \in One}
    \cup {Call("g", << x >>) : x \in One}

\* Three operations that only the levels order, from either side.
Levels ==
    {Bin(x, Bin(y, V("a"), V("b")), Bin(z, V("a"), N(3))) : x \in BinaryOp, y \in BinaryOp, z \in BinaryOp}

\* Places of places.
Deep ==
    LET inner == {Un("*", V("p")), At1("s", N(1)), V("a"), Un("++", Un("*", V("p")))}
        outer == {Un("&", x) : x \in inner} \cup {Un("*", Un("&", x)) : x \in inner}
                 \cup {Bin("=", x, V("b")) : x \in inner}
    IN  UNION {{Bin("=", x, V("s")), Bin("=", x, V("b")), Un("++", x), Post("--", x), Un("&", x),
                Call("g", << x >>), Call("f", << x, V("b") >>), At1("t", x)} : x \in outer}

Expr(t) == [stmt |-> "expr", type |-> "int", shape |-> "plain", tree |-> t]
Returned(t) == [Expr(t) EXCEPT !.stmt = "return"]
Other(t) ==
    {[stmt |-> s, type |-> y, shape |-> h, tree |-> t] :
        s \in {"init", "return"}, y \in {"int", "char"}, h \in {"plain", "ptr"}}
    \cup {[stmt |-> s, type |-> "int", shape |-> "plain", tree |-> t] :
        s \in {"if", "while", "switch", "global"}}
    \cup {[stmt |-> "return", type |-> "void", shape |-> "plain", tree |-> t]}

MCInputs ==
    {Expr(t) : t \in Trees(BinaryOp, Wide)} \cup {Returned(t) : t \in Two \cup Levels \cup Deep}
    \cup UNION {Other(t) : t \in Wide \cup Trees({"=", "+"}, Narrow)}
=============================================================================
