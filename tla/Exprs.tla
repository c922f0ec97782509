------------------------------- MODULE Exprs -------------------------------
(***************************************************************************)
(* Expressions: the recursive descent of Parser from assexpr down, the     *)
(* instructions GenIR makes on the way (genTwoOp, genOneOpLeft,            *)
(* genOneOpRight, genArray, genCall, genPtr, genLea ...), the checks of    *)
(* operands and types, and the statements that use the result.             *)
(*                                                                         *)
(* An input is a tree and the statement it stands in.  It is printed, with *)
(* the parentheses that the grammar's levels ask for, and parsed token by  *)
(* token; the instructions then run and are compared with the tree.        *)
(*                                                                         *)
(* A Var is a record: its id, type, shape, whether it is an lvalue, and,   *)
(* for *p and a[i] (isRef), the pointer: `at' is empty or holds it.  What  *)
(* may be null in the code is a sequence of length at most one.            *)
(***************************************************************************)
EXTENDS Integers, Sequences, SequencesExt, FiniteSets

CONSTANTS
    Vars,       \* name -> [type, shape]: the variables in scope
    Funs,       \* name -> [type, params]: the functions, params as in Vars
    Place,      \* name -> address, with one for a "new" variable
    Start,      \* address -> value: memory before the statement
    Inputs,     \* the statements, [stmt, type, shape, tree]
    Undef       \* the value of what was never set

ASSUME VarsAssumption ==
    /\ \A n \in DOMAIN Vars : /\ Vars[n].type \in {"int", "char"}
                              /\ Vars[n].shape \in {"plain", "ptr", "array"}
    /\ DOMAIN Place = DOMAIN Vars \cup {"new"}
    /\ \A n \in DOMAIN Place : Place[n] \in DOMAIN Start

VARIABLES
    input,      \* the statement
    rest,       \* the tokens not yet read
    stack,      \* what the descent is in the middle of, innermost last
    mode,       \* "operand" is next; "elem" was read, or a whole "value"
    val,        \* the result of the last call: a Var or null
    gen,        \* [code, temps, errs, inFun]: instructions, reported errors
    pc,         \* "parse", "run", "done" or "crashed"
    at,         \* the next instruction to run
    m           \* the machine: [mem, tmp, pushed, calls, result]

parser == << rest, stack, mode, val, gen >>
vars == << input, parser, pc, at, m >>

-----------------------------------------------------------------------------
(* Trees and their tokens *)

Level(op) ==
    CASE op = "=" -> 0
      [] op = "||" -> 1
      [] op = "&&" -> 2
      [] op \in {">", ">=", "<", "<=", "==", "!="} -> 3
      [] op \in {"+", "-"} -> 4
      [] op \in {"*", "/", "%"} -> 5
      [] OTHER -> 6

BinaryOp == {"=", "||", "&&", ">", ">=", "<", "<=", "==", "!=", "+", "-", "*", "/", "%"}
PrefixOp == {"!", "-", "&", "*", "++", "--"}
PostfixOp == {"++", "--"}

Token(t, w) == [t |-> t, w |-> w]
Mark(w) == Token("mark", w)

\* The level of the nonterminal that derives a tree.
Binding(t) ==
    CASE t.kind = "bin"  -> Level(t.op)
      [] t.kind = "un"   -> 6
      [] OTHER           -> 7

RECURSIVE Show(_), ShowArgs(_)

\* A tree where the grammar wants one of at least that level.
ShowAt(t, level) ==
    IF Binding(t) >= level THEN Show(t)
    ELSE << Mark("(") >> \o Show(t) \o << Mark(")") >>

Show(t) ==
    CASE t.kind = "var"  -> << Token("id", t.name) >>
      [] t.kind = "num"  -> << Token("num", t.n) >>
      [] t.kind = "un"   -> << Mark(t.op) >> \o ShowAt(t.a, 6)
      [] t.kind = "post" -> ShowAt(t.a, IF t.a.kind = "post" THEN 8 ELSE 7) \o << Mark(t.op) >>
      [] t.kind = "index" -> << Token("id", t.name), Mark("[") >> \o Show(t.a) \o << Mark("]") >>
      [] t.kind = "call" -> << Token("id", t.name), Mark("(") >> \o ShowArgs(t.args)
      [] t.kind = "bin"  ->
            ShowAt(t.a, IF t.op = "=" THEN 1 ELSE Level(t.op)) \o << Mark(t.op) >>
                \o ShowAt(t.b, IF t.op = "=" THEN 0 ELSE Level(t.op) + 1)

ShowArgs(args) ==
    IF args = << >> THEN << Mark(")") >>
    ELSE Show(Head(args)) \o (IF Len(args) > 1 THEN << Mark(",") >> ELSE << >>)
             \o ShowArgs(Tail(args))

-----------------------------------------------------------------------------
(* Variables, temporaries and instructions *)

Var(id, type, shape, left) == [id |-> id, type |-> type, shape |-> shape, left |-> left, at |-> << >>]
Void == Var(<< "void", 0 >>, "void", "ptr", FALSE)
Lit(n) == Var(<< "lit", n >>, "int", "plain", FALSE)
Named(name, d) == Var(<< "var", name >>, d.type, d.shape, d.shape # "array")

IsVoid(v) == v.type = "void"
IsBase(v) == v.shape = "plain"
IsRef(v) == v.at # << >>
IsLiteral(v) == v.id[1] = "lit"

\* getStep: how far ++ and + 1 move a pointer.
Step(v) == IF ~IsBase(v) /\ v.type = "int" THEN Lit(4) ELSE Lit(1)

TypeCheck(l, r) ==
    IF IsBase(l) \/ IsBase(r) THEN IsBase(l) /\ IsBase(r) ELSE l.type = r.type

None == << "none", 0 >>
Inst(op, res, arg1, arg2) == [op |-> op, res |-> res, arg1 |-> arg1, arg2 |-> arg2]

\* addInst: outside a function the instruction is dropped.
Emit(g, inst) == IF g.inFun THEN [g EXCEPT !.code = Append(@, inst)] ELSE g
Error(g, e) == [g EXCEPT !.errs = @ \cup {e}]

\* What a generator returns: its state and a Var, or null.
Out(g, v) == [g |-> g, v |-> << v >>]
Null(g) == [g |-> g, v |-> << >>]

\* Mutant of Temp: the count of labels is not advanced.
TempSame(g, type, shape) ==
    LET t == Var(<< "tmp", g.temps + 1 >>, type, shape, FALSE)
    IN  Out(Emit(g, Inst("dec", t.id, None, None)), t)

\* A new temporary, declared as genVarInit declares every variable.
Temp(g, type, shape) ==
    LET t == Var(<< "tmp", g.temps + 1 >>, type, shape, FALSE)
    IN  Out(Emit([g EXCEPT !.temps = @ + 1], Inst("dec", t.id, None, None)), t)

\* A temporary with the result of an operation.
Operated(g, type, shape, op, l, r) ==
    LET t == Temp(g, type, shape)
    IN  Out(Emit(t.g, Inst(op, t.v[1].id, l.id, r.id)), t.v[1])

Computed(g, op, l, r) == Operated(g, "int", "plain", op, l, r)

\* genAssign(val): a copy, by way of the pointer for *p and a[i].
Copy(g, v) ==
    LET t == Temp(g, v.type, IF IsBase(v) THEN "plain" ELSE "ptr")
    IN  Out(Emit(t.g, IF IsRef(v) THEN Inst("get", t.v[1].id, v.at[1].id, None)
                                  ELSE Inst("as", t.v[1].id, v.id, None)), t.v[1])

\* What every operation does first: *p and a[i] are loaded.
Loaded(g, v) == IF IsRef(v) THEN Copy(g, v) ELSE Out(g, v)

\* genAssign(lval, rval).
Assign(g, l, r) ==
    CASE ~l.left -> Out(Error(g, "EXPR_NOT_LEFT_VAL"), r)
      [] l.left /\ ~TypeCheck(l, r) -> Out(Error(g, "ASSIGN_TYPE_ERR"), r)
      [] l.left /\ TypeCheck(l, r) /\ IsRef(r) /\ ~IsRef(l) ->
            Out(Emit(g, Inst("get", l.id, r.at[1].id, None)), l)
      [] OTHER ->
            LET x == Loaded(g, r) IN
            Out(Emit(x.g, IF IsRef(l) THEN Inst("set", x.v[1].id, l.at[1].id, None)
                                      ELSE Inst("as", l.id, x.v[1].id, None)), l)

\* The other operand of a pointer addition is multiplied by the step.
Scaled(g, v, p) == Computed(g, "*", v, Step(p))

\* genAdd; its branch for an integer plus a pointer asks the pointer to be a base
\* type as well and is never taken.
Add(g, l, r) ==
    CASE IsBase(l) /\ IsBase(r) -> Computed(g, "+", l, r)
      [] ~IsBase(l) /\ IsBase(r) ->
            LET x == Scaled(g, r, l) IN Operated(x.g, l.type, "ptr", "+", l, x.v[1])
      [] OTHER -> Out(Error(g, "EXPR_NOT_BASE"), l)

Sub(g, l, r) ==
    CASE ~IsBase(r) -> Out(Error(g, "EXPR_NOT_BASE"), l)
      [] IsBase(r) /\ IsBase(l) -> Computed(g, "-", l, r)
      [] OTHER -> LET x == Scaled(g, r, l) IN Operated(x.g, l.type, "ptr", "-", l, x.v[1])

\* genTwoOp with operands that are not null.
TwoOp(g, op, l, r) ==
    LET x == Loaded(g, l)
        y == Loaded(x.g, r)
    IN  CASE IsVoid(l) \/ IsVoid(r) -> Null(Error(g, "EXPR_IS_VOID"))
          [] op = "=" /\ ~IsVoid(l) /\ ~IsVoid(r) -> Assign(g, l, r)
          [] OTHER ->
                CASE op = "+" -> Add(y.g, x.v[1], y.v[1])
                  [] op = "-" -> Sub(y.g, x.v[1], y.v[1])
                  [] op \notin {"+", "-", "||", "&&", "==", "!="}
                        /\ ~(IsBase(l) /\ IsBase(r)) -> Out(Error(y.g, "EXPR_NOT_BASE"), x.v[1])
                  [] OTHER -> Computed(y.g, op, x.v[1], y.v[1])

GenTwoOp(g, op, l, r) ==
    IF l = << >> \/ r = << >> THEN Null(g) ELSE TwoOp(g, op, l[1], r[1])

\* genLea: &*p is p.
Lea(g, v) ==
    CASE ~v.left -> Out(Error(g, "EXPR_NOT_LEFT_VAL"), v)
      [] v.left /\ IsRef(v) -> Out(g, v.at[1])
      [] OTHER ->
            LET t == Temp(g, v.type, "ptr")
            IN  Out(Emit(t.g, Inst("lea", t.v[1].id, v.id, None)), t.v[1])

\* genPtr: *p is an lvalue that remembers p; nothing is loaded yet.
Ptr(g, v) ==
    IF IsBase(v) THEN Out(Error(g, "EXPR_IS_BASE"), v)
    ELSE LET t == Temp(g, v.type, "plain")
         IN  Out(t.g, [t.v[1] EXCEPT !.left = TRUE, !.at = << v >>])

Sum(op) == IF op = "++" THEN "+" ELSE "-"

\* genIncL, genDecL: ++*p is t1 = *p; t2 = t1 + 1; *p = t2.
IncL(g, op, v) ==
    CASE ~v.left -> Out(Error(g, "EXPR_NOT_LEFT_VAL"), v)
      [] v.left /\ IsRef(v) ->
            LET t1 == Copy(g, v)
                t2 == Computed(t1.g, Sum(op), t1.v[1], Step(v))
            IN  Assign(t2.g, v, t2.v[1])
      [] OTHER -> Out(Emit(g, Inst(Sum(op), v.id, v.id, Step(v).id)), v)

\* genOneOpLeft.
GenOneOpLeft(g, op, opt) ==
    IF opt = << >> THEN Null(g)
    ELSE LET v == opt[1]
             x == Loaded(g, v)
         IN  CASE IsVoid(v) -> Null(Error(g, "EXPR_IS_VOID"))
               [] ~IsVoid(v) /\ op = "&" -> Lea(g, v)
               [] ~IsVoid(v) /\ op = "*" -> Ptr(g, v)
               [] ~IsVoid(v) /\ op \in {"++", "--"} -> IncL(g, op, v)
               [] ~IsVoid(v) /\ op = "!" -> Computed(x.g, "!", x.v[1], Void)
               [] OTHER -> IF IsBase(v) THEN Computed(x.g, "neg", x.v[1], Void)
                           ELSE Out(Error(x.g, "EXPR_NOT_BASE"), x.v[1])

\* genIncR, genDecR: the old value is copied; for *p and a[i] the sum goes to the
\* temporary that stands for it and not through the pointer.
IncR(g, op, v) ==
    LET t == Copy(g, v)
    IN  Out(Emit(t.g, Inst(Sum(op), v.id, v.id, Step(v).id)), t.v[1])

GenOneOpRight(g, op, opt) ==
    CASE opt = << >> -> Null(g)
      [] opt # << >> /\ IsVoid(opt[1]) -> Null(Error(g, "EXPR_IS_VOID"))
      [] opt # << >> /\ ~IsVoid(opt[1]) /\ ~opt[1].left -> Out(Error(g, "EXPR_NOT_LEFT_VAL"), opt[1])
      [] OTHER -> IncR(g, op, opt[1])

\* getVar.
GetVar(g, name) ==
    IF name \in DOMAIN Vars THEN Out(g, Named(name, Vars[name]))
    ELSE Null(Error(g, "VAR_UN_DEC"))

\* genArray: the index is added as it is, not loaded first.
GenArray(g, array, index) ==
    CASE array = << >> \/ index = << >> -> Null(g)
      [] array # << >> /\ index # << >> /\ (IsVoid(array[1]) \/ IsVoid(index[1])) ->
            Null(Error(g, "EXPR_IS_VOID"))
      [] OTHER ->
            IF IsBase(array[1]) \/ ~IsBase(index[1]) THEN Out(Error(g, "ARR_TYPE_ERR"), index[1])
            ELSE LET x == Add(g, array[1], index[1]) IN Ptr(x.g, x.v[1])

\* Fun::match: an argument that is null matches nothing.
Match(f, args) ==
    /\ Len(f.params) = Len(args)
    /\ \A k \in DOMAIN args :
          args[k] # << >> /\ TypeCheck(Named("", f.params[k]), args[k][1])

RECURSIVE Paras(_, _)

\* Mutant of Paras: the first argument is passed first.
ParasForward(g, args) ==
    LET Passed(h, v) == LET x == Loaded(h, v)
                        IN  Emit(x.g, Inst("arg", None, x.v[1].id, None))
    IN  IF args = << >> THEN g ELSE Paras(Passed(g, Head(args)[1]), Tail(args))

\* genPara of every argument, the last one first.
Paras(g, args) ==
    IF args = << >> THEN g
    ELSE LET x == Loaded(g, Last(args)[1])
         IN  Paras(Emit(x.g, Inst("arg", None, x.v[1].id, None)), Front(args))

\* getFun and genCall.
GenCall(g, name, args) ==
    CASE name \notin DOMAIN Funs -> Null(Error(g, "FUN_UN_DEC"))
      [] name \in DOMAIN Funs /\ ~Match(Funs[name], args) -> Null(Error(g, "FUN_CALL_ERR"))
      [] OTHER ->
            LET h == Paras(g, args)
                t == Var(<< "tmp", h.temps + 1 >>, Funs[name].type, "plain", FALSE)
                fun == << "fun", name >>
            IN  IF Funs[name].type = "void" THEN Out(Emit(h, Inst("call", None, fun, None)), Void)
                ELSE Out(Emit(Emit([h EXCEPT !.temps = @ + 1], Inst("call", t.id, fun, None)),
                              Inst("dec", t.id, None, None)), t)

-----------------------------------------------------------------------------
(* The descent: what is open is on the stack, the tokens decide *)

Frame(kind, op, left, args) == [kind |-> kind, op |-> op, left |-> left, args |-> args]

Next1 == IF rest = << >> THEN Token("end", "") ELSE Head(rest)
At(w) == Next1 = Mark(w)
AtBinary == Next1.t = "mark" /\ Next1.w \in BinaryOp
Top == IF stack = << >> THEN Frame("none", "", << >>, << >>) ELSE Last(stack)

\* elem and, after it, rop: a value that nothing binds more closely to.
Complete ==
    /\ pc = "parse"
    /\ mode = "value" \/ (mode = "elem" /\ ~\E op \in PostfixOp : At(op))

\* Mutant of Continues: assignments associate to the left.
ContinuesLeft == AtBinary /\ Level(Next1.w) > Level(Top.op)

\* The right operand of the open operation goes on: its operators bind more
\* closely, or both are assignments.
Continues ==
    AtBinary /\ (Level(Next1.w) > Level(Top.op) \/ (Next1.w = "=" /\ Top.op = "="))

Parsing == UNCHANGED << input, pc, at, m >>
Read(k) == rest' = SubSeq(rest, k + 1, Len(rest))
Push(f) == stack' = Append(stack, f)
Pop == stack' = Front(stack)
Becomes(out) == gen' = out.g /\ val' = out.v

Init ==
    /\ input \in Inputs
    /\ rest = Show(input.tree)
    /\ stack = << >>
    /\ mode = "operand"
    /\ val = << >>
    /\ gen = [code |-> << >>, temps |-> 0, errs |-> {}, inFun |-> input.stmt # "global"]
    /\ pc = "parse"
    /\ at = 1
    /\ m = [mem |-> Start, tmp |-> << >>, pushed |-> << >>, calls |-> << >>, result |-> Undef]

\* factor: a prefix operator.
Prefix ==
    /\ pc = "parse" /\ mode = "operand"
    /\ \E op \in PrefixOp : At(op) /\ Push(Frame("un", op, << >>, << >>))
    /\ Read(1)
    /\ UNCHANGED << mode, val, gen >> /\ Parsing

\* elem: ( expr ).
Open ==
    /\ pc = "parse" /\ mode = "operand" /\ At("(")
    /\ Push(Frame("paren", "", << >>, << >>))
    /\ Read(1)
    /\ UNCHANGED << mode, val, gen >> /\ Parsing

\* elem: a literal.
Literal ==
    /\ pc = "parse" /\ mode = "operand" /\ Next1.t = "num"
    /\ Becomes(Out(gen, Lit(Next1.w)))
    /\ mode' = "elem"
    /\ Read(1)
    /\ UNCHANGED stack /\ Parsing

\* idexpr: a name, an element of an array, a call.
Ident ==
    /\ pc = "parse" /\ mode = "operand" /\ Next1.t = "id"
    /\ LET after == IF Len(rest) > 1 THEN rest[2] ELSE Token("end", "")
           name  == Next1.w
       IN  \/ /\ after \notin {Mark("["), Mark("(")}
              /\ Becomes(GetVar(gen, name))
              /\ mode' = "elem"
              /\ Read(1)
              /\ UNCHANGED stack
           \/ /\ after = Mark("[")
              /\ Push(Frame("index", name, << >>, << >>))
              /\ Read(2)
              /\ UNCHANGED << mode, val, gen >>
           \/ /\ after = Mark("(")
              /\ Push(Frame("call", name, << >>, << >>))
              /\ Read(2)
              /\ UNCHANGED << mode, val, gen >>
    /\ Parsing

\* val: an operator after its operand.
Postfix ==
    /\ pc = "parse" /\ mode = "elem"
    /\ \E op \in PostfixOp : At(op) /\ Becomes(GenOneOpRight(gen, op, val))
    /\ mode' = "value"
    /\ Read(1)
    /\ UNCHANGED stack /\ Parsing

\* factor returns to the prefix operator it was called for.
Unary ==
    /\ Complete /\ Top.kind = "un"
    /\ Becomes(GenOneOpLeft(gen, Top.op, val))
    /\ mode' = "value"
    /\ Pop
    /\ UNCHANGED rest /\ Parsing

\* One of the tails: an operator, with its left operand.
Shift ==
    /\ Complete /\ Top.kind # "un" /\ AtBinary
    /\ Top.kind = "bin" => Continues
    /\ Push(Frame("bin", Next1.w, val, << >>))
    /\ mode' = "operand"
    /\ Read(1)
    /\ UNCHANGED << val, gen >> /\ Parsing

\* One of the tails: the right operand ends.
Reduce ==
    /\ Complete /\ Top.kind = "bin" /\ ~Continues
    /\ Becomes(GenTwoOp(gen, Top.op, Top.left, val))
    /\ mode' = "value"
    /\ Pop
    /\ UNCHANGED rest /\ Parsing

Close ==
    /\ Complete /\ Top.kind = "paren" /\ At(")")
    /\ mode' = "elem"
    /\ Pop
    /\ Read(1)
    /\ UNCHANGED << val, gen >> /\ Parsing

\* idexpr: the index ends; only now is the array looked up.
Element ==
    /\ Complete /\ Top.kind = "index" /\ At("]")
    /\ LET array == GetVar(gen, Top.op) IN Becomes(GenArray(array.g, array.v, val))
    /\ mode' = "elem"
    /\ Pop
    /\ Read(1)
    /\ Parsing

\* arglist: one argument more.
Argument ==
    /\ Complete /\ Top.kind = "call" /\ At(",")
    /\ stack' = Front(stack) \o << [Top EXCEPT !.args = Append(@, val)] >>
    /\ mode' = "operand"
    /\ Read(1)
    /\ UNCHANGED << val, gen >> /\ Parsing

\* idexpr: the call, after its last argument or without any.
Called ==
    /\ pc = "parse" /\ Top.kind = "call" /\ At(")")
    /\ \/ mode = "operand" /\ Top.args = << >> /\ Becomes(GenCall(gen, Top.op, << >>))
       \/ Complete /\ Becomes(GenCall(gen, Top.op, Append(Top.args, val)))
    /\ mode' = "elem"
    /\ Pop
    /\ Read(1)
    /\ Parsing

-----------------------------------------------------------------------------
(* The statement that uses the value *)

\* The variable an initialisation declares.
Declared == Named("new", [type |-> input.type, shape |-> input.shape])

\* genVarInit and setInit: a literal is kept as the initial value, whatever the
\* types; anything else is assigned, inside a function only.
VarInit(g, opt) ==
    LET x == Declared
        h == Emit(g, Inst("dec", x.id, IF opt # << >> /\ IsLiteral(opt[1]) THEN opt[1].id ELSE None, None))
    IN  CASE opt = << >> \/ (opt # << >> /\ IsLiteral(opt[1])) -> h
          [] opt # << >> /\ ~IsLiteral(opt[1]) /\ ~g.inFun -> Error(h, "GLB_INIT_ERR")
          [] OTHER -> TwoOp(h, "=", x, opt[1]).g

\* genReturn.
Return(g, opt) ==
    IF opt = << >> THEN g
    ELSE LET v == opt[1]
             x == Loaded(g, v)
         IN  CASE \/ IsVoid(v) /\ input.type # "void"
                  \/ IsBase(v) /\ input.type = "void" -> Error(g, "RETURN_ERR")
               [] IsVoid(v) /\ input.type = "void" -> Emit(g, Inst("ret", None, None, None))
               [] OTHER -> Emit(x.g, Inst("retv", None, x.v[1].id, None))

\* genIfHead, and genWhileCond, genDoWhileTail and genForCondBegin, which take a
\* void condition for true; the comparing jumps of a switch take its value.
Condition(g, opt) ==
    IF opt = << >> THEN g
    ELSE LET v == IF input.stmt = "while" /\ IsVoid(opt[1]) THEN Lit(1) ELSE opt[1]
             x == Loaded(g, v)
         IN  Emit(x.g, Inst(IF input.stmt = "switch" THEN "jne" ELSE "jf", None, x.v[1].id, None))

\* The expression ends, and with it what of the statement depends on it;
\* switchstat uses its value without asking whether there is one.
Finish ==
    /\ Complete /\ stack = << >> /\ rest = << >>
    /\ gen' = CASE input.stmt = "expr" -> gen
                [] input.stmt \in {"init", "global"} -> VarInit(gen, val)
                [] input.stmt = "return" -> Return(gen, val)
                [] OTHER -> Condition(gen, val)
    /\ pc' = CASE input.stmt = "switch" /\ val = << >> -> "crashed"
               [] gen'.errs # {} -> "done"
               [] OTHER -> "run"
    /\ m' = [m EXCEPT !.tmp = [k \in 1 .. gen'.temps |-> Undef]]
    /\ UNCHANGED << input, rest, stack, mode, val, at >>

-----------------------------------------------------------------------------
(* What the instructions do (the comments of common.h) *)

Known(x) == x # Undef
Truth(b) == IF b THEN 1 ELSE 0

Abs(x) == IF x < 0 THEN -x ELSE x
Quotient(x, y) == (IF (x < 0) = (y < 0) THEN 1 ELSE -1) * (Abs(x) \div Abs(y))

Binary(op, x, y) ==
    CASE op = "+" -> x + y
      [] op = "-" -> x - y
      [] op = "*" -> x * y
      [] op = "/" -> IF y = 0 THEN Undef ELSE Quotient(x, y)
      [] op = "%" -> IF y = 0 THEN Undef ELSE x - y * Quotient(x, y)
      [] op = "<"  -> Truth(x < y)
      [] op = "<=" -> Truth(x <= y)
      [] op = ">"  -> Truth(x > y)
      [] op = ">=" -> Truth(x >= y)
      [] op = "==" -> Truth(x = y)
      [] op = "!=" -> Truth(x # y)
      [] op = "&&" -> Truth(x # 0 /\ y # 0)
      [] op = "||" -> Truth(x # 0 \/ y # 0)

Compute(op, x, y) == IF Known(x) /\ Known(y) THEN Binary(op, x, y) ELSE Undef
Alone(op, x) == IF ~Known(x) THEN Undef ELSE IF op = "!" THEN Truth(x = 0) ELSE -x

At0(mem, a) == IF a \in DOMAIN mem THEN mem[a] ELSE Undef
Wrote(mem, a, x) == IF a \in DOMAIN mem THEN [mem EXCEPT ![a] = x] ELSE mem

\* A function of another file: its result tells its arguments apart, and it
\* stores through every pointer it gets.
Answer(args) ==
    CASE \E k \in DOMAIN args : ~Known(args[k]) -> Undef
      [] Len(args) = 1 -> args[1]
      [] Len(args) = 2 -> 10 * args[1] + args[2]
      [] OTHER -> 0

RECURSIVE Stores(_, _, _)
Stores(params, args, mem) ==
    IF params = << >> THEN mem
    ELSE Stores(Tail(params), Tail(args),
                IF Head(params).shape = "plain" THEN mem ELSE Wrote(mem, Head(args), 7))

Held(id) ==
    CASE id[1] = "lit" -> id[2]
      [] id[1] = "tmp" -> m.tmp[id[2]]
      [] id[1] = "var" -> IF id[2] # "new" /\ Vars[id[2]].shape = "array" THEN Place[id[2]]
                          ELSE m.mem[Place[id[2]]]
      [] OTHER -> Undef

\* The machine with a value put into a variable or a temporary.
Put(k, id, x) ==
    CASE id[1] = "tmp" -> [k EXCEPT !.tmp = [@ EXCEPT ![id[2]] = x]]
      [] id[1] = "var" -> [k EXCEPT !.mem = Wrote(@, Place[id[2]], x)]
      [] OTHER -> k

\* A call takes the arguments that were passed last, in the reverse order.
AfterCall(i) ==
    LET f    == Funs[i.arg1[2]]
        n    == Len(f.params)
        args == [k \in 1 .. n |-> m.pushed[Len(m.pushed) + 1 - k]]
    IN  Put([m EXCEPT !.pushed = SubSeq(@, 1, Len(@) - n),
                      !.calls  = Append(@, << i.arg1[2], args >>),
                      !.mem    = Stores(f.params, args, @)],
            i.res, Answer(args))

After(i) ==
    CASE i.op = "dec"  -> IF i.arg1 = None THEN m ELSE Put(m, i.res, Held(i.arg1))
      [] i.op = "as"   -> Put(m, i.res, Held(i.arg1))
      [] i.op = "get"  -> Put(m, i.res, At0(m.mem, Held(i.arg1)))
      [] i.op = "set"  -> [m EXCEPT !.mem = Wrote(@, Held(i.arg1), Held(i.res))]
      [] i.op = "lea"  -> Put(m, i.res, Place[i.arg1[2]])
      [] i.op \in {"neg", "!"} -> Put(m, i.res, Alone(i.op, Held(i.arg1)))
      [] i.op = "arg"  -> [m EXCEPT !.pushed = Append(@, Held(i.arg1))]
      [] i.op = "call" -> AfterCall(i)
      [] i.op \in {"jf", "jne", "retv"} -> [m EXCEPT !.result = Held(i.arg1)]
      [] i.op = "ret"  -> m
      [] OTHER -> Put(m, i.res, Compute(i.op, Held(i.arg1), Held(i.arg2)))

Run ==
    /\ pc = "run" /\ at <= Len(gen.code)
    /\ m' = After(gen.code[at])
    /\ at' = at + 1
    /\ UNCHANGED << input, parser, pc >>

Ends ==
    /\ pc = "run" /\ at > Len(gen.code)
    /\ pc' = "done"
    /\ UNCHANGED << input, parser, at, m >>

\* Nothing is left to do: a descent that is stuck in between is a deadlock.
Terminating == pc \in {"done", "crashed"} /\ UNCHANGED vars

Next ==
    \/ Prefix \/ Open \/ Literal \/ Ident \/ Postfix \/ Unary \/ Shift \/ Reduce
    \/ Close \/ Element \/ Argument \/ Called \/ Finish \/ Run \/ Ends
    \/ Terminating

Spec == Init /\ [][Next]_vars
-----------------------------------------------------------------------------
(* What a tree means, without instructions or temporaries *)

Bad == [type |-> "bad", shape |-> "bad"]
Typed(type, shape) == [type |-> type, shape |-> shape]
IntType == Typed("int", "plain")

Plain(d) == d.shape = "plain" /\ d.type # "void"
Valued(d) == d # Bad /\ d.type # "void"
Alike(c, d) ==
    /\ Valued(c) /\ Valued(d)
    /\ IF Plain(c) \/ Plain(d) THEN Plain(c) /\ Plain(d) ELSE c.type = d.type

RECURSIVE TypeOf(_), Place0(_)

\* Trees that stand for a place: what may be assigned to.
Place0(t) ==
    CASE t.kind = "var" -> t.name \in DOMAIN Vars /\ Vars[t.name].shape # "array"
      [] t.kind = "un" -> t.op \in {"*", "++", "--"}
      [] t.kind = "index" -> TRUE
      [] t.kind = "bin" -> t.op = "="
      [] OTHER -> FALSE

If(cond, d) == IF cond THEN d ELSE Bad

TypeOfUnary(op, a, place) ==
    CASE op = "*" -> If(Valued(a) /\ ~Plain(a), Typed(a.type, "plain"))
      [] op = "&" -> If(Valued(a) /\ place, Typed(a.type, "ptr"))
      [] op \in {"++", "--"} -> If(Valued(a) /\ place, a)
      [] op = "!" -> If(Valued(a), IntType)
      [] op = "-" -> If(Plain(a), IntType)

TypeOfBinary(op, a, b, place) ==
    CASE op = "=" -> If(place /\ Alike(a, b), a)
      [] op \in {"+", "-"} /\ Plain(b) -> If(Valued(a), IF Plain(a) THEN IntType ELSE Typed(a.type, "ptr"))
      [] op \in {"||", "&&", "==", "!="} -> If(Valued(a) /\ Valued(b), IntType)
      [] OTHER -> If(Plain(a) /\ Plain(b), IntType)

TypeOf(t) ==
    CASE t.kind = "var"   -> If(t.name \in DOMAIN Vars, Vars[t.name])
      [] t.kind = "num"   -> IntType
      [] t.kind = "un"    -> TypeOfUnary(t.op, TypeOf(t.a), Place0(t.a))
      [] t.kind = "post"  -> TypeOfUnary(t.op, TypeOf(t.a), Place0(t.a))
      [] t.kind = "bin"   -> TypeOfBinary(t.op, TypeOf(t.a), TypeOf(t.b), Place0(t.a))
      [] t.kind = "index" -> If(/\ t.name \in DOMAIN Vars /\ Vars[t.name].shape # "plain"
                                /\ Plain(TypeOf(t.a)), Typed(Vars[t.name].type, "plain"))
      [] t.kind = "call"  ->
            If(/\ t.name \in DOMAIN Funs /\ Len(t.args) = Len(Funs[t.name].params)
               /\ \A k \in DOMAIN t.args : Alike(Funs[t.name].params[k], TypeOf(t.args[k])),
               Typed(Funs[t.name].type, "plain"))

\* The statement is one the language has.
WellTyped ==
    LET d == TypeOf(input.tree) IN
    CASE input.stmt = "expr"   -> d # Bad
      [] input.stmt = "init"   -> Alike(Typed(input.type, input.shape), d)
      [] input.stmt = "global" -> d # Bad /\ input.tree.kind = "num"
      [] input.stmt = "return" -> IF input.type = "void" THEN d.type = "void" ELSE Valued(d)
      [] OTHER -> Valued(d)

RECURSIVE Eval(_, _), Where(_, _), EvalArgs(_, _)

Size(type) == IF type = "int" THEN 4 ELSE 1
Unit(t) == LET d == TypeOf(t) IN IF Plain(d) THEN 1 ELSE Size(d.type)
Yields(x, s) == [v |-> x, s |-> s]

\* A store, and whether it went outside the memory.
Stored(x, a, s) ==
    Yields(x, [s EXCEPT !.mem = Wrote(@, a, x), !.fault = @ \/ a \notin DOMAIN s.mem])

\* The address of a place; s is the memory, the calls, and whether there was
\* an access outside.
Where(t, s) ==
    CASE t.kind = "var" -> Yields(Place[t.name], s)
      [] t.kind = "index" ->
            LET k == Eval(t.a, s)
                base == Eval([kind |-> "var", name |-> t.name], k.s)
            IN  Yields(Compute("+", base.v, Compute("*", k.v, Size(Vars[t.name].type))), base.s)
      [] t.kind = "un" /\ t.op = "*" -> Eval(t.a, s)
      [] OTHER -> LET x == Eval(t, s)     \* an assignment or ++: done, then its place
                      w == Where(t.a, s)
                  IN  Yields(w.v, x.s)

\* A place changed by a function of its old value.
Changed(t, s, sign) ==
    LET w == Where(t, s)
        x == At0(w.s.mem, w.v)
        y == Compute(sign, x, Unit(t))
    IN  Stored(y, w.v, w.s) @@ [o |-> x]

Eval(t, s) ==
    CASE t.kind = "num" -> Yields(t.n, s)
      [] t.kind = "var" -> IF Vars[t.name].shape = "array" THEN Yields(Place[t.name], s)
                           ELSE Yields(s.mem[Place[t.name]], s)
      [] t.kind = "index" \/ (t.kind = "un" /\ t.op = "*") ->
            LET w == Where(t, s)
            IN  Yields(At0(w.s.mem, w.v), [w.s EXCEPT !.fault = @ \/ w.v \notin DOMAIN w.s.mem])
      [] t.kind = "un" /\ t.op = "&" -> Where(t.a, s)
      [] t.kind = "un" /\ t.op \in {"!", "-"} ->
            LET x == Eval(t.a, s) IN Yields(Alone(t.op, x.v), x.s)
      [] t.kind = "un" /\ t.op \in {"++", "--"} ->
            LET c == Changed(t.a, s, Sum(t.op)) IN Yields(c.v, c.s)
      [] t.kind = "post" ->
            LET c == Changed(t.a, s, Sum(t.op)) IN Yields(c.o, c.s)
      [] t.kind = "bin" /\ t.op = "=" ->
            LET x == Eval(t.b, s)
                w == Where(t.a, x.s)
            IN  Stored(x.v, w.v, w.s)
      [] t.kind = "bin" /\ t.op # "=" ->
            LET x == Eval(t.a, s)
                y == Eval(t.b, x.s)
            IN  CASE t.op \in {"+", "-"} ->
                        Yields(Compute(t.op, x.v, Compute("*", y.v, Unit(t.a))), y.s)
                  [] t.op = "&&" /\ x.v = 0 -> Yields(0, x.s)
                  [] t.op = "||" /\ x.v \notin {0, Undef} -> Yields(1, x.s)
                  [] OTHER -> Yields(Compute(t.op, x.v, y.v), y.s)
      [] t.kind = "call" ->
            LET a == EvalArgs(t.args, s)
                f == Funs[t.name]
            IN  Yields(Answer(a.v), [a.s EXCEPT !.calls = Append(@, << t.name, a.v >>),
                                                !.mem = Stores(f.params, a.v, @)])

EvalArgs(args, s) ==
    IF args = << >> THEN Yields(<< >>, s)
    ELSE LET x == Eval(Head(args), s)
             y == EvalArgs(Tail(args), x.s)
         IN  Yields(<< x.v >> \o y.v, y.s)

Meaning == Eval(input.tree, [mem |-> Start, calls |-> << >>, fault |-> FALSE])
-----------------------------------------------------------------------------
(* Trees whose meaning the order of evaluation cannot change *)

RECURSIVE Parts(_)
Children(t) ==
    CASE t.kind \in {"var", "num"} -> {}
      [] t.kind \in {"un", "post", "index"} -> {t.a}
      [] t.kind = "bin" -> {t.a, t.b}
      [] t.kind = "call" -> Range(t.args)
Parts(t) == {t} \cup UNION {Parts(c) : c \in Children(t)}

\* What a pointer may point to: arrays, and what & is applied to.
Aliased ==
    {n \in DOMAIN Vars : Vars[n].shape = "array"}
        \cup {n \in DOMAIN Vars : \E t \in Parts(input.tree) :
                 t.kind = "un" /\ t.op = "&" /\ t.a.kind = "var" /\ t.a.name = n}

Assigning(t) == t.kind = "post" \/ (t.kind = "un" /\ t.op \in {"++", "--"}) \/ (t.kind = "bin" /\ t.op = "=")
Through(t) == t.kind \in {"index", "call"} \/ (t.kind = "un" /\ t.op = "*")

RECURSIVE Target(_)
Target(t) ==
    CASE t.kind = "var" -> {t.name}
      [] Through(t)     -> Aliased
      [] OTHER          -> Target(t.a)

Writes(t) ==
    UNION {IF Assigning(u) THEN Target(u.a) ELSE IF u.kind = "call" THEN Aliased ELSE {} : u \in Parts(t)}
Uses(t) ==
    Writes(t) \cup
    UNION {CASE u.kind = "var" -> {u.name}
             [] u.kind = "index" -> {u.name} \cup Aliased
             [] Through(u) -> Aliased
             [] OTHER -> {} : u \in Parts(t)}

\* No part of the tree changes what another part, not ordered with it, uses.
Sequenced ==
    \A t \in Parts(input.tree) :
        /\ \A c, d \in Children(t) : c # d => Writes(c) \cap Uses(d) = {}
        /\ t.kind = "bin" /\ t.a = t.b => Writes(t.a) = {}
        /\ t.kind = "call" /\ Len(t.args) # Cardinality(Range(t.args)) =>
              \A k \in DOMAIN t.args : Writes(t.args[k]) = {}
        /\ t.kind = "index" => t.name \notin Writes(t.a)
        /\ Assigning(t) => Target(t.a) \cap UNION {Writes(c) : c \in Children(t)} = {}

\* A result of the generator that stands for *p or a[i].
RECURSIVE Reference(_)
Reference(t) ==
    \/ t.kind = "index" \/ (t.kind = "un" /\ t.op = "*")
    \/ Assigning(t) /\ t.kind # "post" /\ Reference(t.a)

\* Where the code is known to leave the language: p++ on *p and a[i] changes a
\* temporary only; an index *p or a[i] is used without being loaded; && and ||
\* always evaluate both sides; & of a pointer has the type of what the pointer
\* points to, and &*p is p, with all that may be done to p.
OddTree ==
    \E t \in Parts(input.tree) :
        \/ t.kind \in {"post", "index"} /\ Reference(t.a)
        \/ t.kind = "bin" /\ t.op \in {"&&", "||"}
              /\ \E u \in Parts(t.b) : Assigning(u) \/ u.kind = "call"
        \/ t.kind = "un" /\ t.op = "&" /\ TypeOf(t.a).shape = "ptr"
        \/ t.kind = "un" /\ t.op = "&" /\ Reference(t.a)
              /\ \E u \in Parts(input.tree) :
                    t \in Children(u) /\ (Assigning(u) \/ (u.kind = "un" /\ u.op = "&"))

\* And in the statement: a void value may be a condition, any literal may
\* initialise a pointer, and a void function may return one.
OddStatement ==
    LET d == TypeOf(input.tree) IN
    \/ input.stmt \in {"if", "while", "switch"} /\ d.type = "void"
    \/ input.stmt = "init" /\ input.tree.kind = "num" /\ input.shape # "plain"
    \/ input.stmt = "return" /\ input.type = "void" /\ d.shape \in {"ptr", "array"}

Odd == OddTree \/ OddStatement

-----------------------------------------------------------------------------
(* Properties *)

TypeOK ==
    /\ \A f \in Range(stack) : f.kind \in {"un", "bin", "paren", "index", "call"}
    /\ mode \in {"operand", "elem", "value"}
    /\ Len(val) <= 1
    /\ gen.temps \in Nat
    /\ \A i \in Range(gen.code) : \A id \in {i.res, i.arg1, i.arg2} :
          id[1] = "tmp" => id[2] \in 1 .. gen.temps
    /\ pc \in {"parse", "run", "done", "crashed"}
    /\ at \in 1 .. Len(gen.code) + 1

\* A statement is rejected exactly when some part of it has no type, though the
\* descent goes on after an error with a null or an operand in its place; and
\* the compiler never stops for the lack of a value it has not reported.
RejectsIllTyped ==
    /\ pc \in {"run", "done"} /\ ~Odd => (gen.errs = {} <=> WellTyped)
    /\ pc = "crashed" => gen.errs # {}

\* The instructions of a statement that is accepted leave the memory, make the
\* calls and yield the value that its tree means.
DoesWhatItMeans ==
    pc = "done" /\ gen.errs = {} /\ input.stmt # "global" /\ ~Odd /\ Sequenced /\ ~Meaning.s.fault =>
        /\ m.calls = Meaning.s.calls
        /\ m.pushed = << >>
        /\ \A a \in DOMAIN Start \ {Place["new"]} : m.mem[a] = Meaning.s.mem[a]
        /\ input.stmt = "init" => m.mem[Place["new"]] = Meaning.v
        /\ input.stmt \in {"if", "while", "switch"} => m.result = Meaning.v
        /\ input.stmt = "return" /\ input.type # "void" => m.result = Meaning.v
=============================================================================
