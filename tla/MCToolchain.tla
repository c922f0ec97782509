---------------------------- MODULE MCToolchain ----------------------------
(***************************************************************************)
(* Builds of one generated file, with every form of instruction that the   *)
(* compiler emits but one (Exchanged), and of a generated file with one    *)
(* written by hand, with the forms that only the assembler's grammar has.  *)
(* Names are of a length that gives most files a long enough string table. *)
(***************************************************************************)
EXTENDS Toolchain

MCNameLen ==
    [main |-> 4, _start |-> 6, gv |-> 9, gc |-> 10, gp |-> 9, help |-> 11, lv |-> 15, other |-> 9,
     wide |-> 240]
    @@ (".L1" :> 3) @@ (".L2" :> 3)

S(name) == Named("sym", name)
R(size, k) == RegOp(size, k)
AtSym(name) == [is |-> "mem", by |-> "sym", name |-> name]
AtReg(k) == [is |-> "mem", by |-> "reg", code |-> k]
AtDisp(k, n) == [is |-> "mem", by |-> "disp", code |-> k, n |-> n]
AtNum(n) == [is |-> "mem", by |-> "num", n |-> n]
AtIndex(k, j) == [is |-> "mem", by |-> "index", code |-> k, index |-> j]

-----------------------------------------------------------------------------
(* What interInst.cpp emits. *)

\* The registers of two bytes that chars pass through (loadVar, storeVar).
AX == R(2, 0)
CX == R(2, 1)
DX == R(2, 2)
BX == R(2, 3)
SI == R(2, 6)
DI == R(2, 7)

CharMoves ==
    { << AX, DI >>, << BX, SI >>, << AX, DX >>, << DI, AX >>, << SI, CX >>, << DX, BX >>,
      << AX, Num(65) >>, << BX, Num(-1) >>,
      << AX, AtSym("gc") >>, << BX, AtSym("gc") >>, << AtSym("gc"), AX >>, << AtSym("gc"), DX >>,
      << AX, AtDisp(EBP, -8) >>, << BX, AtDisp(EBP, -200) >>,
      << AtDisp(EBP, -128), CX >>, << AtDisp(EBP, -132), AX >> }

Moves ==
    { << R32(0), Num(-2) >>, << R32(3), Num(700) >>, << R32(1), S("gv") >>, << R32(0), S("help") >>,
      << R32(2), R32(0) >>, << R32(0), AtSym("gv") >>, << AtSym("gv"), R32(3) >>,
      << R32(0), AtDisp(EBP, -4) >>, << R32(1), AtDisp(EBP, -200) >>, << R32(1), AtDisp(EBP, 8) >>,
      << AtDisp(EBP, 128), R32(0) >>, << AtDisp(EBP, -128), R32(2) >>,
      << AtReg(3), R32(0) >>, << R32(0), AtReg(0) >>,
      << R32(4), R32(5) >>, << R32(5), R32(4) >> }

Emitted ==
    {I("mov", m) : m \in Moves \cup CharMoves}
    \cup {I(op, << R32(0), R32(3) >>) : op \in {"add", "sub", "cmp"}}
    \cup {I(op, << R32(4), Num(n) >>) : op \in {"add", "sub"}, n \in {4, 300}}
    \cup {I("cmp", << R32(0), Num(0) >>)}
    \cup {I("lea", << R32(k), AtDisp(EBP, n) >>) : k \in {0, 3}, n \in {-8, -300}}
    \cup {I(op, << R32(3) >>) : op \in {"imul", "idiv", "push", "pop"}}
    \cup {I("neg", << R32(0) >>), I("call", << S("help") >>), I("ret", << >>), I("push", << R32(5) >>)}
    \cup {I(op, << R(1, 1) >>) : op \in DOMAIN Sets}
    \cup {I(op, << S(l) >>) : op \in {"jmp", "je", "jne"}, l \in {".L1", ".L2"}}

-----------------------------------------------------------------------------
(* What the grammar allows beside it. *)

Extra ==
    {I(op, << S(".L1") >>) : op \in {"jg", "jl", "jge", "jle", "jna"}}
    \cup {I(op, << R(n, 2) >>) : op \in {"inc", "dec", "neg"}, n \in {1, 4}}
    \cup {I(op, << R(n, 1), R(n, 2) >>) : op \in {"add", "sub", "cmp"}, n \in {1, 2}}
    \cup {I("mov", m) : m \in {<< R(1, 0), R(1, 3) >>, << R(1, 0), Num(65) >>, << AtReg(3), R(1, 0) >>,
                               << R(1, 0), AtSym("gc") >>, << AtSym("gc"), R(1, 0) >>,
                               << R(1, 0), AtDisp(EBP, -5) >>, << AtDisp(EBP, -129), R(1, 0) >>}}
    \cup {I("and", << R32(1), Num(-1) >>), I("or", << R32(1), Num(7) >>), I("push", << Num(5) >>),
          I("mov", << R32(0), AtReg(EBP) >>), I("mov", << R32(0), AtDisp(ESP, 4) >>),
          I("mov", << R32(0), AtReg(ESP) >>), I("mov", << R32(1), AtIndex(3, 2) >>),
          I("mov", << AtNum(999), R32(1) >>), I("lea", << R32(1), AtSym("gv") >>),
          I("mov", << R32(1), S("lv") >>), I("mov", << R32(1), AtSym("other") >>) }

-----------------------------------------------------------------------------
(* The files. *)

GlobalVar(name, char, array, n) ==
    [name |-> name, char |-> char, ptr |-> FALSE, array |-> array, init |-> [is |-> "num", n |-> n]]
Pointer(name, target) ==
    [name |-> name, char |-> TRUE, ptr |-> TRUE, array |-> 0, init |-> S(target)]

Locals(body) == << Named("label", ".L1") >> \o body \o << Named("label", ".L2"), I("ret", << >>) >>
Function(name, body) == [name |-> name, body |-> Locals(body)]
Helper == [name |-> "help", body |-> << I("ret", << >>) >>]

Generated(body, gc, s) ==
    GenAsm([funs |-> << Function("main", body), Helper >>,
            vars |-> << GlobalVar("gv", FALSE, 0, -9), gc, Pointer("gp", "lv") >>,
            strs |-> << [name |-> "lv", bytes |-> s] >>])

Datas == { << GlobalVar("gc", TRUE, 0, 65), << 104, 105 >> >>, << GlobalVar("gc", TRUE, 3, 0), << >> >> }

Whole == { << Generated(<< i, j >>, d[1], d[2]) >> :
              i \in Emitted, d \in Datas,
              j \in {I("mov", << AtSym("gv"), R32(1) >>), I("jmp", << S(".L2") >>)} }

\* main calls a function of the other file and reads its data.
Caller(body) ==
    GenAsm([funs |-> << Function("main", body \o << I("call", << S("help") >>) >>) >>,
            vars |-> << GlobalVar("gc", TRUE, 0, 7), Pointer("gp", "gv") >>, strs |-> << >>])

ByHand(body, names) ==
    << Named("section", ".text"), Named("global", "help"), Named("label", "help") >>
    \o Locals(body)
    \o << Named("section", ".data"), [is |-> "equ", name |-> "other", n |-> 12] >>
    \o [k \in DOMAIN names |-> Named("global", names[k])]
    \o << Definition("gv", 1, 4, << [is |-> "num", n |-> 3], S("help"), S("gv") >>),
          Definition("lv", 2, 1, << [is |-> "str", bytes |-> << 1, 2, 3 >>] >>),
          Named("section", ".bss") >>

Libraries == {ByHand(<< i >>, << "gv" >>) : i \in Extra}

OtherWays ==
    { ByHand(<< >>, << >>),                    \* gv is not global: nobody provides it
      ByHand(<< >>, << "gv", "gc" >>) }        \* gc is nobody's here, but main's file has it

Two == { << Caller(<< I("mov", << R32(0), AtSym("gv") >>) >>), lib >> : lib \in Libraries \cup OtherWays }
       \cup { << lib, Caller(<< I("je", << S("help") >>) >>) >> : lib \in OtherWays \cup
                 {ByHand(<< I("push", << Num(5) >>) >>, << "gv" >>)} }

\* A short program; two mains; a long name; no main.
Odd == { << GenAsm([funs |-> << [name |-> "main", body |-> << I("ret", << >>) >>] >>,
                    vars |-> << >>, strs |-> << >>]) >>,
         << Caller(<< >>), Caller(<< >>) >>,
         << Caller(<< >>), Generated(<< >>, GlobalVar("gc", FALSE, 0, 1), << >>) >>,
         << GenAsm([funs |-> << [name |-> "main", body |-> << I("ret", << >>) >>] >>,
                    vars |-> << GlobalVar("wide", TRUE, 0, 1) >>, strs |-> << >>]) >>,
         << ByHand(<< >>, << "gv" >>) >> }

\* Variables without contents, which only the grammar allows, after a string.
WithBss(bytes) ==
    << GenAsm([funs |-> << [name |-> "main", body |-> << I("mov", << R32(0), AtSym("other") >>),
                                                         I("ret", << >>) >>] >>,
               vars |-> << GlobalVar("gv", FALSE, 0, 3) >>, strs |-> << [name |-> "lv", bytes |-> bytes] >>])
       \o << Definition("other", 2, 4, << [is |-> "num", n |-> 0] >>) >> >>

\* .data ends at the end of a page, one word after it and one before.
Bss == {WithBss([k \in 1 .. n |-> 64 + k]) : n \in {3, 4, 12, 31}}

\* It ends two bytes before the end of a page.
CrossingBss == {WithBss(<< 65 >>)}

\* OP_OR with its two registers (interInst.cpp:685), and its like in the grammar:
\* ImageRunsTheSource does not hold with Inputs <- Exchanged. The opcodes of `and'
\* and `or' (generator.c:18) read the destination from reg, opr puts it into rm.
Exchanged == { << Generated(<< I(op, << R32(0), R32(3) >>) >>, GlobalVar("gc", TRUE, 0, 65), << >>) >> :
                  op \in {"or", "and"} }

MCInputs == Whole \cup Two \cup Odd \cup Bss
=============================================================================
