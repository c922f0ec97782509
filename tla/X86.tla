-------------------------------- MODULE X86 --------------------------------
(***************************************************************************)
(* The generation of x86 code: InterInst::toX86 turns the intermediate     *)
(* instructions of a function, one after the other, into machine code that *)
(* keeps each variable where the allocation put it (its home: one of three *)
(* registers, the stack frame or the data segment). The code then runs on  *)
(* a machine with bytes of few values, four to a word.                     *)
(*                                                                         *)
(* The function is chosen as it is generated. What it calls is another     *)
(* generated function, which stores into its own variables and returns a   *)
(* number. One step runs the machine code of one instruction; nothing can  *)
(* come between.                                                           *)
(***************************************************************************)
EXTENDS Words, Sequences, SequencesExt, Bitwise

CONSTANTS
    Vars, Chars, Arrays,    \* the variables; those of type char; the arrays
    Layouts,    \* where variables may live, see Init
    Insts,      \* the instructions a function may be made of
    Inputs,     \* contents of the homes before the run
    Dirt,       \* contents of edx before the run
    Given,      \* what the called function returns
    MaxCode     \* bound: instructions of a function

VARIABLES
    layout,     \* home of each variable; depth and main of the function;
                \* the homes and depth of the function it calls
    code,       \* the instructions generated, with what was decided for each
    regMaxId,   \* the highest register used so far
    at,         \* the next instruction; 0 before the run, -1 after a fault
    mach,       \* the machine
    ret         \* the value returned

genVars == <<layout, code, regMaxId>>
allVars == <<genVars, at, mach, ret>>

-----------------------------------------------------------------------------
(* The machine: registers, memory by the byte, the operands of the last     *)
(* comparison, the instruction a jump chose (0: none), and whether it runs. *)
(* The size of an operand is its number of bytes.                           *)

Registers == {"eax", "ebx", "ecx", "edx", "edi", "esi", "ebp", "esp"}

Top == WordSize - 4      \* esp when the program starts

PowerOn == [reg |-> [r \in Registers |-> IF r = "esp" THEN Top ELSE 1],
            mem |-> [a \in Word |-> 0], cmp |-> << 0, 0 >>, next |-> 0, up |-> TRUE]

Reg(r) == [is |-> "reg", at |-> r, size |-> 4]
Half(r) == [is |-> "reg", at |-> r, size |-> 2]
Byte(r) == [is |-> "reg", at |-> r, size |-> 1]
Imm(n) == [is |-> "imm", at |-> Wrap(n), size |-> 4]
Mem(base, off, size) == [is |-> "mem", base |-> base, off |-> off, size |-> size]

Address(m, o) == Wrap((IF o.base = "none" THEN 0 ELSE m.reg[o.base]) + o.off)

\* The number that so many bytes of memory hold, the lowest byte first.
Peek(mem, adr, size) == MapThenSumSet(LAMBDA k : mem[Wrap(adr + k)] * Power(k), 0 .. size - 1)

Poke(mem, adr, size, x) ==
    FoldSet(LAMBDA k, cells : [cells EXCEPT ![Wrap(adr + k)] = (x \div Power(k)) % ByteSize],
            mem, 0 .. size - 1)

Read(m, o) ==
    CASE o.is = "imm" -> o.at
      [] o.is = "reg" -> m.reg[o.at] % Power(o.size)
      [] o.is = "mem" -> Peek(m.mem, Address(m, o), o.size)

\* Writing a part of a register leaves its upper bytes as they are; writing to
\* memory changes the bytes of the operand, whosever they are.
Write(m, o, x) ==
    IF o.is = "reg" THEN [m EXCEPT !.reg[o.at] = @ - (@ % Power(o.size)) + (x % Power(o.size))]
    ELSE [m EXCEPT !.mem = Poke(@, Address(m, o), o.size, x)]

Op(do, to, from) == [do |-> do, to |-> to, from |-> from]
Op1(do, to) == Op(do, to, to)
Mov(to, from) == Op("mov", to, from)
JumpIf(cc, target) == Op("j", cc, target)

Push(m, x) ==
    LET sp == Wrap(m.reg["esp"] - 4)
    IN  [m EXCEPT !.reg["esp"] = sp, !.mem = Poke(@, sp, 4, x)]

Pop(m) == [m EXCEPT !.reg["esp"] = Wrap(@ + 4)]

\* idiv: edx and eax together by the operand.
Divided(m, d) ==
    LET n == Signed(m.reg["edx"]) * WordSize + m.reg["eax"]
        q == Truncated(n, d)
        half == WordSize \div 2
    IN  IF d = 0 THEN [m EXCEPT !.up = FALSE]
        ELSE IF q \notin -half .. half - 1 THEN [m EXCEPT !.up = FALSE]
        ELSE [m EXCEPT !.reg["eax"] = Wrap(q), !.reg["edx"] = Wrap(n - q * d)]

Do(m, i) ==
    IF ~m.up THEN m ELSE
    CASE i.do = "mov" -> Write(m, i.to, Read(m, i.from))
      [] i.do = "lea" -> Write(m, i.to, Address(m, i.from))
      [] i.do = "add" -> Write(m, i.to, Read(m, i.to) + Read(m, i.from))
      [] i.do = "sub" -> Write(m, i.to, Read(m, i.to) - Read(m, i.from))
      [] i.do = "neg" -> Write(m, i.to, -Read(m, i.to))
      [] i.do = "or" -> Write(m, i.to, Read(m, i.to) | Read(m, i.from))
      [] i.do = "imul" ->
            LET product == Signed(m.reg["eax"]) * Signed(Read(m, i.to))
            IN  [m EXCEPT !.reg["eax"] = Wrap(product), !.reg["edx"] = Wrap(product \div WordSize)]
      [] i.do = "idiv" -> Divided(m, Signed(Read(m, i.to)))
      [] i.do = "cmp" -> [m EXCEPT !.cmp = << Signed(Read(m, i.to)), Signed(Read(m, i.from)) >>]
      [] i.do = "set" -> Write(m, i.to, Bit(Compare(i.from, m.cmp[1], m.cmp[2])))
      [] i.do = "j" -> IF i.to = "always" THEN [m EXCEPT !.next = i.from]
                       ELSE IF Compare(i.to, m.cmp[1], m.cmp[2]) THEN [m EXCEPT !.next = i.from]
                       ELSE m
      [] i.do = "push" -> Push(m, Read(m, i.to))
      [] i.do = "pop" -> Pop(Write(m, i.to, Peek(m.mem, m.reg["esp"], 4)))
      [] i.do = "call" -> Push(m, 0)
      [] i.do = "ret" -> Pop(m)

Run(m, asm) == FoldLeft(Do, m, asm)

-----------------------------------------------------------------------------
(* Homes: [in |-> "reg", at |-> id], [in |-> "frame", at |-> offset from ebp] *)
(* and [in |-> "data", at |-> address].                                       *)

RegName == [id \in 0 .. 2 |-> << "edi", "esi", "edx" >>[id + 1]]

Home(v) == layout.home[v]
InReg(v) == v \in Vars /\ Home(v).in = "reg"

\* The bytes of a variable's home that are read and written: two of a char's,
\* though one is all that the data segment has for it.
Width(v) == IF v \in Chars THEN 2 ELSE 4

\* The part of a register a variable takes.
Part(r, v) == IF v \in Chars THEN Half(r) ELSE Reg(r)

Place(h, width) ==
    IF h.in = "reg" THEN [Reg(RegName[h.at]) EXCEPT !.size = width]
    ELSE Mem(IF h.in = "frame" THEN "ebp" ELSE "none", h.at, width)

\* loadVar. A number stands for itself, an array for its address.
Load(r, a) ==
    IF a \notin Vars THEN << Mov(Reg(r), Imm(a)) >>
    ELSE IF a \in Arrays THEN << Op("lea", Reg(r), Place(Home(a), 4)) >>
    ELSE (IF a \in Chars THEN << Mov(Reg(r), Imm(0)) >> ELSE << >>)
         \o << Mov(Part(r, a), Place(Home(a), Width(a))) >>

\* storeVar. Nothing is emitted when the value is at home already.
Store(r, v) ==
    IF InReg(v) /\ RegName[Home(v).at] = r THEN << >>
    ELSE << Mov(Place(Home(v), Width(v)), Part(r, v)) >>

\* initVar: a register gets the value whole.
InitVar(v, n) ==
    IF InReg(v) THEN << Mov(Place(Home(v), 4), Imm(n)) >>
                ELSE << Mov(Reg("eax"), Imm(n)) >> \o Store("eax", v)

LeaVar(r, v) == << Op("lea", Reg(r), Place(Home(v), 4)) >>

-----------------------------------------------------------------------------
(* ENTRY and EXIT: every function but main keeps the registers of its       *)
(* caller right below the frame pointer.                                    *)

Entry(main, depth) ==
    << Op1("push", Reg("ebp")), Mov(Reg("ebp"), Reg("esp")) >>
    \o (IF main THEN << >>
        ELSE << Op1("push", Reg("edx")), Op1("push", Reg("edi")), Op1("push", Reg("esi")) >>)
    \o << Op("sub", Reg("esp"), Imm(depth)) >>

Exit(main, depth) ==
    << Op("add", Reg("esp"), Imm(depth)) >>
    \o (IF main THEN << >>
        ELSE << Op1("pop", Reg("esi")), Op1("pop", Reg("edi")), Op1("pop", Reg("edx")) >>)
    \o << Mov(Reg("esp"), Reg("ebp")), Op1("pop", Reg("ebp")), Op1("ret", Reg("eax")) >>

\* The called function: it sets its variables, all of them in its frame, and
\* returns a number.
Callee ==
    LET Sets(off) == << Mov(Reg("eax"), Imm(Given + 1)),
                        Mov(Mem("ebp", off, 4), Reg("eax")) >>
    IN  Entry(FALSE, layout.calleeDepth)
        \o FlattenSeq([k \in DOMAIN layout.callee |-> Sets(layout.callee[k])])
        \o << Mov(Reg("eax"), Imm(Given)) >>
        \o Exit(FALSE, layout.calleeDepth)

\* Mutant of CallCode: the arguments stay on the stack.
CallCodeKeeps(i) == << Op1("call", Reg("eax")) >> \o Callee

CallCode(i) ==
    << Op1("call", Reg("eax")) >> \o Callee \o << Op("add", Reg("esp"), Imm(4 * i.paras)) >>

-----------------------------------------------------------------------------
(* What toX86 emits for one instruction. A remainder saves edx in ecx when a *)
(* variable lives there, and restores it when one does after its result is   *)
(* stored; what regMaxId says at these two moments is kept with it.          *)

Both(i) == Load("eax", i.arg1) \o Load("ebx", i.arg2)

Cmp(x, y) == Op("cmp", x, y)
SetBit(cc, r) == Op("set", Byte(r), cc)

Comparison(i) ==
    Both(i) \o << Mov(Reg("ecx"), Imm(0)), Cmp(Reg("eax"), Reg("ebx")), SetBit(i.op, "ecx") >>
            \o Store("ecx", i.res)

Arithmetic(i) ==
    Both(i) \o (CASE i.op \in {"add", "sub"} -> << Op(i.op, Reg("eax"), Reg("ebx")) >>
                  [] i.op = "mul" -> << Op1("imul", Reg("ebx")) >>
                  [] i.op = "div" -> << Op1("idiv", Reg("ebx")) >>)
            \o Store("eax", i.res)

\* Mutant of Remainder: edx is not restored.
RemainderLoses(i, saves, restores) ==
    Both(i) \o (IF saves THEN << Mov(Reg("ecx"), Reg("edx")) >> ELSE << >>)
            \o << Op1("idiv", Reg("ebx")) >> \o Store("edx", i.res)

Remainder(i, saves, restores) ==
    Both(i) \o (IF saves THEN << Mov(Reg("ecx"), Reg("edx")) >> ELSE << >>)
            \o << Op1("idiv", Reg("ebx")) >> \o Store("edx", i.res)
            \o (IF restores THEN << Mov(Reg("edx"), Reg("ecx")) >> ELSE << >>)

Negation(i) == Load("eax", i.arg1) \o << Op1("neg", Reg("eax")) >> \o Store("eax", i.res)

Inversion(i) ==
    Load("eax", i.arg1)
    \o << Mov(Reg("ebx"), Imm(0)), Cmp(Reg("eax"), Imm(0)), SetBit("equ", "ebx") >>
    \o Store("ebx", i.res)

\* Only the lowest byte of each operand becomes 0 or 1.
Logic(i) ==
    Load("eax", i.arg1) \o << Cmp(Reg("eax"), Imm(0)), SetBit("ne", "eax") >>
    \o Load("ebx", i.arg2) \o << Cmp(Reg("ebx"), Imm(0)), SetBit("ne", "ebx") >>
    \o << Op(IF i.op = "and" THEN "add" ELSE "or", Reg("eax"), Reg("ebx")) >>
    \o Store("eax", i.res)

Branch(i) ==
    CASE i.op = "jmp" -> << JumpIf("always", i.target) >>
      [] i.op = "jt" -> Load("eax", i.arg1) \o << Cmp(Reg("eax"), Imm(0)), JumpIf("ne", i.target) >>
      [] i.op = "jf" -> Load("eax", i.arg1) \o << Cmp(Reg("eax"), Imm(0)), JumpIf("equ", i.target) >>
      [] i.op = "jne" -> Both(i) \o << Cmp(Reg("eax"), Reg("ebx")), JumpIf("ne", i.target) >>

\* A whole word goes through a pointer, whatever it points to.
Pointer(i) ==
    CASE i.op = "lea" -> LeaVar("eax", i.arg1) \o Store("eax", i.res)
      [] i.op = "set" -> Load("eax", i.res) \o Load("ebx", i.arg1)
                         \o << Mov(Mem("ebx", 0, 4), Reg("eax")) >>
      [] i.op = "get" -> Load("eax", i.arg1) \o << Mov(Reg("eax"), Mem("eax", 0, 4)) >>
                         \o Store("eax", i.res)

Comparisons == {"gt", "ge", "lt", "le", "equ", "ne"}
Branches == {"jmp", "jt", "jf", "jne"}

ToX86(e) ==
    LET i == e.inst
    IN  CASE i.op = "dec" -> << >>
          [] i.op = "init" -> InitVar(i.res, i.arg1)
          [] i.op = "as" -> Load("eax", i.arg1) \o Store("eax", i.res)
          [] i.op \in {"add", "sub", "mul", "div"} -> Arithmetic(i)
          [] i.op = "mod" -> Remainder(i, e.saves, e.restores)
          [] i.op = "neg" -> Negation(i)
          [] i.op \in Comparisons -> Comparison(i)
          [] i.op = "not" -> Inversion(i)
          [] i.op \in {"and", "or"} -> Logic(i)
          [] i.op \in Branches -> Branch(i)
          [] i.op = "arg" -> Load("eax", i.arg1) \o << Op1("push", Reg("eax")) >>
          [] i.op = "proc" -> CallCode(i)
          [] i.op = "call" -> CallCode(i) \o Store("eax", i.res)
          [] i.op = "ret" -> << >>
          [] i.op = "retv" -> Load("eax", i.arg1)
          [] i.op \in {"lea", "set", "get"} -> Pointer(i)
-----------------------------------------------------------------------------
(* Generation. regMaxId rises as loadVar, storeVar and initVar name the      *)
(* registers; leaVar does not, an allocated register has no address.         *)

Loads(i) ==
    CASE i.op \in {"dec", "jmp", "ret", "proc", "call", "lea", "init"} -> {}
      [] i.op = "set" -> {i.res, i.arg1}
      [] i.op \in {"as", "neg", "not", "jt", "jf", "arg", "retv", "get"} -> {i.arg1}
      [] OTHER -> {i.arg1, i.arg2}

Stores(i) ==
    IF i.op \in {"dec", "jmp", "jt", "jf", "jne", "arg", "proc", "ret", "retv", "set"}
    THEN {} ELSE {i.res}

\* Mutant of Raised: registers are counted from one.
RaisedPast(id, operands) == Max({id} \cup {Home(v).at + 1 : v \in {w \in operands : InReg(w)}})

Raised(id, operands) == Max({id} \cup {Home(v).at : v \in {w \in operands : InReg(w)}})

InEdx == {v \in Vars : InReg(v) /\ RegName[Home(v).at] = "edx"}

\* Where a called function keeps the registers of its caller.
SavedAt == [edx |-> -4, edi |-> -8, esi |-> -12]

\* The variables whose values one instruction destroys, beyond its result.
Destroyed(i, saves) ==
    CASE i.op \in {"mul", "div"} -> InEdx \ {i.res}
      [] i.op = "mod" -> IF saves THEN {i.res} \cap InEdx ELSE InEdx
      [] i.op \in {"call", "proc"} ->
            {v \in Vars : InReg(v) /\ SavedAt[RegName[Home(v).at]] \in Range(layout.callee)}
            \ Stores(i)
      [] OTHER -> {}

Generate(g, i) ==
    LET loaded == Raised(g.max, Loads(i))
        stored == Raised(loaded, Stores(i))
    IN  [max |-> stored,
         code |-> Append(g.code, [inst |-> i, saves |-> loaded >= 2, restores |-> stored >= 2,
                                  lost |-> Destroyed(i, loaded >= 2)])]

\* A call is generated together with the passing of its arguments.
Prepared(i) ==
    (IF i.op \in {"call", "proc"}
     THEN [k \in DOMAIN i.args |-> [op |-> "arg", arg1 |-> i.args[k]]] ELSE << >>) \o << i >>

Emit ==
    /\ at = 0 /\ Len(code) < MaxCode
    /\ \E i \in Insts :
            /\ i.op = "lea" => ~InReg(i.arg1)
            /\ LET g == FoldLeft(Generate, [max |-> regMaxId, code |-> code], Prepared(i))
               IN  regMaxId' = g.max /\ code' = g.code
    /\ UNCHANGED <<layout, at, mach, ret>>

-----------------------------------------------------------------------------
(* The run. *)

Init ==
    /\ layout \in Layouts
    /\ code = << >> /\ regMaxId = -1 /\ at = 0 /\ mach = PowerOn /\ ret = 0

OpAt(k) == code[k].inst.op

\* The labels jumps go to stand between statements, never among arguments.
Targets == {1, Len(code) + 1} \cup {k \in 2 .. Len(code) : OpAt(k - 1) # "arg"}

Begin ==
    /\ at = 0
    /\ \A k \in DOMAIN code : OpAt(k) \in Branches => code[k].inst.target \in Targets
    /\ \E input \in Inputs, d \in Dirt :
            LET entered == Run(Push([PowerOn EXCEPT !.reg["edx"] = d], 0),
                               Entry(layout.main, layout.depth))
                Fill(m, v) == Write(m, Place(Home(v), Width(v)), input[v])
            IN  mach' = FoldSet(LAMBDA v, m : Fill(m, v), entered, Vars)
    /\ at' = 1 /\ UNCHANGED <<genVars, ret>>

Executes(ops) ==
    /\ at \in DOMAIN code /\ OpAt(at) \in ops
    /\ mach' = Run([mach EXCEPT !.next = 0], ToX86(code[at]))
    /\ at' = CASE ~mach'.up -> -1
               [] OpAt(at) \in {"ret", "retv"} -> Len(code) + 1
               [] mach'.next # 0 -> mach'.next
               [] OTHER -> at + 1
    /\ ret' = IF OpAt(at) = "retv" THEN mach'.reg["eax"] ELSE ret
    /\ UNCHANGED genVars

Compute == Executes({"init", "as", "add", "sub", "mul", "neg", "not"} \cup Comparisons)
Junction == Executes({"and", "or"})
Divide == Executes({"div", "mod"})
Declare == Executes({"dec"})
Jump == Executes(Branches)
Argument == Executes({"arg"})
Call == Executes({"call", "proc"})
Return == Executes({"ret", "retv"})
TakeAddress == Executes({"lea"})
ThroughPointer == Executes({"set", "get"})

Finish ==
    /\ at = Len(code) + 1 /\ at' = at + 1
    /\ mach' = Run(mach, Exit(layout.main, layout.depth))
    /\ UNCHANGED <<genVars, ret>>

Next ==
    \/ Emit \/ Begin
    \/ Compute \/ Junction \/ Divide \/ Declare \/ Jump \/ Argument \/ Call \/ Return
    \/ TakeAddress \/ ThroughPointer
    \/ Finish

Spec == Init /\ [][Next]_allVars

-----------------------------------------------------------------------------
(* Correctness. *)

\* Homes and code are well formed, registers hold words and memory bytes.
TypeOK ==
    /\ layout \in Layouts
    /\ \A k \in DOMAIN code :
            /\ code[k].lost \subseteq {v \in Vars : InReg(v)}
            /\ {code[k].saves, code[k].restores} \subseteq BOOLEAN
    /\ regMaxId \in -1 .. 2
    /\ at \in -1 .. Len(code) + 2
    /\ mach.reg \in [Registers -> Word] /\ mach.mem \in [Word -> ByteValue]
    /\ ret \in Word

\* The arguments pushed right before an instruction.
Pending == IF at = 1 THEN 0
           ELSE at - 1 - Max({0} \cup {k \in 1 .. at - 1 : OpAt(k) # "arg"})

Kept == IF layout.main THEN 0 ELSE 12

\* Whatever path the generated jumps take, esp is at every instruction where
\* ENTRY put it, less the arguments passed so far, so that EXIT and each call
\* find the frame; and when the function ends, esp and ebp are its caller's
\* again, and so are edx, edi and esi as far as no variable lies on them.
Balanced ==
    /\ at \in 1 .. Len(code) + 1 =>
            mach.reg["esp"] = mach.reg["ebp"] - Kept - layout.depth - 4 * Pending
    /\ at = Len(code) + 2 =>
            /\ mach.reg["esp"] = Top /\ mach.reg["ebp"] = PowerOn.reg["ebp"]
            /\ ~layout.main =>
                    \A r \in {"edi", "esi"} :
                        (\A v \in Vars : Home(v) # [in |-> "frame", at |-> SavedAt[r]])
                            => mach.reg[r] = PowerOn.reg[r]

\* The code computes what the instructions mean: the meaning of each one is
\* met, for the variables wherever they live, but for those of `lost'.
Contents(v) == Read(mach, Place(Home(v), Width(v)))

Inter == INSTANCE InterCode WITH
    code <- [k \in DOMAIN code |-> [inst |-> code[k].inst, lost |-> code[k].lost]],
    val <- [v \in Vars |-> Contents(v)],
    address <- [v \in {w \in Vars : ~InReg(w)} |-> Address(mach, Place(Home(v), 4))],
    high <- mach.reg["edx"]

\* InterInst::toX86 implements the intermediate code.
Implements == Inter!Spec
=============================================================================
