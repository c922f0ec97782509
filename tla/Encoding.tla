------------------------------ MODULE Encoding ------------------------------
(***************************************************************************)
(* The machine code of one instruction: how the assembler parses operands  *)
(* into the fields of an instruction (parser.c) and writes them as bytes   *)
(* (generator.c), and, as the reference, how the processor reads bytes.    *)
(*                                                                         *)
(* An operand is [is |-> "reg", size, code], [is |-> "imm", n], a symbol   *)
(* [is |-> "sym", name] or memory: [is |-> "mem", by, ...] with by one of  *)
(* "sym" (name), "num" (n), "reg" (code), "disp" (code, n) and "index"     *)
(* (code, index). An instruction is [op, args].                            *)
(***************************************************************************)
EXTENDS Integers, Sequences, SequencesExt

NoSym == "-"      \* no symbol

ESP == 4
EBP == 5

\* writeBytes: a number in little-endian order, in two's complement.
Bytes(n, len) == [k \in 1 .. len |-> (n \div 256^(k - 1)) % 256]

-----------------------------------------------------------------------------
(* Operands. *)

\* Inst::init
Blank == [mod |-> -1, reg |-> 0, rm |-> 0, sib |-> << >>, disp |-> << >>,
          imm |-> 0, len |-> 0, regs |-> 0, kinds |-> << >>, sym |-> NoSym]

\* ModRM and SIB bytes have the same three parts.
Fields(a, b, c) == << a * 64 + b * 8 + c >>

\* A base register; esp as a base needs a SIB byte.
Based(p, mod, code) ==
    [p EXCEPT !.mod = mod, !.rm = code,
              !.sib = IF code = ESP THEN Fields(0, ESP, ESP) ELSE @]

IsDisp8(n) == n \in -128 .. 127

\* addr, regaddr, regaddrtail
Memory(p, o, adr) ==
    CASE o.by = "sym" -> [p EXCEPT !.mod = 0, !.rm = EBP, !.disp = Bytes(adr[o.name], 4),
                                   !.sym = o.name]
      [] o.by = "num" -> [p EXCEPT !.mod = 0, !.rm = EBP, !.disp = Bytes(o.n, 4)]
      [] o.by = "reg" /\ o.code = EBP -> [Based(p, 1, EBP) EXCEPT !.disp = Bytes(0, 1)]
      [] o.by = "reg" /\ o.code # EBP -> Based(p, 0, o.code)
      [] o.by = "disp" -> [Based(p, IF IsDisp8(o.n) THEN 1 ELSE 2, o.code)
                              EXCEPT !.disp = Bytes(o.n, IF IsDisp8(o.n) THEN 1 ELSE 4)]
      [] o.by = "index" -> [p EXCEPT !.mod = 0, !.rm = ESP, !.sib = Fields(0, o.index, o.code)]

\* The kinds of enum OP_TYPE.
Immediate == 1
Register == 2
InMemory == 3

\* opr: the first of two registers moves to rm.
Operand(p, o, adr) ==
    CASE o.is = "imm" -> [p EXCEPT !.imm = o.n, !.kinds = Append(@, Immediate)]
      [] o.is = "sym" -> [p EXCEPT !.imm = adr[o.name], !.sym = o.name,
                                   !.kinds = Append(@, Immediate)]
      [] o.is = "mem" -> [Memory(p, o, adr) EXCEPT !.kinds = Append(@, InMemory)]
      [] o.is = "reg" -> [p EXCEPT !.mod = IF p.regs # 0 THEN 3 ELSE @,
                                   !.rm = IF p.regs # 0 THEN p.reg ELSE @,
                                   !.reg = o.code, !.len = o.size, !.regs = @ + 1,
                                   !.kinds = Append(@, Register)]

-----------------------------------------------------------------------------
(* Code: the bytes up to a field that may hold a symbol, how that field is  *)
(* relocated ("abs", "pc", or "none"), and the bytes of the field.          *)

Code(head, kind, field) == [head |-> head, kind |-> kind, field |-> field]
Plain(bytes) == Code(bytes, "none", << >>)

\* i_2opcode: r,r  r,rm  rm,r  r,im for bytes, then for words.
Opcodes == [
    mov |-> << 136, 138, 136, 176, 137, 139, 137, 184 >>,
    cmp |-> << 56, 58, 56, 128, 57, 59, 57, 129 >>,
    sub |-> << 40, 42, 40, 128, 41, 43, 41, 129 >>,
    add |-> << 0, 2, 0, 128, 1, 3, 1, 129 >>,
    and |-> << 34, 34, 32, 128, 35, 35, 33, 129 >>,
    or |-> << 10, 10, 8, 128, 11, 11, 9, 129 >>,
    lea |-> << 0, 0, 0, 0, 0, 141, 0, 0 >> ]

RegCode == [cmp |-> 7, sub |-> 5, add |-> 0, and |-> 4, or |-> 1]

Prefix(len) == IF len = 2 THEN << 102 >> ELSE << >>

ModRM(p) == Fields(p.mod, p.reg, p.rm)

\* gen2op
Gen2op(op, p) ==
    LET form == IF p.kinds[2] = Immediate THEN 4
                ELSE (p.kinds[1] - 2) * 2 + p.kinds[2] - 1
        opcode == Opcodes[op][(1 - (p.len % 2)) * 4 + form]
        start == Prefix(p.len) \o << opcode >>
        imm == Bytes(p.imm, p.len)
    IN  CASE p.mod = -1 /\ op = "mov" ->
                Code(Prefix(p.len) \o << opcode + p.reg >>, "abs", imm)
          [] p.mod = -1 /\ op # "mov" ->
                Code(start \o Fields(3, RegCode[op], p.reg), "abs", imm)
          [] p.mod = 0 /\ p.rm = EBP -> Code(start \o ModRM(p), "abs", p.disp)
          [] p.mod = 0 /\ p.rm # EBP -> Plain(start \o ModRM(p) \o p.sib)
          [] p.mod \in {1, 2} -> Plain(start \o ModRM(p) \o p.sib \o p.disp)
          [] p.mod = 3 -> Plain(start \o ModRM(p))

\* The condition codes of jcc and setcc.
Condition == [e |-> 4, ne |-> 5, g |-> 15, l |-> 12, ge |-> 13, le |-> 14, na |-> 6]
Jumps == [je |-> "e", jne |-> "ne", jg |-> "g", jl |-> "l", jge |-> "ge", jle |-> "le", jna |-> "na"]
Sets == [sete |-> "e", setne |-> "ne", setg |-> "g", setge |-> "ge", setl |-> "l", setle |-> "le"]

\* gen1op and gen0op. The distance of a jump is known to the assembler only.
Gen1op(op, p) ==
    LET pre == Prefix(p.len)
        Counts(wide, byte) == IF p.len = 1 THEN << 254, byte + p.reg >>
                                           ELSE pre \o << wide + p.reg >>
    IN  CASE op = "call" -> Code(<< 232 >>, "pc", Bytes(0, 4))
          [] op = "jmp" -> Code(<< 233 >>, "pc", Bytes(0, 4))
          [] op \in DOMAIN Jumps -> Code(<< 15, 128 + Condition[Jumps[op]] >>, "pc", Bytes(0, 4))
          [] op \in DOMAIN Sets -> Plain(<< 15, 144 + Condition[Sets[op]] >> \o Fields(3, 0, p.reg))
          [] op = "int" -> Plain(<< 205 >> \o Bytes(p.imm, 1))
          [] op = "push" -> Plain(IF p.kinds[1] = Immediate THEN << 104 >> \o Bytes(p.imm, 4)
                                  ELSE pre \o << 80 + p.reg >>)
          [] op = "pop" -> Plain(pre \o << 88 + p.reg >>)
          [] op = "inc" -> Plain(Counts(64, 192))
          [] op = "dec" -> Plain(Counts(72, 200))
          [] op = "neg" -> Plain(pre \o << IF p.len = 1 THEN 246 ELSE 247, 216 + p.reg >>)
          [] op = "imul" -> Plain(pre \o << 247, 232 + p.reg >>)
          [] op = "idiv" -> Plain(pre \o << 247, 248 + p.reg >>)
          [] op = "ret" -> Plain(<< 195 >>)

\* inst: the operands from left to right, then the code.
Parse(i, adr) == FoldLeft(LAMBDA p, o : Operand(p, o, adr), Blank, i.args)
Generate(i, p) == IF i.op \in DOMAIN Opcodes THEN Gen2op(i.op, p) ELSE Gen1op(i.op, p)

-----------------------------------------------------------------------------
(* The processor. Decode(b, k) is the instruction whose code starts at the  *)
(* k-th byte of b, with the number of its bytes; a jump's operand is where  *)
(* it goes, counted from that start.                                        *)

Number(b, k, len) ==
    LET high == b[k + len - 1]
    IN  FoldLeft(LAMBDA n, j : n * 256 + b[k + len - 1 - j],
                 IF high < 128 THEN high ELSE high - 256, [j \in 1 .. len - 1 |-> j])

RegOp(size, code) == [is |-> "reg", size |-> size, code |-> code]
ImmOp(n) == [is |-> "imm", n |-> n]
MemOp(base, index, n) == [is |-> "mem", base |-> base, index |-> index, n |-> n]
NoReg == -1

\* The operand a ModRM byte names, and the bytes it takes with what follows.
Modified(b, k, size) ==
    LET mod == b[k] \div 64
        rm == b[k] % 8
        sib == IF mod # 3 /\ rm = ESP THEN 1 ELSE 0
        base == IF sib = 1 THEN b[k + 1] % 8 ELSE rm
        index == IF sib = 1 /\ (b[k + 1] \div 8) % 8 # ESP THEN (b[k + 1] \div 8) % 8 ELSE NoReg
        disp == CASE mod = 0 -> IF base = EBP THEN 4 ELSE 0
                  [] mod = 1 -> 1 [] mod = 2 -> 4 [] mod = 3 -> 0
        n == IF disp = 0 THEN 0 ELSE Number(b, k + 1 + sib, disp)
    IN  IF mod = 3 THEN [o |-> RegOp(size, rm), len |-> 1]
        ELSE [o |-> MemOp(IF mod = 0 /\ base = EBP THEN NoReg ELSE base, index, n),
              len |-> 1 + sib + disp]

Arithmetic == (0 :> "add") @@ (1 :> "or") @@ (4 :> "and") @@ (5 :> "sub") @@ (7 :> "cmp")
Group == (3 :> "neg") @@ (5 :> "imul") @@ (7 :> "idiv")

NameFor(table, cc) == CHOOSE op \in DOMAIN table : Condition[table[op]] = cc

Is(op, args, len) == [op |-> op, args |-> args, len |-> len]

\* The instruction at k when its ModRM byte, if it has one, names m.
Opened(b, k, word, m) ==
    LET c == b[k]
        middle == (b[k + 1] \div 8) % 8
        r == RegOp(IF c % 2 = 0 THEN 1 ELSE word, middle)
        To(rm, reg) == IF (c \div 2) % 2 = 0 THEN << rm, reg >> ELSE << reg, rm >>
    IN  CASE c = 195 -> Is("ret", << >>, 1)
          [] c \in 64 .. 71 -> Is("inc", << RegOp(word, c - 64) >>, 1)
          [] c \in 72 .. 79 -> Is("dec", << RegOp(word, c - 72) >>, 1)
          [] c \in 80 .. 87 -> Is("push", << RegOp(word, c - 80) >>, 1)
          [] c \in 88 .. 95 -> Is("pop", << RegOp(word, c - 88) >>, 1)
          [] c = 104 -> Is("push", << ImmOp(Number(b, k + 1, 4)) >>, 5)
          [] c \in 176 .. 183 -> Is("mov", << RegOp(1, c - 176), ImmOp(Number(b, k + 1, 1)) >>, 2)
          [] c \in 184 .. 191 ->
                Is("mov", << RegOp(word, c - 184), ImmOp(Number(b, k + 1, word)) >>, 1 + word)
          [] c = 205 -> Is("int", << ImmOp(b[k + 1]) >>, 2)
          [] c \in {232, 233} ->
                Is(IF c = 232 THEN "call" ELSE "jmp", << ImmOp(5 + Number(b, k + 1, 4)) >>, 5)
          [] c = 15 /\ b[k + 1] \in 128 .. 143 ->
                Is(NameFor(Jumps, b[k + 1] - 128), << ImmOp(6 + Number(b, k + 2, 4)) >>, 6)
          [] c = 15 /\ b[k + 1] \in 144 .. 159 ->
                LET t == Modified(b, k + 2, 1) IN Is(NameFor(Sets, b[k + 1] - 144), << t.o >>, 2 + t.len)
          [] c \in 136 .. 139 -> Is("mov", To(m.o, r), 1 + m.len)
          [] c = 141 -> Is("lea", << r, m.o >>, 1 + m.len)
          [] c \in {128, 129} ->
                Is(Arithmetic[middle], << m.o, ImmOp(Number(b, k + 1 + m.len, IF c = 128 THEN 1 ELSE word)) >>,
                   1 + m.len + IF c = 128 THEN 1 ELSE word)
          [] c \in {246, 247} -> Is(Group[middle], << m.o >>, 1 + m.len)
          [] c = 254 -> Is(IF middle = 0 THEN "inc" ELSE "dec", << m.o >>, 1 + m.len)
          [] c < 64 /\ c % 8 < 4 -> Is(Arithmetic[c \div 8], To(m.o, r), 1 + m.len)
          [] OTHER -> Is("bad", << >>, 1)

DecodeFrom(b, k, word) ==
    Opened(b, k, word, Modified(b, k + 1, IF b[k] % 2 = 0 THEN 1 ELSE word))

\* After an operand size prefix words have two bytes.
Decode(b, k) ==
    LET prefix == IF b[k] = 102 THEN 1 ELSE 0
    IN  [DecodeFrom(b, k + prefix, IF prefix = 1 THEN 2 ELSE 4) EXCEPT !.len = @ + prefix]

\* What an instruction of the source says, in the same form, when its code
\* starts at `here' and symbols stand for `adr'.
Meant(i, here, adr) ==
    LET flow == i.op \in {"call", "jmp"} \cup DOMAIN Jumps
        Said(o) ==
            CASE o.is = "sym" -> ImmOp(IF flow THEN adr[o.name] - here ELSE adr[o.name])
              [] o.is = "mem" /\ o.by = "sym" -> MemOp(NoReg, NoReg, adr[o.name])
              [] o.is = "mem" /\ o.by = "num" -> MemOp(NoReg, NoReg, o.n)
              [] o.is = "mem" /\ o.by = "reg" -> MemOp(o.code, NoReg, 0)
              [] o.is = "mem" /\ o.by = "disp" -> MemOp(o.code, NoReg, o.n)
              [] o.is = "mem" /\ o.by = "index" -> MemOp(o.code, o.index, 0)
              [] OTHER -> o
    IN  [op |-> i.op, args |-> [k \in DOMAIN i.args |-> Said(i.args[k])]]
=============================================================================
