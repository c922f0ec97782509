----------------------------- MODULE Toolchain -----------------------------
(***************************************************************************)
(* From .s files, as SymTab::genAsm writes them, to the executable: the    *)
(* assembler and the linker together. Each file is assembled by a process  *)
(* of its own: the globals of the assembler are never reset, and a second  *)
(* file in one process is not even read.                                   *)
(***************************************************************************)
EXTENDS Assembler, Linker

CONSTANT Inputs     \* the sequences of .s files to build from

VARIABLE files      \* those of this build

toolVars == <<files, asmVars, linkVars>>

-----------------------------------------------------------------------------
(* The files that are built: the lines that the assembler's grammar has, in *)
(* the three sections in the order in which SymTab::genAsm writes them,     *)
(* instructions in the first, definitions of data in the others.            *)

Identifiers == DOMAIN NameLen

Operands ==
    [is : {"reg"}, size : {1, 2, 4}, code : 0 .. 7] \cup [is : {"imm"}, n : Int]
    \cup [is : {"sym"}, name : Identifiers]
    \cup [is : {"mem"}, by : {"sym"}, name : Identifiers]
    \cup [is : {"mem"}, by : {"num"}, n : Int]
    \cup [is : {"mem"}, by : {"reg"}, code : 0 .. 7]
    \cup [is : {"mem"}, by : {"disp"}, code : 0 .. 7, n : Int]
    \cup [is : {"mem"}, by : {"index"}, code : 0 .. 7, index : 0 .. 7]

Operations == DOMAIN Opcodes \cup DOMAIN Jumps \cup DOMAIN Sets
              \cup {"call", "jmp", "int", "push", "pop", "inc", "dec", "neg", "imul", "idiv", "ret"}

Items == [is : {"num"}, n : Int] \cup [is : {"str"}, bytes : Seq(0 .. 255)]
         \cup [is : {"sym"}, name : Identifiers]

AsmLines ==
    [is : {"section"}, name : {".text", ".data", ".bss"}]
    \cup [is : {"global", "label"}, name : Identifiers]
    \cup [is : {"equ"}, name : Identifiers, n : Int]
    \cup [is : {"data"}, name : Identifiers, times : Nat, len : {1, 2, 4}, items : Seq(Items)]
    \cup [is : {"inst"}, op : Operations, args : Seq(Operands)]

\* Line j of f is where a section starts.
Opens(f, j, name) == f[j].is = "section" /\ f[j].name = name

\* .data starts on line d and .bss on line b.
Sections(f, d, b) ==
    /\ 1 < d /\ d < b
    /\ Opens(f, 1, ".text") /\ Opens(f, d, ".data") /\ Opens(f, b, ".bss")
    /\ \A j \in DOMAIN f :
          /\ f[j].is = "section" => j \in {1, d, b}
          /\ f[j].is = "inst" => j < d
          /\ f[j].is = "data" => d < j

IsFile(f) == f \in Seq(AsmLines) /\ \E d, b \in DOMAIN f : Sections(f, d, b)

ASSUME InputsAssumption ==
    \A build \in Inputs :
        /\ build # << >> /\ build \in Seq(Range(build))
        /\ \A k \in DOMAIN build : IsFile(build[k])

\* A symbol stands where it has four bytes of its own: in the definition of words,
\* in the second operand with a whole register, in memory operands and in jumps;
\* an instruction with two operands has its destination first. The grammar allows
\* more, genAsm and interInst.cpp write nothing else.
HasRoom(l) ==
    /\ l.is = "data" /\ (\E k \in DOMAIN l.items : l.items[k].is = "sym") => l.len = 4 /\ l.times # 0
    /\ l.is = "inst" /\ l.op \in DOMAIN Opcodes =>
          /\ Len(l.args) = 2 /\ l.args[1].is \in {"reg", "mem"}
          /\ l.args[1].is = "mem" => l.args[2].is \in {"reg", "imm"}
          /\ l.op = "lea" => l.args[2].is = "mem"
          /\ l.args[2].is = "sym" => l.args[1].size = 4
    /\ l.is = "inst" /\ Names(l) # {} => l.op \in DOMAIN Opcodes \cup DOMAIN Jumps \cup {"call", "jmp"}

ASSUME RoomAssumption ==
    \A build \in Inputs : \A k \in DOMAIN build : \A j \in DOMAIN build[k] : HasRoom(build[k][j])

-----------------------------------------------------------------------------
(* The .s file of a program [funs, vars, strs]. A function is [name, body]  *)
(* with the lines of its code, a global variable [name, char, ptr, array,   *)
(* init] (array is 0, or the number of elements) and a string [name, bytes]. *)

Named(is, name) == [is |-> is, name |-> name]
I(op, args) == [is |-> "inst", op |-> op, args |-> args]
Num(n) == [is |-> "imm", n |-> n]
R32(k) == RegOp(4, k)

Fun(f) == << Named("global", f.name), Named("label", f.name) >> \o f.body

entryAsm ==
    << Named("global", START), Named("label", START),
       I("call", << Named("sym", "main") >>), I("mov", << R32(3), R32(0) >>),
       I("mov", << R32(0), Num(1) >>), I("int", << Num(128) >>) >>

Definition(name, times, len, items) ==
    [is |-> "data", name |-> name, times |-> times, len |-> len, items |-> items]

Var(v) ==
    << Named("global", v.name),
       Definition(v.name, IF v.array = 0 THEN 1 ELSE v.array,
                  IF v.char /\ ~v.ptr THEN 1 ELSE 4, << v.init >>) >>

\* getRawStr ends every string with a zero.
Str(s) == << Definition(s.name, 1, 1, [k \in DOMAIN s.bytes |-> [is |-> "str", bytes |-> << s.bytes[k] >>]]
                                      \o << [is |-> "num", n |-> 0] >>) >>

Each(Lines(_), s) == FlattenSeq([k \in DOMAIN s |-> Lines(s[k])])

GenAsm(p) ==
    << Named("section", ".text") >> \o Each(Fun, p.funs) \o entryAsm
    \o << Named("section", ".data") >> \o Each(Var, p.vars) \o Each(Str, p.strs)
    \o << Named("section", ".bss") >>

-----------------------------------------------------------------------------
Init == files \in Inputs /\ Idle /\ Fresh(files[1])

Assemble == AsmNext /\ UNCHANGED <<files, linkVars>>

\* An object file is complete; the next file is assembled, if there is one.
Collect ==
    /\ obj.is = "object" /\ AddElf(obj) /\ UNCHANGED files
    /\ IF Len(elfs) + 1 < Len(files) THEN Restarted(files[Len(elfs) + 2])
       ELSE obj' = NoObject /\ UNCHANGED <<scanVars, placeVars, lb_map, defLbs, relLb, relTab, code>>

Link == Len(elfs) = Len(files) /\ LinkNext /\ UNCHANGED <<files, asmVars>>

Next == Assemble \/ Collect \/ Link

Spec == Init /\ [][Next]_toolVars

-----------------------------------------------------------------------------
(* The reference: what a reader of the .s files expects of the executable.  *)

Of(f, kind) == SelectSeq(f, LAMBDA l : l.is = kind)

\* The section a line of f belongs to, and the data definitions that the first
\* n lines have in a section.
SegOf(f, j) == f[Max({i \in 1 .. j : f[i].is = "section"})].name
DataIn(f, seg, n) ==
    LET here == SelectSeq([j \in 1 .. n |-> j], LAMBDA j : f[j].is = "data" /\ SegOf(f, j) = seg)
    IN  [d \in DOMAIN here |-> f[here[d]]]

\* The bytes of a data definition, when symbols stand for `adr'.
DataBytes(l, adr) ==
    LET Item(i) == CASE i.is = "num" -> Bytes(i.n, l.len)
                     [] i.is = "str" -> FlattenSeq([k \in DOMAIN i.bytes |-> Bytes(i.bytes[k], l.len)])
                     [] i.is = "sym" -> Bytes(adr[i.name], l.len)
    IN  Repeated(FlattenSeq([k \in DOMAIN l.items |-> Item(l.items[k])]), l.times)

\* Where the n instructions of a text start, and where the last one ends, as
\* the processor reads them.
Starts(text, n) ==
    LET start[k \in 0 .. n] ==
            IF k = 0 THEN 0
            ELSE LET before == start[k - 1] IN before + Decode(text, before + 1).len
    IN  start

\* Memory once the program is loaded.
Loaded(a, len) ==
    LET p == CHOOSE q \in Range(exe.phdrs) : a \in q.vaddr .. q.vaddr + q.memsz - 1
    IN  SubSeq(exe.file, p.offset + a - p.vaddr + 1, p.offset + a - p.vaddr + len)

TextAt(k) == segLists[".text"].addrs[k]
DataAt(k) == segLists[".data"].addrs[k]
Text(k) == Loaded(TextAt(k), Len(elfs[k].text))

\* The addresses of the names file k defines.
Defined(k) ==
    LET f == files[k]
        starts == Starts(Text(k), Len(Of(f, "inst")))
        zero == [n \in DOMAIN NameLen |-> 0]
        Place(j) ==
            LET lines == DataIn(f, SegOf(f, j), j - 1)
            IN  IF f[j].is = "label" THEN TextAt(k) + starts[Len(Of(SubSeq(f, 1, j - 1), "inst"))]
                ELSE segLists[SegOf(f, j)].addrs[k]
                     + Sum([d \in DOMAIN lines |-> Len(DataBytes(lines[d], zero))])
        defs == {j \in DOMAIN f : f[j].is \in {"label", "data"}}
    IN  [n \in {f[j].name : j \in defs} |-> Place(CHOOSE j \in defs : f[j].name = n)]

GlobalIn(k) == {l.name : l \in {m \in Range(files[k]) : m.is = "global"}}

\* What the names stand for in each file: its own, constants included, and the
\* global ones of the others.
Meanings ==
    LET Stands(own, k, n) ==
            LET equs == {e \in Range(files[k]) : e.is = "equ" /\ e.name = n}
                others == {j \in DOMAIN files : n \in GlobalIn(j) /\ n \in DOMAIN own[j]}
            IN  CASE n \in DOMAIN own[k] -> own[k][n]
                  [] n \notin DOMAIN own[k] /\ equs # {} -> (CHOOSE e \in equs : TRUE).n
                  [] n \notin DOMAIN own[k] /\ equs = {} /\ others # {} ->
                        own[CHOOSE j \in others : TRUE][n]
                  [] OTHER -> -1
        Mean(own) == [k \in DOMAIN files |-> [n \in DOMAIN NameLen |-> Stands(own, k, n)]]
    IN  Mean([k \in DOMAIN files |-> Defined(k)])

\* File k's code in memory is that of its source: the same operations on the
\* same operands, the destination first.
CodeIs(k, adr) ==
    LET insts == Of(files[k], "inst")
        text == Text(k)
        Reads(i, here, d) == [op |-> d.op, args |-> d.args] = Meant(i, here, adr)
        From(starts) ==
            /\ starts[Len(insts)] = Len(text)
            /\ \A j \in DOMAIN insts :
                  Reads(insts[j], TextAt(k) + starts[j - 1], Decode(text, starts[j - 1] + 1))
    IN  From(Starts(text, Len(insts)))

DataIs(k, adr) ==
    LET lines == DataIn(files[k], ".data", Len(files[k]))
        bytes == FlattenSeq([d \in DOMAIN lines |-> DataBytes(lines[d], adr)])
    IN  bytes = << >> \/ Loaded(DataAt(k), Len(bytes)) = bytes

-----------------------------------------------------------------------------
(* Correctness. *)

\* The assembler's and the linker's state is well formed.
TypeOK ==
    /\ pos \in 1 .. Len(src) + 1 /\ scanLop \in 1 .. 3
    /\ curSeg \in {"", ".text", ".data", ".bss"} \cup DOMAIN NameLen /\ {curAddr, dataLen} \subseteq Nat
    /\ DOMAIN lb_map \subseteq DOMAIN NameLen
    /\ \A n \in DOMAIN lb_map : lb_map[n].externed => ~lb_map[n].isEqu /\ lb_map[n].addr = 0
    /\ relLb = NoSym
    /\ \A r \in Range(relTab) :
           r.name \in DOMAIN lb_map /\ r.off + 4 <= shdrTab[SegIndex(r.seg)].size
    /\ Range(code) \subseteq 0 .. 255
    /\ step \in {"read", "validate", "refused", "allocate", "parse", "relocate", "linked"}
    /\ DOMAIN segLists \subseteq Range(segNames)

\* Every part of an object file, and every table of an executable, stands where
\* its section header says, which was computed before the parts were written;
\* only the names of an executable's symbols are cut when they are long.
HeadersTellTheTruth ==
    /\ obj.is = "object" =>
           HeadersFit({h \in Range(obj.shdrs) : h.name \notin {"", ".bss"}}, obj.parts, 0)
    /\ step = "linked" =>
           HeadersFit({h \in Range(exe.tables.hdrs) : h.name # ".strtab" \/ h.size < 256},
                      exe.tables.parts, Len(exe.file))

\* The end of .data in the file lies on another page than the next multiple of
\* four, from which the address of .bss is computed.
BssCrosses ==
    LET d == exe.phdrs[2]
        end == d.offset + d.filesz
    IN  Aligned(end, DISC_ALIGN) % MEM_ALIGN < end % MEM_ALIGN

Ends(p) == p.vaddr + p.memsz

\* The segments of the executable can be loaded: addresses and offsets agree
\* modulo the page, they follow one another in memory, and no page of code is
\* writable data's too. Only .bss may lie on the end of .data, when the
\* alignment of its offset, not of its address, takes it to another page.
SegmentsApart ==
    step = "linked" =>
        LET t == exe.phdrs[1]
            d == exe.phdrs[2]
            b == exe.phdrs[3]
        IN  /\ \A k \in 1 .. 3 : exe.phdrs[k].vaddr % MEM_ALIGN = exe.phdrs[k].offset % MEM_ALIGN
            /\ Ends(t) <= d.vaddr /\ Ends(t) <= b.vaddr
            /\ ~ BssCrosses => Ends(d) <= b.vaddr
            /\ t.memsz # 0 => (Ends(t) - 1) \div MEM_ALIGN < d.vaddr \div MEM_ALIGN

\* The comment on allocAddr (linker.cpp:220): .data and .bss do not touch.
\* At the least, no variable of .bss lies on one of .data.
BssAfterData ==
    step = "linked" /\ exe.phdrs[3].memsz # 0 => Ends(exe.phdrs[2]) <= exe.phdrs[3].vaddr

\* When the link succeeds, what is loaded is what the files say: the processor
\* reads instruction after instruction of every file, with every name standing
\* for the place of its definition, the data follow, and the entry is _start.
ImageRunsTheSource ==
    LET Fits(means) == \A k \in DOMAIN files : CodeIs(k, means[k]) /\ DataIs(k, means[k])
    IN  step = "linked" =>
            /\ Fits(Meanings)
            /\ \E k \in DOMAIN files : START \in DOMAIN Defined(k) /\ exe.entry = Defined(k)[START]

\* The assertion of assmObj (elf_file.cpp:203): idx <= strtabSize.
StrtabLongEnough == obj.is # "aborted"
=============================================================================
