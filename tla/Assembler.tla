----------------------------- MODULE Assembler -----------------------------
(***************************************************************************)
(* The assembler: program() reads a file twice. The first pass gives every *)
(* symbol its place in its section and records the sections' sizes; the    *)
(* second writes the code of .text and collects what must be relocated;    *)
(* then the table of data definitions and the headers complete the object  *)
(* file.                                                                   *)
(*                                                                         *)
(* A line of the source is a record: [is |-> "section" | "global" |        *)
(* "label", name], [is |-> "equ", name, n], [is |-> "data", name, times,   *)
(* len, items] with items [is |-> "num", n], [is |-> "str", bytes] and     *)
(* [is |-> "sym", name], or [is |-> "inst", op, args].                     *)
(***************************************************************************)
EXTENDS Encoding, ElfFile

VARIABLES
    src,        \* the .s file: a sequence of lines
    pos,        \* the next line
    scanLop,    \* the pass, 1 or 2; 3 when the object file is written
    curSeg, curAddr,    \* the section being read and the place reached in it
    dataLen,    \* the bytes of the sections recorded so far
    lb_map,     \* the symbols
    defLbs,     \* what the data definitions hold
    relLb,      \* the symbol of the current instruction, if it may need relocation
    relTab,     \* the relocations
    shdrTab,    \* the sections recorded
    code,       \* the code written (the .t file)
    obj         \* the object file

scanVars == <<src, pos, scanLop>>
placeVars == <<curSeg, curAddr, dataLen, shdrTab>>
asmVars == <<scanVars, placeVars, lb_map, defLbs, relLb, relTab, code, obj>>

NoObject == [is |-> "none"]

Line == src[pos]
Reading(kind) == scanLop \in {1, 2} /\ pos \in DOMAIN src /\ Line.is = kind
Advance == pos' = pos + 1 /\ UNCHANGED <<src, scanLop>>

Update(f, x, y) == [z \in DOMAIN f \cup {x} |-> IF z = x THEN y ELSE f[z]]

-----------------------------------------------------------------------------
(* The symbol table. *)

Here == [seg |-> curSeg, addr |-> curAddr, externed |-> FALSE, isEqu |-> FALSE, global |-> FALSE]
External == [seg |-> "", addr |-> 0, externed |-> TRUE, isEqu |-> FALSE, global |-> FALSE]

\* addlb: only the first pass defines symbols, and only over an external one.
Added(m, name, lb) ==
    IF scanLop # 1 \/ (name \in DOMAIN m /\ ~m[name].externed) THEN m ELSE Update(m, name, lb)

\* getlb: a name that is not known yet becomes an external symbol.
Known(m, name) == IF name \in DOMAIN m THEN m ELSE Update(m, name, External)

Addresses(m) == [name \in DOMAIN m |-> m[name].addr]

\* Mutant of Rel: the place is noted after the bytes are written.
RelLate(site, name, type) == [seg |-> curSeg, off |-> site + 4, name |-> name, type |-> type]

Rel(site, name, type) == [seg |-> curSeg, off |-> site, name |-> name, type |-> type]

-----------------------------------------------------------------------------
(* Sections. *)

\* switchSeg: the first pass records the section that ends here.
SwitchSeg(next) ==
    /\ LET start == Aligned(dataLen, 4)
       IN  IF scanLop = 1
           THEN /\ shdrTab' = IF curSeg \in {".text", ".data", ".bss"}
                              THEN Append(shdrTab, Hdr(curSeg, EhdrSize + start, curAddr))
                              ELSE shdrTab
                /\ dataLen' = IF curSeg # ".bss" THEN start + curAddr ELSE start
           ELSE UNCHANGED <<shdrTab, dataLen>>
    /\ curSeg' = next /\ curAddr' = 0

Section ==
    /\ Reading("section") /\ SwitchSeg(Line.name) /\ Advance
    /\ UNCHANGED <<lb_map, defLbs, relLb, relTab, code, obj>>

\* The end of the file in the first pass: nextToken records the last section,
\* takes the last identifier read for the section to come, and reopens the file.
Reopen ==
    /\ scanLop = 1 /\ pos = Len(src) + 1
    /\ SwitchSeg(src[Len(src)].name)
    /\ scanLop' = 2 /\ pos' = 1
    /\ UNCHANGED <<src, lb_map, defLbs, relLb, relTab, code, obj>>

-----------------------------------------------------------------------------
(* Symbols and data. *)

Global ==
    /\ Reading("global") /\ Advance
    /\ lb_map' = IF scanLop = 1 THEN lb_map
                 ELSE [Known(lb_map, Line.name) EXCEPT ![Line.name].global = TRUE]
    /\ UNCHANGED <<placeVars, defLbs, relLb, relTab, code, obj>>

Label ==
    /\ Reading("label") /\ Advance
    /\ lb_map' = Added(lb_map, Line.name, Here)
    /\ UNCHANGED <<placeVars, defLbs, relLb, relTab, code, obj>>

Equ ==
    /\ Reading("equ") /\ Advance
    /\ lb_map' = Added(lb_map, Line.name, [Here EXCEPT !.addr = Line.n, !.isEqu = TRUE])
    /\ UNCHANGED <<placeVars, defLbs, relLb, relTab, code, obj>>

\* type and valtail: a value after those of cont. A name stands for its
\* address as known so far and must be relocated.
Value(c, item) ==
    CASE item.is = "num" -> [c EXCEPT !.cont = Append(@, item.n)]
      [] item.is = "str" -> [c EXCEPT !.cont = @ \o item.bytes]
      [] item.is = "sym" ->
            LET m == Known(c.m, item.name)
            IN  [m |-> m, cont |-> Append(c.cont, m[item.name].addr),
                 rels |-> IF scanLop = 2 /\ ~m[item.name].isEqu
                          THEN Append(c.rels, Rel(curAddr + Len(c.cont) * Line.len, item.name, "abs"))
                          ELSE c.rels]

\* lbtail, basetail, values: what .data holds is kept by the first pass.
Data ==
    /\ Reading("data") /\ Advance
    /\ LET c == FoldLeft(Value, [m |-> lb_map, cont |-> << >>, rels |-> << >>], Line.items)
       IN  /\ lb_map' = Added(c.m, Line.name, Here)
           /\ relTab' = relTab \o c.rels
           /\ curAddr' = curAddr + Line.times * Line.len * Len(c.cont)
           /\ defLbs' = IF scanLop = 1 /\ Line.times # 0 /\ curSeg = ".data"
                        THEN Append(defLbs, [times |-> Line.times, len |-> Line.len, cont |-> c.cont])
                        ELSE defLbs
    /\ UNCHANGED <<curSeg, dataLen, shdrTab, relLb, code, obj>>

-----------------------------------------------------------------------------
(* Instructions. *)

Names(i) == {i.args[k].name : k \in {j \in DOMAIN i.args :
                i.args[j].is = "sym" \/ (i.args[j].is = "mem" /\ i.args[j].by = "sym")}}

\* inst, with writeBytes and processRel: an absolute address is relocated
\* always, the target of a jump only when it is external.
Instruction ==
    /\ Reading("inst") /\ Advance
    /\ LET m == FoldSet(LAMBDA name, t : Known(t, name), lb_map, Names(Line))
           p == Parse(Line, Addresses(m))
           c == Generate(Line, p)
           lr == IF scanLop = 2 /\ p.sym # NoSym /\ ~m[p.sym].isEqu THEN p.sym ELSE relLb
           site == curAddr + Len(c.head)
           relocated == /\ scanLop = 2 /\ lr # NoSym
                        /\ c.kind = "abs" \/ (c.kind = "pc" /\ m[lr].externed)
           to == IF relocated THEN site ELSE p.imm
           field == IF c.kind = "pc" THEN Bytes(to - (site + 4), 4) ELSE c.field
       IN  /\ lb_map' = m
           /\ relTab' = IF relocated THEN Append(relTab, Rel(site, lr, c.kind)) ELSE relTab
           /\ relLb' = IF c.kind = "none" THEN lr ELSE NoSym
           /\ curAddr' = site + Len(field)
           /\ code' = IF scanLop = 2 THEN code \o c.head \o field ELSE code
    /\ UNCHANGED <<curSeg, dataLen, shdrTab, defLbs, obj>>

-----------------------------------------------------------------------------
(* The object file. *)

ShstrtabSize == 51
ShstrtabUsed == 43      \* where .strtab stands in .shstrtab
Reserved == 9           \* the section headers room is left for

Repeated(s, n) == FlattenSeq([k \in 1 .. n |-> s])

\* lb_record::write
Written(d) == Repeated(FlattenSeq([k \in DOMAIN d.cont |-> Bytes(d.cont[k], d.len)]), d.times)

\* getSegIndex: the first section of that name.
SegIndex(name) == Min({k \in DOMAIN shdrTab : shdrTab[k].name = name} \cup {Len(shdrTab) + 1})

\* addSym
Symbol(lb) == [value |-> lb.addr, shndx |-> IF lb.externed THEN "undef" ELSE lb.seg,
               global |-> IF lb.seg = "" THEN lb.externed ELSE lb.global]

Exported == {name \in DOMAIN lb_map : ~lb_map[name].isEqu}
RelsOf(seg) == SelectSeq(relTab, LAMBDA r : r.seg = seg)
StrtabSize == NamesSize(InSomeOrder(Exported))

\* assmObj: the section headers, with the places it computes for the tables.
Headers ==
    LET tables == EhdrSize + dataLen
        symtab == tables + ShstrtabSize + Reserved * ShdrSize
        strtab == symtab + Cardinality(Exported) * SymSize
        reltext == strtab + StrtabSize
        text == Len(RelsOf(".text")) * RelSize
    IN  << Hdr("", 0, 0) >> \o shdrTab \o
        << Hdr(".shstrtab", tables, ShstrtabSize),
           Hdr(".symtab", symtab, Cardinality(Exported) * SymSize),
           Hdr(".strtab", strtab, StrtabSize),
           Hdr(".rel.text", reltext, text),
           Hdr(".rel.data", reltext + text, Len(RelsOf(".data")) * RelSize) >>

\* Mutant of Padding: the sections follow each other without a gap.
PaddingNone(first, second) == 0

\* padSeg: from the end of one section to the start of the next.
Padding(first, second) ==
    LET gap == shdrTab[SegIndex(second)].off - (shdrTab[SegIndex(first)].off + shdrTab[SegIndex(first)].size)
    IN  IF gap > 0 THEN gap ELSE 0

\* writeElf and writeElfTail: the parts of the file in the order they are written.
Parts(data) ==
    << << "ehdr", EhdrSize >>, << ".text", Len(code) >>, << "pad", Padding(".text", ".data") >>,
       << ".data", Len(data) >>, << "pad", Padding(".data", ".bss") >>,
       << ".shstrtab", ShstrtabSize >>, << "shdrs", Len(Headers) * ShdrSize >>,
       << ".symtab", Cardinality(Exported) * SymSize >>, << ".strtab", StrtabSize >>,
       << ".rel.text", Len(RelsOf(".text")) * RelSize >>,
       << ".rel.data", Len(RelsOf(".data")) * RelSize >> >>

\* The end of the second pass. assmObj asserts that the string table is at
\* least as long as the index it has reached in the table of section names.
WriteElf ==
    /\ scanLop = 2 /\ pos = Len(src) + 1
    /\ scanLop' = 3 /\ UNCHANGED <<src, pos>>
    /\ obj' = IF ShstrtabUsed > StrtabSize THEN [is |-> "aborted"]
              ELSE LET data == FlattenSeq([k \in DOMAIN defLbs |-> Written(defLbs[k])])
                   IN  [is |-> "object", shdrs |-> Headers, parts |-> Parts(data),
                        text |-> code, data |-> data,
                        symTab |-> [name \in Exported |-> Symbol(lb_map[name])],
                        relTab |-> RelsOf(".text") \o RelsOf(".data")]
    /\ UNCHANGED <<placeVars, lb_map, defLbs, relLb, relTab, code>>

-----------------------------------------------------------------------------
Fresh(file) ==
    /\ src = file /\ pos = 1 /\ scanLop = 1
    /\ curSeg = "" /\ curAddr = 0 /\ dataLen = 0
    /\ lb_map = << >> /\ defLbs = << >> /\ relLb = NoSym /\ relTab = << >>
    /\ shdrTab = << >> /\ code = << >> /\ obj = NoObject

\* The same as a step: another process starts on another file.
Restarted(file) ==
    /\ src' = file /\ pos' = 1 /\ scanLop' = 1
    /\ curSeg' = "" /\ curAddr' = 0 /\ dataLen' = 0
    /\ lb_map' = << >> /\ defLbs' = << >> /\ relLb' = NoSym /\ relTab' = << >>
    /\ shdrTab' = << >> /\ code' = << >> /\ obj' = NoObject

AsmNext == Section \/ Reopen \/ Global \/ Label \/ Equ \/ Data \/ Instruction \/ WriteElf
=============================================================================
