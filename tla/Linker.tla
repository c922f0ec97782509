------------------------------- MODULE Linker -------------------------------
(***************************************************************************)
(* The linker: it joins the sections of the object files, gives them their *)
(* addresses, binds the symbols, corrects the code and the data that refer *)
(* to them, and writes the executable file.                                *)
(***************************************************************************)
EXTENDS ElfFile

CONSTANTS
    BASE_ADDR, MEM_ALIGN    \* where programs are loaded, and the page size

ASSUME AlignAssumption ==
    /\ MEM_ALIGN \in Nat /\ MEM_ALIGN % 16 = 0 /\ MEM_ALIGN # 0
    /\ BASE_ADDR \in Nat

VARIABLES
    elfs,       \* the object files read
    step,       \* what Linker::link does next
    symDef, symLinks,   \* the symbols defined and referred to: <<file, name>>
    segLists,   \* the joined sections
    value,      \* the address of each symbol of each file
    loadAddr, fileOff,   \* the address and the file offset reached
    todo,       \* the relocations left
    exe         \* the executable file

linkVars == <<elfs, step, symDef, symLinks, segLists, value, loadAddr, fileOff, todo, exe>>

segNames == << ".text", ".data", ".bss" >>
DISC_ALIGN == 4
HeaderSize == EhdrSize + PhdrSize * Len(segNames)    \* the ELF header and the program headers

\* The section header of a file.
Sh(elf, name) == LET h == elf.shdrs
                 IN  h[CHOOSE k \in DOMAIN h : h[k].name = name]

\* getData: the bytes of a section. Its header says where they are.
GetData(elf, name) == IF name = ".text" THEN elf.text ELSE elf.data

-----------------------------------------------------------------------------
Idle ==
    /\ elfs = << >> /\ step = "read" /\ symDef = << >> /\ symLinks = << >>
    /\ segLists = << >> /\ value = << >> /\ loadAddr = BASE_ADDR /\ fileOff = HeaderSize
    /\ todo = << >> /\ exe = [is |-> "none"]

Restful == UNCHANGED <<segLists, value, loadAddr, fileOff, todo, exe>>

\* addElf, readElf
AddElf(elf) ==
    /\ step = "read" /\ elfs' = Append(elfs, elf)
    /\ UNCHANGED <<step, symDef, symLinks>> /\ Restful

\* collectInfo: each file's symbols, in the order of an unordered map.
CollectInfo ==
    /\ step = "read" /\ elfs # << >> /\ step' = "validate"
    /\ LET Of(k, undef) ==
               InSomeOrder({<< k, name >> : name \in {n \in DOMAIN elfs[k].symTab :
                            (elfs[k].symTab[n].shndx = "undef") = undef}})
       IN  /\ symDef' = FlattenSeq([k \in DOMAIN elfs |-> Of(k, FALSE)])
           /\ symLinks' = FlattenSeq([k \in DOMAIN elfs |-> Of(k, TRUE)])
    /\ UNCHANGED elfs /\ Restful

Sym(ref) == elfs[ref[1]].symTab[ref[2]]
GlobalAt(k) == Sym(symDef[k]).global
Providers(name) == {k \in DOMAIN symDef : symDef[k][2] = name /\ GlobalAt(k)}

\* symValid: no two global definitions of one name, an entry, and a global
\* definition of every symbol that is referred to.
SymValid ==
    /\ \A j, k \in DOMAIN symDef : GlobalAt(j) /\ GlobalAt(k) /\ j # k => symDef[j][2] # symDef[k][2]
    /\ Providers(START) # {}
    /\ \A l \in DOMAIN symLinks : Providers(symLinks[l][2]) # {}

Validate ==
    /\ step = "validate" /\ step' = IF SymValid THEN "allocate" ELSE "refused"
    /\ UNCHANGED <<elfs, symDef, symLinks>> /\ Restful

\* Mutant of Congruent: the segment starts on a page.
CongruentNot(base, off) == base

Congruent(base, off) == base - (base % MEM_ALIGN) + (off % MEM_ALIGN)

\* SegList::allocAddr: the offset is aligned, and the address made congruent
\* to it; every block starts on a multiple of four.
Allocated(name, base, off) ==
    LET start == Aligned(off, IF name = ".text" THEN 16 ELSE DISC_ALIGN)
        addr == Congruent(IF name = ".bss" THEN base ELSE Aligned(base, MEM_ALIGN), start)
        Place(s, elf) ==
            LET at == Aligned(s.size, DISC_ALIGN)
            IN  [s EXCEPT !.blocks = IF name = ".bss" THEN @
                                     ELSE Append(@, [off |-> at, data |-> GetData(elf, name)]),
                          !.addrs = Append(@, addr + at),
                          !.size = at + Sh(elf, name).size]
    IN  FoldLeft(Place, [begin |-> off, base |-> addr, offset |-> start, size |-> 0,
                         blocks |-> << >>, addrs |-> << >>], elfs)

\* allocAddr, one kind of section after the other.
AllocAddr ==
    /\ step = "allocate"
    /\ LET name == segNames[Cardinality(DOMAIN segLists) + 1]
           s == Allocated(name, loadAddr, fileOff)
       IN  /\ segLists' = [n \in DOMAIN segLists \cup {name} |-> IF n = name THEN s ELSE segLists[n]]
           /\ loadAddr' = s.base + s.size
           /\ fileOff' = IF name = ".bss" THEN s.offset ELSE s.offset + s.size
           /\ step' = IF name = ".bss" THEN "parse" ELSE step
    /\ UNCHANGED <<elfs, symDef, symLinks, value, todo, exe>>

\* symParser: a definition has its place in its file's part of the section; a
\* reference has the address of the definition, the last one that was found.
Own(ref) == Sym(ref).value + segLists[Sym(ref).shndx].addrs[ref[1]]

SymParser ==
    /\ step = "parse" /\ step' = "relocate"
    /\ value' = [k \in DOMAIN elfs |-> [name \in DOMAIN elfs[k].symTab |->
                    IF elfs[k].symTab[name].shndx # "undef" THEN Own(<< k, name >>)
                    ELSE Own(symDef[Max(Providers(name))])]]
    /\ todo' = FlattenSeq([k \in DOMAIN elfs |->
                   [r \in DOMAIN elfs[k].relTab |-> [rel |-> elfs[k].relTab[r], file |-> k]]])
    /\ UNCHANGED <<elfs, symDef, symLinks, segLists, loadAddr, fileOff, exe>>

\* Mutant of WordAt: what the code holds is not added.
WordAtNone(data, k) == 0

WordAt(data, k) ==
    FoldLeft(LAMBDA n, j : n * 256 + data[k + 3 - j],
             IF data[k + 3] < 128 THEN data[k + 3] ELSE data[k + 3] - 256, << 1, 2, 3 >>)

LittleEndian(n) == [k \in 1 .. 4 |-> (n \div 256^(k - 1)) % 256]

\* SegList::relocAddr: the block that holds the address is corrected, by the
\* address itself or by the distance to it.
Corrected(s, relAddr, type, symAddr) ==
    LET off == relAddr - s.base
        Holds(k) == s.blocks[k].off <= off /\ off < s.blocks[k].off + Len(s.blocks[k].data)
        b == CHOOSE k \in DOMAIN s.blocks : Holds(k) /\ \A j \in 1 .. k - 1 : ~Holds(j)
        at == off - s.blocks[b].off + 1
        word == LittleEndian(IF type = "abs" THEN symAddr
                             ELSE symAddr - relAddr + WordAt(s.blocks[b].data, at))
    IN  [s EXCEPT !.blocks[b].data = [k \in DOMAIN @ |->
                      IF k \in at .. at + 3 THEN word[k - at + 1] ELSE @[k]]]

\* relocate, one entry of a relocation table after the other.
Relocate ==
    /\ step = "relocate" /\ todo # << >> /\ todo' = Tail(todo)
    /\ LET e == Head(todo)
       IN  segLists' = [segLists EXCEPT ![e.rel.seg] =
                           Corrected(@, @.addrs[e.file] + e.rel.off, e.rel.type,
                                     value[e.file][e.rel.name])]
    /\ UNCHANGED <<elfs, step, symDef, symLinks, value, loadAddr, fileOff, exe>>

-----------------------------------------------------------------------------
(* The executable: program headers, and the file. *)

\* exportElf: the blocks of a section, with the gaps between them filled.
Joined(s) ==
    FoldLeft(LAMBDA done, b : done \o Fill(b.off - Len(done), 144) \o b.data, << >>, s.blocks)

\* The tables after the segments, and the headers of their sections. The names
\* of sections take 43 bytes; the size of the symbols' names is kept in a byte,
\* and the table is written as far as that says.
SectionNames == 43
SectionCount == 4 + Len(segNames)
SymbolsSize == (1 + Len(symDef)) * SymSize
StringsSize == NamesSize([k \in DOMAIN symDef |-> symDef[k][2]])

Tables(off) ==
    LET symtab == off + SectionNames + SectionCount * ShdrSize
    IN  [hdrs |-> << Hdr(".shstrtab", off, SectionNames), Hdr(".symtab", symtab, SymbolsSize),
                     Hdr(".strtab", symtab + SymbolsSize, StringsSize) >>,
         parts |-> << << ".shstrtab", SectionNames >>, << "shdrs", SectionCount * ShdrSize >>,
                      << ".symtab", SymbolsSize >>, << ".strtab", StringsSize % 256 >> >>]

\* The entry is the address that the exe's table of symbols has for _start: the
\* last that was added.
Entry == LET ref == symDef[Max({k \in DOMAIN symDef : symDef[k][2] = START})]
         IN  value[ref[1]][START]

\* assemExe, exportElf, writeElf
AssemExe ==
    /\ step = "relocate" /\ todo = << >> /\ step' = "linked"
    /\ exe' = [is |-> "exe", entry |-> Entry,
               phdrs |-> [k \in DOMAIN segNames |->
                             LET s == segLists[segNames[k]]
                             IN  [offset |-> s.offset, vaddr |-> s.base, memsz |-> s.size,
                                  filesz |-> IF segNames[k] = ".bss" THEN 0 ELSE s.size]],
               tables |-> Tables(segLists[".bss"].offset),
               file |-> FoldLeft(LAMBDA f, n : f \o Fill(segLists[n].offset - segLists[n].begin, 0)
                                                 \o Joined(segLists[n]),
                                 Fill(HeaderSize, 0), segNames)]
    /\ UNCHANGED <<elfs, symDef, symLinks, segLists, value, loadAddr, fileOff, todo>>

LinkNext == CollectInfo \/ Validate \/ AllocAddr \/ SymParser \/ Relocate \/ AssemExe
=============================================================================
