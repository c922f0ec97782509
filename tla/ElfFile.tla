------------------------------ MODULE ElfFile ------------------------------
(***************************************************************************)
(* What the assembler and the linker share of the ELF format: the sizes of *)
(* its structures, the headers of sections, and alignment.                 *)
(***************************************************************************)
EXTENDS Integers, Sequences, FiniteSets, SequencesExt

CONSTANT NameLen    \* the length of each symbol's name

ASSUME NameLenAssumption == \A name \in DOMAIN NameLen : NameLen[name] \in Nat

EhdrSize == 52
PhdrSize == 32
ShdrSize == 40
SymSize == 16
RelSize == 8

START == "_start"

Aligned(n, k) == n + ((k - (n % k)) % k)

Sum(s) == FoldLeft(LAMBDA a, b : a + b, 0, s)

\* A section header, as far as it says where the section is.
Hdr(name, off, size) == [name |-> name, off |-> off, size |-> size]

\* The names of symbols, each with the zero that ends it.
NamesSize(names) == Sum([k \in DOMAIN names |-> NameLen[names[k]] + 1])

InSomeOrder(S) == FoldSet(LAMBDA x, s : Append(s, x), << >>, S)

Fill(n, byte) == [k \in 1 .. n |-> byte]

\* Where part k of a file of parts [name, size] stands, the first at `from'.
PartAt(parts, k, from) == FoldLeft(LAMBDA at, size : at + size, from, [j \in 1 .. k - 1 |-> parts[j][2]])

\* The headers of the set hs tell where the parts stand, and how long they are.
HeadersFit(hs, parts, from) ==
    \A h \in hs :
        \E k \in DOMAIN parts :
            parts[k][1] = h.name /\ parts[k][2] = h.size /\ h.off = PartAt(parts, k, from)
=============================================================================
