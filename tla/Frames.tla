------------------------------- MODULE Frames -------------------------------
(***************************************************************************)
(* Names, scopes and stack frames: the symbol table resolves names while   *)
(* the parser opens and closes scopes (SymTab), every local variable gets  *)
(* a frame address on the way (Fun::locate), and with optimisation the     *)
(* finished code gets its addresses anew, scope by scope                   *)
(* (CoGraph::stackAlloc).                                                  *)
(*                                                                         *)
(* A program is a sequence of tokens, chosen as it is parsed: globals, and *)
(* functions with declarations, assignments, conditions, uses and nested   *)
(* statements. What a statement's condition decides is left out: the body  *)
(* of every statement runs once, as that of a do loop whose condition is   *)
(* false.                                                                  *)
(***************************************************************************)
EXTENDS Naturals, Integers, Sequences, FiniteSets, SequencesExt

CONSTANTS
    Names,      \* the names the programmer gives
    Sizes,      \* the sizes of declared variables, in bytes
    MaxTokens,  \* bound: tokens of a program
    None        \* no name, no variable

ASSUME SizesAssumption == Sizes \subseteq Nat \ {0} /\ 4 \in Sizes
ASSUME MaxTokensAssumption == MaxTokens \in Nat

\* "no variable" is a null pointer: it is neither an index nor a name.
ASSUME NoneAssumption == None \notin Names \cup Int

VARIABLES
    src,        \* the tokens parsed so far
    scopeId, scopePath,              \* of SymTab
    vars,       \* SymTab::varTab, as one sequence in the order of addVar
    curFun,     \* TRUE while SymTab::curFun is set
    curEsp, scopeEsp, maxDepth,      \* of Fun
    offset,     \* Var::offset of each variable, 0 for none
    code,       \* the instructions of all functions, in order
    pc,         \* "parse", "rejected", "alloc" or "done"
    cursor,     \* stackAlloc: the instruction it looks at
    tree,       \* stackAlloc: Scope::esp by scope id
    addr,       \* Var::offset as stackAlloc sets it; None: in a register
    deepest     \* stackAlloc: max, as given to setMaxDep at the end

parsing == <<src, scopeId, scopePath, vars, curFun, curEsp, scopeEsp, maxDepth,
             offset, code>>
allocating == <<cursor, tree, addr, deepest>>
allVars == <<parsing, pc, allocating>>

stackBase == 12     \* Plat::stackBase

Token(kind, name, size) == [kind |-> kind, name |-> name, size |-> size]

Inst(op, res, arg) == [op |-> op, res |-> res, arg |-> arg]

\* locate and stackAlloc round sizes up to words.
Words(size) == size + ((4 - (size % 4)) % 4)

\* The tree of only the root, with nothing placed.
Root == [id \in {0} |-> 0]

Init ==
    /\ src = << >> /\ vars = << >> /\ code = << >> /\ offset = << >>
    /\ scopeId = 0 /\ scopePath = << 0 >> /\ curFun = FALSE
    /\ curEsp = stackBase /\ maxDepth = stackBase /\ scopeEsp = << >>
    /\ pc = "parse" /\ cursor = 1 /\ tree = Root /\ addr = << >> /\ deepest = 0

-----------------------------------------------------------------------------
(* The symbol table *)

\* Mutant of GetVar: the first variable of the name on the path.
GetVarFirst(name) ==
    LET found == {i \in DOMAIN vars :
                    vars[i].name = name /\ Last(vars[i].path) \in ToSet(scopePath)}
    IN  IF found = {} THEN None ELSE CHOOSE i \in found : \A j \in found : i <= j

\* The variable getVar finds: of those whose scope is on the path, the first of
\* the longest path.
GetVar(name) ==
    LET found == {i \in DOMAIN vars :
                    LET len == Len(vars[i].path) IN
                    /\ vars[i].name = name
                    /\ len <= Len(scopePath)
                    /\ vars[i].path[len] = scopePath[len]}
    IN  IF found = {} THEN None
        ELSE CHOOSE i \in found : \A j \in found :
                \/ Len(vars[j].path) < Len(vars[i].path)
                \/ Len(vars[j].path) = Len(vars[i].path) /\ i <= j

\* addVar refuses a second variable of one name in one scope.
Redefined(name) ==
    \E i \in DOMAIN vars : vars[i].name = name /\ Last(vars[i].path) = Last(scopePath)

\* The index of the next variable.
New == Len(vars) + 1

\* The rest of addVar, with genVarInit and, in a function, Fun::locate: more is
\* the instructions that follow the declaration.
AddVar(name, size, more) ==
    /\ vars' = Append(vars, [name |-> name, path |-> scopePath, size |-> size,
                             tok |-> Len(src) + 1])
    /\ addr' = Append(addr, None)
    /\ IF curFun
       THEN /\ code' = code \o << Inst("dec", New, None) >> \o more
            /\ curEsp' = curEsp + Words(size)
            /\ scopeEsp' = [scopeEsp EXCEPT ![Len(scopeEsp)] = @ + Words(size)]
            /\ offset' = Append(offset, -(curEsp + Words(size)))
       ELSE /\ offset' = Append(offset, 0)
            /\ UNCHANGED <<code, curEsp, scopeEsp>>

Parsed(token) ==
    /\ pc = "parse" /\ Len(src) < MaxTokens
    /\ src' = Append(src, token)
    /\ UNCHANGED <<cursor, tree, deepest>>

\* An error is counted and the program is not compiled: nothing after it matters.
Reject ==
    /\ pc' = "rejected"
    /\ UNCHANGED <<scopeId, scopePath, vars, curFun, curEsp, scopeEsp, maxDepth,
                   offset, code, addr>>

\* A declaration without an initial value, outside or inside a function.
Declare ==
    \E name \in Names, size \in Sizes :
        /\ Parsed(Token("declare", name, size))
        /\ IF Redefined(name) THEN Reject
           ELSE /\ AddVar(name, size, << >>)
                /\ UNCHANGED <<pc, scopeId, scopePath, curFun, maxDepth>>

\* An operation goes to a fresh temporary of the scope it stands in, which the
\* instruction after it uses: an assignment, or the jump of a condition.
Operation(token, last) ==
    /\ curFun /\ Parsed(token)
    /\ AddVar(None, 4, << Inst("op", New, None), last >>)
    /\ UNCHANGED <<pc, scopeId, scopePath, curFun, maxDepth>>

Condition == Operation(Token("condition", None, 0), Inst("use", None, New))

IsScalar(v) == vars[v].size <= 4

Wrong(token) == curFun /\ Parsed(token) /\ Reject

AssignTo(name) ==
    LET v == GetVar(name) IN
    IF v = None THEN Wrong(Token("assign", name, 0))
    ELSE /\ IsScalar(v)
         /\ Operation(Token("assign", name, 0), Inst("as", v, New))

Assign == \E name \in Names : AssignTo(name)

\* An assignment of one variable to another.
CopyOf(left, right) ==
    LET v == GetVar(left)
        w == GetVar(right)
        token == Token("copy", left, right)
    IN  IF None \in {v, w} THEN Wrong(token)
        ELSE /\ curFun /\ IsScalar(v) /\ IsScalar(w) /\ v # w /\ Parsed(token)
             /\ code' = Append(code, Inst("as", v, w))
             /\ UNCHANGED <<pc, scopeId, scopePath, vars, curFun, curEsp, scopeEsp,
                            maxDepth, offset, addr>>

Copy == \E left, right \in Names : CopyOf(left, right)

UseOf(name) ==
    LET v == GetVar(name) IN
    IF v = None THEN Wrong(Token("use", name, 0))
    ELSE /\ curFun /\ IsScalar(v) /\ Parsed(Token("use", name, 0))
         /\ code' = Append(code, Inst("use", None, v))
         /\ UNCHANGED <<pc, scopeId, scopePath, vars, curFun, curEsp, scopeEsp,
                        maxDepth, offset, addr>>

Use == \E name \in Names : UseOf(name)

-----------------------------------------------------------------------------
(* Scopes and functions *)

\* A function's head: idtail enters the scope of the parameter before there is a
\* function, the constructor gives the parameter its place above the frame, and
\* genFunHead opens the function's frame.
BeginFun ==
    \E name \in Names \cup {None} :
        /\ ~curFun /\ Parsed(Token("fun", name, 0))
        /\ scopeId' = scopeId + 1
        /\ scopePath' = Append(scopePath, scopeId + 1)
        /\ IF name = None THEN UNCHANGED <<vars, offset, addr>>
           ELSE /\ vars' = Append(vars, [name |-> name, path |-> scopePath', size |-> 4,
                                         tok |-> Len(src')])
                /\ offset' = Append(offset, 4)
                /\ addr' = Append(addr, 4)
        /\ curFun' = TRUE
        /\ curEsp' = stackBase /\ maxDepth' = stackBase /\ scopeEsp' = << 0 >>
        /\ code' = Append(code, Inst("entry", None, None))
        /\ UNCHANGED pc

\* SymTab::enter, where a statement begins.
EnterScope ==
    /\ curFun /\ Parsed(Token("enter", None, 0))
    /\ scopeId' = scopeId + 1
    /\ scopePath' = Append(scopePath, scopeId + 1)
    /\ scopeEsp' = Append(scopeEsp, 0)
    /\ UNCHANGED <<pc, vars, curFun, curEsp, maxDepth, offset, code, addr>>

\* Mutant of FunLeaves: all of the frame is given back.
FunLeavesAll ==
    /\ maxDepth' = IF curEsp > maxDepth THEN curEsp ELSE maxDepth
    /\ curEsp' = stackBase
    /\ scopeEsp' = Front(scopeEsp)

\* Mutant of FunLeaves: the scope's share stays on the stack of shares.
FunLeavesShare ==
    /\ maxDepth' = IF curEsp > maxDepth THEN curEsp ELSE maxDepth
    /\ curEsp' = curEsp - Last(scopeEsp)
    /\ UNCHANGED scopeEsp

\* Mutant of FunLeaves: the depth is taken after the scope's share is given back.
FunLeavesFirst ==
    /\ curEsp' = curEsp - Last(scopeEsp)
    /\ scopeEsp' = Front(scopeEsp)
    /\ maxDepth' = IF curEsp' > maxDepth THEN curEsp' ELSE maxDepth

\* Fun::leaveScope
FunLeaves ==
    /\ maxDepth' = IF curEsp > maxDepth THEN curEsp ELSE maxDepth
    /\ curEsp' = curEsp - Last(scopeEsp)
    /\ scopeEsp' = Front(scopeEsp)

\* SymTab::leave, where a statement ends.
LeaveScope ==
    /\ curFun /\ Len(scopeEsp) > 1 /\ Parsed(Token("leave", None, 0))
    /\ scopePath' = Front(scopePath)
    /\ FunLeaves
    /\ UNCHANGED <<pc, scopeId, vars, curFun, offset, code, addr>>

\* genFunTail, endDefFun, and the leave of idtail.
EndFun ==
    /\ curFun /\ Len(scopeEsp) = 1 /\ Parsed(Token("leave", None, 0))
    /\ FunLeaves
    /\ scopePath' = Front(scopePath)
    /\ curFun' = FALSE
    /\ code' = Append(code, Inst("exit", None, None))
    /\ UNCHANGED <<pc, scopeId, vars, offset, addr>>

\* The program ends and its functions are optimised.
EndProgram ==
    /\ pc = "parse" /\ ~curFun /\ code # << >>
    /\ pc' = "alloc"
    /\ UNCHANGED <<parsing, allocating>>

-----------------------------------------------------------------------------
(* Frame addresses of the optimised code *)

\* getEsp goes down the path from the root; Scope::find makes the scopes that are
\* missing, each with its parent's esp.
Find(path) ==
    LET known == {k \in DOMAIN path : path[k] \in DOMAIN tree}
        last  == CHOOSE k \in known : \A m \in known : m <= k
    IN  [id \in DOMAIN tree \cup {path[k] : k \in DOMAIN path} |->
            IF id \in DOMAIN tree THEN tree[id] ELSE tree[path[last]]]

\* stackAlloc at a declaration that no register was found for.
InFrame ==
    /\ pc = "alloc" /\ cursor <= Len(code) /\ code[cursor].op = "dec"
    /\ LET v     == code[cursor].res
           path  == vars[v].path
           found == Find(path)
           esp   == found[Last(path)] + Words(vars[v].size)
       IN  /\ tree' = [found EXCEPT ![Last(path)] = esp]
           /\ addr' = [addr EXCEPT ![v] = -esp]
           /\ deepest' = IF esp > deepest THEN esp ELSE deepest
    /\ cursor' = cursor + 1
    /\ UNCHANGED <<parsing, pc>>

\* A declaration whose variable has a register, or is dead and was removed.
InRegister ==
    /\ pc = "alloc" /\ cursor <= Len(code) /\ code[cursor].op = "dec"
    /\ IsScalar(code[cursor].res)
    /\ cursor' = cursor + 1
    /\ UNCHANGED <<parsing, pc, tree, addr, deepest>>

\* Every function has a graph of its own, with a new root.
OtherInst ==
    /\ pc = "alloc" /\ cursor <= Len(code) /\ code[cursor].op # "dec"
    /\ IF code[cursor].op = "entry" THEN tree' = Root /\ deepest' = 0
       ELSE UNCHANGED <<tree, deepest>>
    /\ cursor' = cursor + 1
    /\ UNCHANGED <<parsing, pc, addr>>

AllocEnds ==
    /\ pc = "alloc" /\ cursor > Len(code)
    /\ pc' = "done"
    /\ UNCHANGED <<parsing, allocating>>

Next ==
    \/ Declare \/ Condition \/ Assign \/ Copy \/ Use
    \/ BeginFun \/ EnterScope \/ LeaveScope \/ EndFun \/ EndProgram
    \/ InFrame \/ InRegister \/ OtherInst \/ AllocEnds

Spec == Init /\ [][Next]_allVars
-----------------------------------------------------------------------------
(* What the tokens say *)

Depth[k \in 0 .. Len(src)] ==
    IF k = 0 THEN 0
    ELSE Depth[k - 1] + (CASE src[k].kind \in {"fun", "enter"} -> 1
                           [] src[k].kind = "leave" -> -1
                           [] OTHER -> 0)

\* What token d declares is still in scope at token t.
InScope(d, t) == d < t /\ \A e \in d .. t - 1 : Depth[e] >= Depth[d]

Declarations(name, t) ==
    {d \in 1 .. t - 1 : /\ src[d].kind \in {"declare", "fun"}
                        /\ src[d].name = name
                        /\ InScope(d, t)}

\* The declaration a name means at token t: the latest one in scope.
Meant(name, t) ==
    LET all == Declarations(name, t) IN
    IF all = {} THEN None ELSE CHOOSE d \in all : \A e \in all : e <= d

-----------------------------------------------------------------------------
(* What the optimised code says *)

Writes(inst, v) == inst.op \in {"op", "as"} /\ inst.res = v

\* The copies that hold before instruction k: CopyPropagation::analyse, on code
\* without branches.
Available(k) ==
    {j \in 1 .. k - 1 :
        /\ code[j].op = "as"
        /\ \A m \in j + 1 .. k - 1 :
              /\ ~Writes(code[m], code[j].res) /\ ~Writes(code[m], code[j].arg)
              /\ code[m].op # "exit"}

\* CopyPropagation::find, which follows the available copies, as they stand in
\* insts, to their source, or once around to v. A search that goes round without
\* v stops here after as many steps as there are copies; in the code it does not
\* end (FindReturns of CopyProp).
Source(insts, k, v) ==
    LET copies == Available(k)
        root[n \in 0 .. Cardinality(copies), x \in DOMAIN vars] ==
            LET give == {j \in copies : code[j].res = x}
                from == insts[CHOOSE j \in give : TRUE].arg
            IN  IF n = 0 \/ give = {} THEN x
                ELSE IF from = v THEN v ELSE root[n - 1, from]
    IN  IF v = None THEN None ELSE root[Cardinality(copies), v]

\* CopyPropagation::propagate puts the sources into the code from the first
\* instruction to the last: a search consults copies that were changed before.
Propagated ==
    FoldLeft(LAMBDA insts, k : [insts EXCEPT ![k].arg = Source(insts, k, @)],
             code, [k \in DOMAIN code |-> k])

-----------------------------------------------------------------------------
(* Properties *)

\* The variables have their types, and a function has a share of the frame for
\* every scope that is open.
TypeOK ==
    /\ pc \in {"parse", "rejected", "alloc", "done"}
    /\ scopeId \in Nat /\ Len(scopePath) > 0
    /\ \A k \in DOMAIN scopePath : scopePath[k] \in 0 .. scopeId
    /\ curFun \in BOOLEAN /\ curEsp \in Nat /\ maxDepth \in Nat /\ deepest \in Nat
    /\ Len(scopeEsp) = Len(scopePath) - 1
    /\ \A v \in DOMAIN vars : vars[v].name \in Names \cup {None} /\ vars[v].size > 0
    /\ DOMAIN offset = DOMAIN vars /\ DOMAIN addr = DOMAIN vars
    /\ \A k \in DOMAIN code :
          /\ code[k].op \in {"entry", "exit", "dec", "op", "as", "use"}
          /\ {code[k].res, code[k].arg} \subseteq DOMAIN vars \cup {None}

\* A name means what C's block scoping says: a use finds the latest declaration
\* in scope, and is an error just when there is none; a declaration is an error
\* just when its own block has the name already.
NamesResolve ==
    LET t     == Len(src)
        bad   == pc = "rejected"
        is(v, name) == v # None => vars[v].tok = Meant(name, t)
    IN  t > 0 /\ pc \in {"parse", "rejected"} =>
          CASE src[t].kind = "declare" ->
                 bad <=> \E d \in Declarations(src[t].name, t) : Depth[d] = Depth[t]
            [] src[t].kind \in {"use", "assign"} ->
                 /\ bad <=> Meant(src[t].name, t) = None
                 /\ ~bad => is(IF src[t].kind = "use" THEN Last(code).arg
                               ELSE Last(code).res, src[t].name)
            [] src[t].kind = "copy" ->
                 /\ bad <=> None \in {Meant(src[t].name, t), Meant(src[t].size, t)}
                 /\ ~bad => /\ is(Last(code).res, src[t].name)
                            /\ is(Last(code).arg, src[t].size)
            [] OTHER -> ~bad

\* The bytes of a variable that has a place in the frame.
Bytes(place, v) ==
    IF place[v] \in {0, None} THEN {}
    ELSE place[v] .. place[v] + vars[v].size - 1

\* A variable that is declared while another is in scope shares no byte with it,
\* in the frame that is laid out while parsing and in that of the optimised code.
InScopeApart ==
    \A u, v \in DOMAIN vars :
        \/ /\ Bytes(offset, u) \cap Bytes(offset, v) = {}
           /\ pc = "done" => Bytes(addr, u) \cap Bytes(addr, v) = {}
        \/ ~InScope(vars[u].tok, vars[v].tok)

\* The frame that the function's head makes room for holds every local, and what
\* is laid out while parsing leaves the words of the saved registers alone.
FramesHold ==
    /\ pc = "parse" /\ ~curFun /\ code # << >> =>
          LET begin == CHOOSE k \in DOMAIN code :
                          /\ code[k].op = "entry"
                          /\ \A m \in k + 1 .. Len(code) : code[m].op # "entry"
          IN  \A k \in begin .. Len(code) :
                 code[k].op = "dec" =>
                    Bytes(offset, code[k].res) \subseteq -maxDepth .. -(stackBase + 1)
    /\ pc = "alloc" /\ cursor > 1 =>
          \A k \in 1 .. cursor - 1 :
             code[k].op = "dec" /\ (\A m \in k .. cursor - 1 : code[m].op # "entry") =>
                Bytes(addr, code[k].res) \subseteq -deepest .. -1

\* So the frame of a function is sound: deep enough, and no two of its variables
\* that are in scope together meet in it.
FramesSound == FramesHold /\ InScopeApart

\* Before instruction k variable v holds a value that some later one reads.
Holds(insts, k, v) ==
    \E j \in 1 .. k - 1, u \in k + 1 .. Len(insts) :
        /\ Writes(insts[j], v) /\ insts[u].arg = v
        /\ \A m \in j + 1 .. u - 1 : ~Writes(insts[m], v)

\* No instruction writes over a value that is read later.
Keeps(insts, place) ==
    \A k \in DOMAIN insts, v, w \in DOMAIN vars :
        Writes(insts[k], w) /\ v # w /\ Holds(insts, k, v) =>
            Bytes(place, v) \cap Bytes(place, w) = {}

\* Code that is not optimised keeps every value till its last use, in the frame
\* laid out while parsing.
PlainKeepsLive == pc = "parse" => Keeps(code, offset)

\* Optimised code keeps every value till its last use, in the addresses stackAlloc
\* gives (alloc.h:80, "assigns stack frame addresses to the variables that cannot
\* be coloured").
OptimisedKeepsLive == pc = "done" => Keeps(Propagated, addr)
=============================================================================
