------------------------------ MODULE Lowering ------------------------------
(***************************************************************************)
(* How statements become jumps and labels: the statement methods of the    *)
(* parser (compiler/parser/parser.cpp) with the gen methods they call      *)
(* (compiler/ir/genir.cpp), one action for each piece of code they add.    *)
(* `src' is the body of a function as its statements are met; after it,    *)
(* the code is walked next to a reading of `src' that knows no labels.     *)
(*                                                                         *)
(* A token of `src' opens a statement or a branch, closes one ("end"), or  *)
(* is a statement of its own; "else" closes the "if" and opens the other   *)
(* branch.  An event <<t, part>> is something token t does: evaluate a     *)
(* condition, run a statement.                                             *)
(***************************************************************************)
EXTENDS Integers, Sequences, FiniteSets

CONSTANTS
    None,        \* nullptr
    MaxTokens,   \* bound on the length of src
    Odd          \* which of the constructs below src may have

\* What a token can do.
Part == {"init", "step", "cond", "value", "run", "return", "exit"}

\* "continue in do": genDoWhileHead makes it jump past the condition;
\* "continue in switch": genSwitchHead hides the loop around it; "fall
\* through": genCaseTail has no jump into the body of the next case.
ASSUME ConstAssumption ==
    /\ MaxTokens \in Nat
    /\ None \notin Nat /\ None \notin Nat \X Part
    /\ Odd \subseteq {"continue in do", "continue in switch", "fall through"}

Loop   == {"while", "do", "for"}
Opener == Loop \cup {"if", "else", "switch", "case", "default"}
Closer == {"else", "end"}
Single == {"run", "break", "continue", "return"}

VARIABLES
    src,       \* the tokens so far
    open,      \* the active statement methods: their token and their labels
    code,      \* the intermediate code so far
    labels,    \* how many labels have been made
    heads,     \* GenIR::heads
    tails,     \* GenIR::tails
    rejected,  \* the tokens reported as BREAK_ERR or CONTINUE_ERR
    at,        \* the instruction the walk is at
    expected,  \* the event that src has next
    pc

generated == <<src, open, code, labels, heads, tails, rejected>>
vars      == <<generated, at, expected, pc>>

-----------------------------------------------------------------------------
(* Instructions and labels *)

ReturnPoint == 0

Label(l)          == [op |-> "label", ev |-> None, to |-> l]
Jmp(l)            == [op |-> "jmp",   ev |-> None, to |-> l]
Do(t, part)       == [op |-> "do",    ev |-> << t, part >>, to |-> None]
Branch(op, t, l)  == [op |-> op,      ev |-> << t, "cond" >>, to |-> l]

Top == open[Len(open)]
Tok == Len(src) + 1        \* the token being parsed
Back(s) == s[Len(s)]
Popped(s) == SubSeq(s, 1, Len(s) - 1)

\* Statements are parsed everywhere but between the cases of a switch.
InBlock  == open # << >> => Top.kind # "switch"
\* There is room for n more tokens, and for an end for everything open.
Room(n)  == Len(src) + Len(open) + n <= MaxTokens

Push(head, tail) == heads' = Append(heads, head) /\ tails' = Append(tails, tail)
Pop              == heads' = Popped(heads) /\ tails' = Popped(tails)
SameStacks       == UNCHANGED <<heads, tails>>

\* A statement method begins: it has n labels of its own, l to l + n - 1.
Begin(kind, n, insts) ==
    /\ src' = Append(src, kind)
    /\ open' = Append(open, [kind |-> kind, tok |-> Tok, lb |-> labels + 1])
    /\ labels' = labels + n
    /\ code' = code \o insts
    /\ UNCHANGED <<rejected, at, expected, pc>>

\* ... and ends.
End(kind, insts) ==
    /\ pc = "parse" /\ open # << >> /\ Top.kind = kind
    /\ src' = Append(src, "end")
    /\ open' = Popped(open)
    /\ code' = code \o insts
    /\ UNCHANGED <<labels, rejected, at, expected, pc>>

-----------------------------------------------------------------------------
(* The statements *)

Init ==
    /\ src = << >> /\ open = << >> /\ code = << >>
    /\ labels = 0
    /\ heads = << None >> /\ tails = << None >>
    /\ rejected = {}
    /\ at = 1 /\ expected = << >>
    /\ pc = "parse"

\* whilestat up to the body: label, condition, JF to the exit.
While ==
    /\ pc = "parse" /\ InBlock /\ Room(2)
    /\ LET l == labels + 1 IN
       /\ Begin("while", 2, << Label(l), Branch("jf", Tok, l + 1) >>)
       /\ Push(l, l + 1)

EndWhile ==
    /\ End("while", << Jmp(Top.lb), Label(Top.lb + 1) >>)
    /\ Pop

\* dowhilestat
DoWhile ==
    /\ pc = "parse" /\ InBlock /\ Room(2)
    /\ LET l == labels + 1 IN Begin("do", 2, << Label(l) >>) /\ Push(l, l + 1)

EndDoWhile ==
    /\ End("do", << Branch("jt", Tok, Top.lb), Label(Top.lb + 1) >>)
    /\ Pop

\* Mutant of For: the step has no label of its own.
ForThree ==
    /\ pc = "parse" /\ InBlock /\ Room(2)
    /\ LET l == labels + 1 IN
       /\ Begin("for", 3,
              << Do(Tok, "init"), Label(l), Branch("jf", Tok, l + 1), Jmp(l + 2),
                 Label(l + 3), Do(Tok, "step"), Jmp(l), Label(l + 2) >>)
       /\ Push(l + 3, l + 1)

\* forstat: the labels are _for, _exit, _block and _step.
For ==
    /\ pc = "parse" /\ InBlock /\ Room(2)
    /\ LET l == labels + 1 IN
       /\ Begin("for", 4,
              << Do(Tok, "init"), Label(l), Branch("jf", Tok, l + 1), Jmp(l + 2),
                 Label(l + 3), Do(Tok, "step"), Jmp(l), Label(l + 2) >>)
       /\ Push(l + 3, l + 1)

\* Mutants of EndFor: the tail jumps to the condition; it jumps to the body.
EndForSkips ==
    /\ End("for", << Jmp(Top.lb), Label(Top.lb + 1) >>)
    /\ Pop

EndForBody ==
    /\ End("for", << Jmp(Top.lb + 2), Label(Top.lb + 1) >>)
    /\ Pop

EndFor ==
    /\ End("for", << Jmp(Top.lb + 3), Label(Top.lb + 1) >>)
    /\ Pop

\* ifstat: the labels are _else and _exit.
If ==
    /\ pc = "parse" /\ InBlock /\ Room(2)
    /\ Begin("if", 2, << Branch("jf", Tok, labels + 1) >>)
    /\ SameStacks

EndIf ==
    /\ End("if", << Jmp(Top.lb + 1), Label(Top.lb), Label(Top.lb + 1) >>)
    /\ SameStacks

Else ==
    /\ pc = "parse" /\ open # << >> /\ Top.kind = "if" /\ Room(1)
    /\ src' = Append(src, "else")
    /\ open' = [open EXCEPT ![Len(open)].kind = "else", ![Len(open)].tok = Tok]
    /\ code' = code \o << Jmp(Top.lb + 1), Label(Top.lb) >>
    /\ UNCHANGED <<labels, rejected, at, expected, pc>>
    /\ SameStacks

EndElse ==
    /\ End("else", << Label(Top.lb + 1) >>)
    /\ SameStacks

\* switchstat
Switch ==
    /\ pc = "parse" /\ InBlock /\ Room(2)
    /\ Begin("switch", 1, << Do(Tok, "value") >>)
    /\ Push(None, labels + 1)

EndSwitch ==
    /\ End("switch", << Label(Top.lb) >>)
    /\ Pop

\* casestat: nothing follows a default.
Case ==
    /\ pc = "parse" /\ open # << >> /\ Top.kind = "switch" /\ Room(2)
    /\ Begin("case", 1, << Branch("jne", Tok, labels + 1) >>)
    /\ SameStacks

EndCase ==
    /\ End("case", << Label(Top.lb) >>)
    /\ "fall through" \in Odd \/ Back(src) \in {"break", "continue", "return"}
    /\ SameStacks

Default ==
    /\ pc = "parse" /\ open # << >> /\ Top.kind = "switch" /\ Room(2)
    /\ Begin("default", 0, << >>)
    /\ SameStacks

\* casestat and switchstat end together after a default.
EndDefault ==
    /\ pc = "parse" /\ open # << >> /\ Top.kind = "default"
    /\ src' = src \o << "end", "end" >>
    /\ open' = Popped(Popped(open))
    /\ code' = Append(code, Label(Popped(open)[Len(open) - 1].lb))
    /\ UNCHANGED <<labels, rejected, at, expected, pc>>
    /\ Pop

OneToken(kind, insts) ==
    /\ pc = "parse" /\ InBlock /\ Room(1)
    /\ src' = Append(src, kind)
    /\ code' = code \o insts
    /\ UNCHANGED <<open, labels, heads, tails, at, expected, pc>>

Run    == OneToken("run", << Do(Tok, "run") >>) /\ UNCHANGED rejected
Return ==
    /\ OneToken("return", << Do(Tok, "return"), Jmp(ReturnPoint) >>)
    /\ UNCHANGED rejected

\* Mutant of Break: it looks at the loops only.
BreakLoops ==
    IF Back(heads) # None
    THEN OneToken("break", << Jmp(Back(tails)) >>) /\ UNCHANGED rejected
    ELSE OneToken("break", << >>) /\ rejected' = rejected \cup {Tok}

\* genBreak and genContinue.
Break ==
    IF Back(tails) # None
    THEN OneToken("break", << Jmp(Back(tails)) >>) /\ UNCHANGED rejected
    ELSE OneToken("break", << >>) /\ rejected' = rejected \cup {Tok}

\* The innermost of the open statements that are of some kinds, 0 for none.
Innermost(kinds) ==
    LET found == {k \in DOMAIN open : open[k].kind \in kinds} IN
    IF found = {} THEN 0 ELSE CHOOSE k \in found : \A m \in found : m <= k

KindIn(kinds) ==
    IF Innermost(kinds) = 0 THEN "none" ELSE open[Innermost(kinds)].kind

Continue ==
    /\ "continue in do" \in Odd \/ KindIn(Loop) # "do"
    /\ \/ "continue in switch" \in Odd
       \/ Innermost({"switch"}) = 0
       \/ Innermost(Loop) = 0
       \/ Innermost({"switch"}) < Innermost(Loop)
    /\ IF Back(heads) # None
       THEN OneToken("continue", << Jmp(Back(heads)) >>) /\ UNCHANGED rejected
       ELSE OneToken("continue", << >>) /\ rejected' = rejected \cup {Tok}

-----------------------------------------------------------------------------
(* What src says should happen *)

Depth[k \in 0 .. Len(src)] ==
    IF k = 0 THEN 0
    ELSE Depth[k - 1] + (IF src[k] \in Opener THEN 1 ELSE 0)
                      - (IF src[k] \in Closer THEN 1 ELSE 0)

\* The token that closes what token t opens.
Match(t) ==
    CHOOSE e \in t + 1 .. Len(src) :
        /\ src[e] \in Closer
        /\ Depth[e - 1] = Depth[t]
        /\ \A f \in t + 1 .. e - 1 : src[f] \in Closer => Depth[f - 1] > Depth[t]

Owner(e) == CHOOSE t \in 1 .. e - 1 : src[t] \in Opener /\ Match(t) = e

\* The innermost statement of some kinds around token t.
Around(t, kinds) ==
    LET found == {o \in 1 .. t - 1 : src[o] \in kinds /\ Match(o) > t} IN
    IF found = {} THEN 0 ELSE CHOOSE o \in found : \A p \in found : p <= o

Return0 == << Len(src) + 1, "exit" >>

\* What a loop does next when its body is done or continued.
Again(o) ==
    CASE src[o] = "while" -> << o, "cond" >>
      [] src[o] = "do"    -> << Match(o), "cond" >>
      [] src[o] = "for"   -> << o, "step" >>

\* The first event when execution comes to token t.
Enter[t \in 1 .. Len(src) + 1] ==
    IF t > Len(src) THEN Return0
    ELSE CASE src[t] \in {"run", "return"} -> << t, src[t] >>
           [] src[t] \in {"while", "if"}   -> << t, "cond" >>
           [] src[t] = "for"               -> << t, "init" >>
           [] src[t] = "switch"            -> << t, "value" >>
           [] src[t] \in {"do", "case", "default"} -> Enter[t + 1]
           [] src[t] = "break"    -> Enter[Match(Around(t, Loop \cup {"switch"})) + 1]
           [] src[t] = "continue" -> Again(Around(t, Loop))
           [] src[t] = "else"     -> Enter[Match(t) + 1]
           [] OTHER               ->    \* an end
                IF src[Owner(t)] \in Loop THEN Again(Owner(t)) ELSE Enter[t + 1]

\* The first event when a switch comes to its label at token t.
Test(t) == IF src[t] = "case" THEN << t, "cond" >> ELSE Enter[t + 1]

\* The event after event ev, whose condition holds or not.
After(ev, holds) ==
    LET t    == ev[1]
        kind == src[t]
    IN  CASE ev[2] \in {"return", "exit"} -> Return0
          [] ev[2] = "run"    -> Enter[t + 1]
          [] ev[2] = "value"  -> Test(t + 1)
          [] ev[2] \in {"init", "step"} -> << t, "cond" >>
          [] ev[2] = "cond" /\ holds ->
                IF kind = "end" THEN Enter[Owner(t) + 1] ELSE Enter[t + 1]
          [] ev[2] = "cond" /\ ~holds ->
                CASE kind = "end"  -> Enter[t + 1]
                  [] kind = "case" -> Test(Match(t) + 1)
                  [] OTHER         -> Enter[Match(t) + 1]

-----------------------------------------------------------------------------
(* The walk *)

\* The end of the function: genFunTail. The code of a function with errors is
\* never used.
EndFunction ==
    /\ pc = "parse" /\ open = << >> /\ rejected = {}
    /\ code' = code \o << Label(ReturnPoint), Do(Tok, "exit") >>
    /\ expected' = Enter[1]
    /\ pc' = "walk"
    /\ UNCHANGED <<src, open, labels, heads, tails, rejected, at>>

PlaceOf(l) == {p \in DOMAIN code : code[p].op = "label" /\ code[p].to = l}

Silent ==
    /\ pc = "walk" /\ code[at].ev = None
    /\ at' \in IF code[at].op = "label" THEN {at + 1} ELSE PlaceOf(code[at].to)
    /\ UNCHANGED <<generated, expected, pc>>

Act ==
    /\ pc = "walk" /\ code[at].ev # None /\ at < Len(code)
    /\ \E holds \in BOOLEAN :
          /\ expected' = After(expected, holds)
          /\ at' \in IF code[at].op = (IF holds THEN "jt" ELSE "jf")
                        \/ (code[at].op = "jne" /\ ~holds)
                     THEN PlaceOf(code[at].to) ELSE {at + 1}
    /\ UNCHANGED <<generated, pc>>

Parse ==
    \/ While \/ EndWhile \/ DoWhile \/ EndDoWhile \/ For \/ EndFor
    \/ If \/ EndIf \/ Else \/ EndElse
    \/ Switch \/ EndSwitch \/ Case \/ EndCase \/ Default \/ EndDefault
    \/ Run \/ Return \/ Break \/ Continue

Next == Parse \/ EndFunction \/ Silent \/ Act

Spec == Init /\ [][Next]_vars /\ WF_vars(Silent \/ Act)

-----------------------------------------------------------------------------
(* Properties *)

\* The variables have their types.
TypeOK ==
    /\ src \in Seq(Opener \cup Closer \cup Single) /\ Len(src) <= MaxTokens
    /\ \A k \in DOMAIN open :
          open[k].kind \in Opener /\ open[k].tok \in DOMAIN src /\ open[k].lb \in Nat
    /\ \A k \in DOMAIN code :
          /\ code[k].op \in {"label", "jmp", "do", "jt", "jf", "jne"}
          /\ code[k].to \in 0 .. labels \cup {None}
    /\ labels \in Nat
    /\ rejected \subseteq DOMAIN src
    /\ at \in Nat \ {0}
    /\ pc \in {"parse", "walk"}

\* break and continue are rejected outside loops and switches, and only there
\* (error.cpp:83, "break must not appear outside a loop or switch statement",
\* error.cpp:84, "continue must not appear outside a loop").
RejectedRightly ==
    \A t \in DOMAIN src :
        LET inside == {k \in DOMAIN open : open[k].tok < t}
            kinds  == IF src[t] = "break" THEN Loop \cup {"switch"} ELSE Loop
        IN  t = Len(src) /\ src[t] \in {"break", "continue"} =>
                (t \in rejected <=> \A k \in inside : open[k].kind \notin kinds)

\* Whatever its conditions give, the code does what the source says, in its order.
SameOrder == pc = "walk" /\ code[at].ev # None => code[at].ev = expected

\* The code never goes round in jumps alone.
KeepsActing == pc = "walk" ~> (pc = "walk" /\ code[at].ev # None)
=============================================================================
