----------------------------- MODULE InterCode -----------------------------
(***************************************************************************)
(* What a function's intermediate code promises: the meaning the comments  *)
(* of enum Operator (common.h) give to each instruction, on the values of  *)
(* the variables. Nothing is said of registers, addresses or the stack.    *)
(*                                                                         *)
(* Each instruction carries the set `lost' of variables whose values it    *)
(* does not promise to keep; a specification that implements this one says *)
(* which they are. A division is promised only when `high', the upper half *)
(* of its dividend, extends the dividend's sign: the intermediate code has *)
(* no instruction that would see to it.                                    *)
(***************************************************************************)
EXTENDS Words, Sequences

CONSTANTS
    Vars,           \* the variables of the function
    Chars,          \* those of type char
    Arrays          \* those whose value is their address

VARIABLES
    code,       \* what has been generated: records [inst, lost]
    at,         \* the next instruction; 0 before the run, -1 after a fault
    val,        \* the value of each variable
    address,    \* the address of each variable that has one
    high,       \* the upper half of a dividend
    ret         \* the value returned

vars == <<code, at, val, address, high, ret>>

\* A variable of type char keeps two bytes of what it is given.
Fit(v, x) == IF v \in Chars THEN x % HalfSize ELSE x

Value(a) ==
    IF a \in Vars THEN (IF a \in Arrays THEN address[a] ELSE val[a]) ELSE Wrap(a)

Running == at \in DOMAIN code
Inst == code[at].inst
Lost == code[at].lost

\* The variables that only the current instruction may change keep their values.
Keeps(changed) == \A v \in Vars \ (changed \cup Lost) : val'[v] = val[v]

Becomes(v, x) == v \in Lost \/ val'[v] = Fit(v, x)

Goes(next) == at' = next /\ UNCHANGED <<code, address>>

-----------------------------------------------------------------------------
Init == code = << >> /\ at = 0

Extend ==
    /\ at = 0 /\ Len(code') > Len(code)
    /\ SubSeq(code', 1, Len(code)) = code
    /\ UNCHANGED <<at, val, address, high, ret>>

Begin == at = 0 /\ at' = 1 /\ UNCHANGED code

Result(op, x, y) ==
    CASE op \in {"as", "init"} -> x
      [] op = "add" -> Wrap(x + y)
      [] op = "sub" -> Wrap(x - y)
      [] op = "mul" -> Wrap(Signed(x) * Signed(y))
      [] op = "neg" -> Wrap(-x)
      [] op = "not" -> Bit(x = 0)
      [] OTHER -> Bit(Compare(op, Signed(x), Signed(y)))

\* RESULT = ARG1 OP ARG2, and the declaration of a variable with a value.
Compute ==
    /\ Running
    /\ Inst.op \in {"as", "init", "add", "sub", "mul", "neg", "not",
                    "gt", "ge", "lt", "le", "equ", "ne"}
    /\ Keeps({Inst.res}) /\ Goes(at + 1) /\ UNCHANGED ret
    /\ Becomes(Inst.res, Result(Inst.op, Value(Inst.arg1), Value(Inst.arg2)))

\* RESULT = ARG1 && ARG2 and RESULT = ARG1 || ARG2: 0 or 1.
Junction ==
    /\ Running /\ Inst.op \in {"and", "or"}
    /\ Keeps({Inst.res}) /\ Goes(at + 1) /\ UNCHANGED ret
    /\ LET first == Value(Inst.arg1) # 0
           second == Value(Inst.arg2) # 0
       IN  Becomes(Inst.res, Bit(IF Inst.op = "and" THEN first /\ second
                                                    ELSE first \/ second))

Divide ==
    /\ Running /\ Inst.op \in {"div", "mod"} /\ UNCHANGED <<code, address, ret>>
    /\ LET dividend == Value(Inst.arg1)
           divisor == Value(Inst.arg2)
           q == Truncated(Signed(dividend), Signed(divisor))
       IN  IF divisor # 0 /\ high = SignWord(dividend) /\ q < WordSize \div 2
           THEN /\ at' = at + 1 /\ Keeps({Inst.res})
                /\ Becomes(Inst.res, IF Inst.op = "div" THEN Wrap(q)
                                     ELSE Wrap(Signed(dividend) - q * Signed(divisor)))
           ELSE at' = -1 \/ (at' = at + 1 /\ Keeps({Inst.res}))

Declare == Running /\ Inst.op = "dec" /\ Keeps({}) /\ Goes(at + 1) /\ UNCHANGED ret

Taken ==
    CASE Inst.op = "jmp" -> TRUE
      [] Inst.op = "jt" -> Value(Inst.arg1) # 0
      [] Inst.op = "jf" -> Value(Inst.arg1) = 0
      [] Inst.op = "jne" -> Value(Inst.arg1) # Value(Inst.arg2)

Jump ==
    /\ Running /\ Inst.op \in {"jmp", "jt", "jf", "jne"} /\ Keeps({})
    /\ Goes(IF Taken THEN Inst.target ELSE at + 1) /\ UNCHANGED ret

\* An argument is passed on; a call gives its result to a variable.
Argument == Running /\ Inst.op = "arg" /\ Keeps({}) /\ Goes(at + 1) /\ UNCHANGED ret

Call ==
    /\ Running /\ Inst.op \in {"call", "proc"} /\ Goes(at + 1) /\ UNCHANGED ret
    /\ IF Inst.op = "call" THEN Keeps({Inst.res}) /\ Becomes(Inst.res, Inst.gives)
                           ELSE Keeps({})

Return ==
    /\ Running /\ Inst.op \in {"ret", "retv"} /\ Keeps({}) /\ Goes(Len(code) + 1)
    /\ ret' = IF Inst.op = "retv" THEN Value(Inst.arg1) ELSE ret

\* RESULT = &ARG1, *ARG1 = RESULT, RESULT = *ARG1. A pointer that holds no
\* variable's address promises nothing.
Pointee == {v \in DOMAIN address : address[v] = Value(Inst.arg1)}

TakeAddress ==
    /\ Running /\ Inst.op = "lea"
    /\ Keeps({Inst.res}) /\ Goes(at + 1) /\ UNCHANGED ret
    /\ Becomes(Inst.res, address[Inst.arg1])

Store ==
    /\ Running /\ Inst.op = "set" /\ Goes(at + 1) /\ UNCHANGED ret
    /\ Pointee # {} =>
            /\ Keeps(Pointee)
            /\ \A v \in Pointee : Becomes(v, Value(Inst.res))

Fetch ==
    /\ Running /\ Inst.op = "get" /\ Goes(at + 1) /\ UNCHANGED ret
    /\ Keeps({Inst.res})
    /\ \A v \in Pointee : Becomes(Inst.res, val[v])

\* The function's end leaves nothing of its variables.
Finish == at = Len(code) + 1 /\ at' = at + 1 /\ UNCHANGED <<code, ret>>

Next ==
    \/ Extend \/ Begin
    \/ Compute \/ Junction \/ Divide \/ Declare \/ Jump \/ Argument \/ Call \/ Return
    \/ TakeAddress \/ Store \/ Fetch
    \/ Finish

Spec == Init /\ [][Next]_vars
=============================================================================
