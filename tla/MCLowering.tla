---------------------------- MODULE MCLowering ----------------------------
(***************************************************************************)
(* Lowering on every function body of a few tokens.                        *)
(***************************************************************************)
EXTENDS Lowering

Plain      == {}
DoLoops    == {"continue in do"}
SwitchLoop == {"continue in switch"}
CaseFalls  == {"fall through"}

\* Leaves out two runs in a row, which do what one does, and all that follows
\* a jump in the same block, where execution never comes.
NoIdleTokens ==
    \A k \in 2 .. Len(src) :
        /\ src[k - 1] = "run" => src[k] # "run"
        /\ src[k - 1] \in {"break", "continue", "return"} => src[k] \in Closer
=============================================================================
