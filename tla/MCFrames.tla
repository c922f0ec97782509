------------------------------ MODULE MCFrames ------------------------------
(***************************************************************************)
(* Frames on every program of a few tokens.                                *)
(***************************************************************************)
EXTENDS Frames

\* Two names are alike until one is used.
Symmetry == Permutations(Names)

\* Leaves out what adds nothing to the programs without it: statements and
\* functions without a body, a condition that nothing follows, the same use, copy
\* or condition twice in a row, and globals other than one at the beginning.
NoIdleTokens ==
    \A k \in 2 .. Len(src) :
        /\ src[k].kind = "leave" => src[k - 1].kind \notin {"enter", "fun", "condition"}
        /\ src[k].kind \in {"use", "copy", "condition"} => src[k - 1].kind # src[k].kind
        /\ src[k].kind = "declare" => Depth[k] > 0
=============================================================================
