-------------------------- MODULE MCHoneypotBuffer --------------------------
(***************************************************************************)
(* Instances of HoneypotBuffer for TLC.                                    *)
(***************************************************************************)
EXTENDS HoneypotBuffer, TLC

CONSTANTS e1, e2, e3, loop1, loop2

TwoEvents   == {e1, e2}
ThreeEvents == {e1, e2, e3}
OneLoop     == {loop1}
TwoLoops    == {loop1, loop2}

Symmetry == Permutations(ThreeEvents)
=============================================================================
