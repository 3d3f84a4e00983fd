-------------------------- MODULE MCMemoryGateway --------------------------
(* Small instances of MemoryGateway for TLC.                               *)
EXTENDS MemoryGateway, TLC

CONSTANTS k1, stranger, r1, r2, r3, r4, r5   \* model values

\* Four requests under one key, and one of nobody's.
MCKeyOf == [r \in Request |-> IF r = r5 THEN stranger ELSE k1]

MCSymmetry == Permutations({r1, r2, r3, r4})
=============================================================================
