--------------------------- MODULE MCBLSChanges ----------------------------
(* Small instances of BLSChanges for TLC. *)
EXTENDS BLSChanges, TLC

CONSTANTS r1, r2, v1, v2

MCReqsOne == {r1}
MCReqsTwo == {r1, r2}
MCValidators == {v1, v2}
MCValidatorsOne == {v1}

(* Requests are interchangeable: nothing in BLSChanges tells r1 from r2. *)
MCReqsSymmetry == Permutations(MCReqsTwo)
=============================================================================
