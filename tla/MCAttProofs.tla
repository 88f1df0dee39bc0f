------------------------- MODULE MCAttProofs -------------------------------
(* Checks the inductive invariant of AttestationSubmitProofs with TLC. *)
EXTENDS AttestationSubmitProofs

CONSTANTS r1, a1

MCReqs == {r1}
MCAttIds == {a1}
MCHeaderValues == {"bogus", "deneb", "electra"}
=============================================================================
