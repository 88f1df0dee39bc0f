------------------------ MODULE MCAttestationSubmit -------------------------
(* Small instances of AttestationSubmit for TLC. *)
EXTENDS AttestationSubmit

CONSTANTS r1, r2, a1

MCReqsOne == {r1}
MCReqsTwo == {r1, r2}
MCAttIds == {a1}
(* An absent header, an unknown fork name, a pre-Electra and the Electra *)
(* fork name.                                                            *)
MCHeaderValues == {"bogus", "deneb", "electra"}
=============================================================================
