--------------------------- MODULE MCSingletons ----------------------------
(* Small instances of Singletons for TLC. *)
EXTENDS Singletons, TLC

CONSTANTS r1, r2, o1

MCReqsOne == {r1}
MCReqsTwo == {r1, r2}
MCOpIds == {o1}
MCAllEndpoints == SubmitEndpoints \cup ListEndpoints
(* The attester slashing endpoints and their queries. *)
MCAttesterEndpoints == {"attV1", "attV2", "getAttV1", "getAttV2"}
(* An absent header, an unknown fork name, a pre-Electra and the Electra *)
(* fork name.                                                            *)
MCHeaderValues == {"bogus", "deneb", "electra"}
(* With 4 slots per epoch and 4-bit slots, epoch 3 starts at slot 12 and *)
(* epoch 4 overflows.                                                    *)
MCEpochs == {3, 4}
MCReqsSymmetry == Permutations(MCReqsTwo)
=============================================================================
