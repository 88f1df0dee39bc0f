----------------------- MODULE MCAttestationQueries ------------------------
(* Small instances of AttestationQueries for TLC. *)
EXTENDS AttestationQueries

CONSTANTS r1, a1, l1

MCReqsOne == {r1}
MCAttIds == {a1}
MCHeaderValues == {"bogus", "deneb", "electra"}
MCLists == {l1}
MCQueryValues == {0, 1}
MCAttSlot == [a \in MCAttIds |-> 0]
MCAttCommittee == [a \in MCAttIds |-> 1]
(* The head is at Deneb or Electra and may cross into Electra. *)
MCHeadForks == {4, 5}
=============================================================================
