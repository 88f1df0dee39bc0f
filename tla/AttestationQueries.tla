-------------------------- MODULE AttestationQueries --------------------------
(***************************************************************************)
(* The attestation queries composed with attestation submission:           *)
(* ListAttestations (GET /beacon/pool/attestations), ListAttestationsV2    *)
(* and shouldIncludeAttestation, reading the pool that the handlers of     *)
(* AttestationSubmit fill, while the head moves across forks.              *)
(*                                                                         *)
(* A query is a process of its own (Lists).  It parses its two query       *)
(* parameters, reads the head state (V2), enumerates the aggregated and    *)
(* unaggregated attestations, asserts each to the variant it expects and   *)
(* keeps those shouldIncludeAttestation accepts.                           *)
(***************************************************************************)
EXTENDS AttestationSubmit

CONSTANTS
    Lists,         \* the query requests (model values)
    QueryValues,   \* slot and committee index values a query may name
    AttSlot,       \* AttSlot[a]: data.Slot of attestation a
    AttCommittee,  \* AttCommittee[a]: data.CommitteeIndex of attestation a
    HeadForks      \* the forks the head passes through in a run

ASSUME AttestationQueriesAssumption ==
    /\ IsFiniteSet(Lists) /\ Lists # {} /\ Lists \cap Reqs = {}
    /\ QueryValues \subseteq Nat
    /\ AttSlot \in [AttIds -> QueryValues]
    /\ AttCommittee \in [AttIds -> QueryValues]
    /\ HeadForks \subseteq Nat /\ HeadForks # {}

(***************************************************************************)
(* A query parameter as shared.UintFromQuery sees it: absent (raw ""),     *)
(* present and parsed, or present and not a number.                        *)
(***************************************************************************)
Absent == [present |-> FALSE, parses |-> TRUE, value |-> CHOOSE v \in QueryValues : TRUE]
Params == {Absent} \cup [present: {TRUE}, parses: BOOLEAN, value: QueryValues]
Queries == [slot: Params, committee: Params]

(***************************************************************************)
(* shouldIncludeAttestation: a present committee_index must equal          *)
(* data.CommitteeIndex, a present slot must equal data.Slot.               *)
(***************************************************************************)
shouldIncludeAttestation(a, q) ==
    LET committeeIndexMatch == ~(q.committee.present /\ AttCommittee[a] # q.committee.value)
        slotMatch == ~(q.slot.present /\ AttSlot[a] # q.slot.value)
    IN committeeIndexMatch /\ slotMatch

(* read: the query got as far as enumerating the pool. *)
NoListing == [code |-> 0, shown |-> {}, version |-> 0, read |-> FALSE]
Listings == [code: {200, 400, 500}, shown: SUBSET Entries, version: Nat, read: BOOLEAN]
              \cup {NoListing}

VARIABLES
    head,      \* fork ordinal of the head state
    lpc,       \* lpc[l]: "idle", "query", "list", "done"
    lendpoint, \* lendpoint[l]: "v1" (ListAttestations) or "v2"
    query,     \* query[l]: the slot and committee_index parameters
    listing    \* listing[l]: the response: status, attestations shown, version

qVars == <<head, lpc, lendpoint, query, listing>>
allVars == <<vars, qVars>>

QTypeOK ==
    /\ TypeOK
    /\ head \in HeadForks
    /\ lpc \in [Lists -> {"idle", "query", "list", "done"}]
    /\ lendpoint \in [Lists -> {"v1", "v2"}]
    /\ query \in [Lists -> Queries]
    /\ listing \in [Lists -> Listings]

QInit ==
    /\ Init
    /\ head \in HeadForks
    /\ lpc = [l \in Lists |-> "idle"]
    /\ lendpoint \in [Lists -> {"v1", "v2"}]
    /\ query = [l \in Lists |-> [slot |-> Absent, committee |-> Absent]]
    /\ listing = [l \in Lists |-> NoListing]

(* A client sends a query. *)
ListReceive(l) ==
    /\ lpc[l] = "idle"
    /\ \E q \in Queries : query' = [query EXCEPT ![l] = q]
    /\ lpc' = [lpc EXCEPT ![l] = "query"]
    /\ UNCHANGED <<head, lendpoint, listing>>

(* UintFromQuery fails on slot or on committee_index: it writes 400 and   *)
(* the handler returns.                                                    *)
QueryError(l) ==
    /\ lpc[l] = "query"
    /\ ~query[l].slot.parses \/ ~query[l].committee.parses
    /\ listing' = [listing EXCEPT ![l] = [NoListing EXCEPT !.code = 400]]
    /\ lpc' = [lpc EXCEPT ![l] = "done"]
    /\ UNCHANGED <<head, lendpoint, query>>

QueryParsed(l) ==
    /\ lpc[l] = "query"
    /\ query[l].slot.parses /\ query[l].committee.parses
    /\ lpc' = [lpc EXCEPT ![l] = "list"]
    /\ UNCHANGED <<head, lendpoint, query, listing>>

(* Mutant: a failed read answered 503. *)
ListErrorUnavailable(l) ==
    /\ lpc[l] = "list"
    /\ listing' = [listing EXCEPT ![l] = [NoListing EXCEPT !.code = 503]]
    /\ lpc' = [lpc EXCEPT ![l] = "done"]
    /\ UNCHANGED <<head, lendpoint, query>>

(* HeadStateReadOnly (V2) or UnaggregatedAttestations fails: 500. *)
ListError(l) ==
    /\ lpc[l] = "list"
    /\ listing' = [listing EXCEPT ![l] = [NoListing EXCEPT !.code = 500]]
    /\ lpc' = [lpc EXCEPT ![l] = "done"]
    /\ UNCHANGED <<head, lendpoint, query>>

(* The variant each entry is asserted to: *eth.AttestationElectra on a V2 *)
(* query at an Electra head, else *eth.Attestation.                        *)
ExpectsElectra(l) == lendpoint[l] = "v2" /\ head >= Electra

(***************************************************************************)
(* The pool is read (aggregated then unaggregated).  One entry of the      *)
(* other variant fails its type assertion and answers the whole query 500, *)
(* whether or not the filter would keep it; otherwise 200 with the entries *)
(* the filter keeps, and (V2) the head's version.                          *)
(***************************************************************************)
List(l) ==
    /\ lpc[l] = "list"
    /\ listing' = [listing EXCEPT ![l] =
                     IF \E e \in pool : e.electra # ExpectsElectra(l)
                        THEN [NoListing EXCEPT !.code = 500, !.read = TRUE]
                        ELSE [code |-> 200,
                              shown |-> {e \in pool : shouldIncludeAttestation(e.att.id, query[l])},
                              version |-> head, read |-> TRUE]]
    /\ lpc' = [lpc EXCEPT ![l] = "done"]
    /\ UNCHANGED <<head, lendpoint, query>>

(* The chain: the head moves on to the next fork. *)
AdvanceFork ==
    /\ head + 1 \in HeadForks
    /\ head' = head + 1
    /\ UNCHANGED <<lpc, lendpoint, query, listing>>

ListHandle(l) ==
    \/ ListReceive(l) \/ QueryError(l) \/ QueryParsed(l) \/ ListError(l) \/ List(l)

QNext ==
    \/ Next /\ UNCHANGED qVars
    \/ (\E l \in Lists : ListHandle(l)) /\ UNCHANGED vars
    \/ AdvanceFork /\ UNCHANGED vars

QSpec == QInit /\ [][QNext]_allVars

-----------------------------------------------------------------------------
(***************************************************************************)
(* A V2 query that got past its parameters and the head read is served     *)
(* (spec 4.9: the pool holds only the variant of the head fork; 8,         *)
(* scenario 5).                                                            *)
(***************************************************************************)
V2ListingServesPool ==
    \A l \in Lists : (lendpoint[l] = "v2" /\ listing[l].read) => listing[l].code = 200
=============================================================================
