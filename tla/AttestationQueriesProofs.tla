----------------------- MODULE AttestationQueriesProofs -----------------------
(***************************************************************************)
(* Proofs about AttestationQueries for every value of its constants: the  *)
(* composed system of submissions, queries and the chain is well typed.   *)
(***************************************************************************)
EXTENDS AttestationQueries, AttestationSubmitProofs

(* The submission side's inductive invariant and the composed type. *)
QInv == IInv /\ QTypeOK

-----------------------------------------------------------------------------
USE AttestationQueriesAssumption

(* Every listing the query steps write is a listing. *)
LEMMA NoListingType ==
    /\ NoListing \in Listings
    /\ [NoListing EXCEPT !.code = 400] \in Listings
    /\ [NoListing EXCEPT !.code = 500] \in Listings
    /\ [NoListing EXCEPT !.code = 500, !.read = TRUE] \in Listings
<1>1. NoListing \in Listings
  BY DEF NoListing, Listings
<1>2. \A c \in {400, 500} : [NoListing EXCEPT !.code = c] \in Listings
  BY Zenon DEF NoListing, Listings
<1>3. ASSUME NEW y, y = [NoListing EXCEPT !.code = 500]
      PROVE  [y EXCEPT !.read = TRUE] \in Listings
  <2> DEFINE Failed == [code: {500}, shown: {{}}, version: {0}, read: BOOLEAN]
  <2>1. y \in Failed
    BY <1>3, Zenon DEF NoListing
  <2>2. [y EXCEPT !.read = TRUE] \in Failed
    BY <2>1, Zenon
  <2>3. Failed \subseteq Listings
    BY DEF Listings
  <2>. QED  BY <2>2, <2>3
<1>4. [NoListing EXCEPT !.code = 500, !.read = TRUE] \in Listings
  BY <1>3, Zenon
<1>. QED  BY <1>1, <1>2, <1>4

(* The two absent parameters of a fresh query form a query. *)
LEMMA AbsentQuery == [slot |-> Absent, committee |-> Absent] \in Queries
  BY DEF Absent, Params, Queries

THEOREM InitQInv == QInit => QInv
<1> SUFFICES ASSUME QInit PROVE QInv
  OBVIOUS
<1>1. IInv
  BY InitIInv DEF QInit
<1>2. QTypeOK
  BY <1>1, NoListingType, AbsentQuery DEF QInit, QTypeOK, IInv
<1>. QED  BY <1>1, <1>2 DEF QInv

(* The status codes of the listings the error steps write. *)
LEMMA NoListingCodes ==
    /\ [NoListing EXCEPT !.code = 400].code = 400
    /\ [NoListing EXCEPT !.code = 500].code = 500
    /\ [NoListing EXCEPT !.code = 500, !.read = TRUE].code = 500
  BY Zenon DEF NoListing

(* Writing a listing and a step label for l keeps the composed type.      *)
LEMMA ListingWrite ==
    ASSUME QTypeOK, NEW l \in Lists, NEW L \in Listings,
           NEW p \in {"idle", "query", "list", "done"},
           lpc' = [lpc EXCEPT ![l] = p],
           listing' = [listing EXCEPT ![l] = L] \/ listing' = listing,
           UNCHANGED <<head, lendpoint>>, query' \in [Lists -> Queries],
           UNCHANGED vars
    PROVE  QTypeOK'
<1>1. TypeOK'
  BY DEF QTypeOK, TypeOK, vars, reqVars
<1>. QED  BY <1>1 DEF QTypeOK

(* The List step writes a 500 or a 200 listing of filtered pool entries. *)
LEMMA ListQInv ==
    ASSUME QInv, NEW l \in Lists, List(l), UNCHANGED vars
    PROVE  QTypeOK'
<1>0. /\ lpc \in [Lists -> {"idle", "query", "list", "done"}]
      /\ listing \in [Lists -> Listings]
      /\ query \in [Lists -> Queries]
      /\ pool \subseteq Entries /\ head \in HeadForks
      /\ QTypeOK
  BY DEF QInv, QTypeOK, TypeOK
<1>1. /\ lpc' = [lpc EXCEPT ![l] = "done"]
      /\ UNCHANGED <<head, lendpoint, query, pool>>
  BY DEF List, vars
<1>2. CASE \E e \in pool : e.electra # ExpectsElectra(l)
  <2>0. PICK L : L = [NoListing EXCEPT !.code = 500, !.read = TRUE]
    OBVIOUS
  <2>1. listing' = [listing EXCEPT ![l] = L]
    BY <1>2, <2>0 DEF List
  <2>2. L \in Listings /\ L.code = 500
    BY <2>0, NoListingType, NoListingCodes, Zenon
  <2>. QED  BY <1>0, <1>1, <2>1, <2>2, ListingWrite
<1>3. CASE ~\E e \in pool : e.electra # ExpectsElectra(l)
  <2>0. PICK L : L = [code |-> 200,
                      shown |-> {e \in pool : shouldIncludeAttestation(e.att.id, query[l])},
                      version |-> head, read |-> TRUE]
    OBVIOUS
  <2>1. listing' = [listing EXCEPT ![l] = L]
    BY <1>3, <2>0 DEF List
  <2>2. L \in Listings
    BY <1>0, <2>0, AttestationQueriesAssumption DEF Listings
  <2>. QED  BY <1>0, <1>1, <2>1, <2>2, ListingWrite
<1>. QED  BY <1>2, <1>3

(***************************************************************************)
(* Every step of a query keeps the composed type: ListReceive writes a     *)
(* query, the error steps write 400 or 500 listings, QueryParsed moves the *)
(* label only.                                                             *)
(***************************************************************************)
LEMMA ListHandleQInv ==
    ASSUME QInv, NEW l \in Lists, ListHandle(l), UNCHANGED vars
    PROVE  QTypeOK'
<1>0. /\ lpc \in [Lists -> {"idle", "query", "list", "done"}]
      /\ listing \in [Lists -> Listings]
      /\ query \in [Lists -> Queries]
      /\ QTypeOK
  BY DEF QInv, QTypeOK
<1>1. CASE ListReceive(l)
  <2>1. PICK q \in Queries : query' = [query EXCEPT ![l] = q]
    BY <1>1 DEF ListReceive
  <2>2. /\ lpc[l] = "idle"
        /\ lpc' = [lpc EXCEPT ![l] = "query"]
        /\ UNCHANGED <<head, lendpoint, listing>>
    BY <1>1 DEF ListReceive
  <2>. QED  BY <1>0, <2>1, <2>2, ListingWrite
<1>2. CASE QueryError(l)
  <2>1. PICK L : L = [NoListing EXCEPT !.code = 400]
    OBVIOUS
  <2>2. L \in Listings /\ L.code = 400
    BY <2>1, NoListingType, NoListingCodes, Zenon
  <2>3. /\ listing' = [listing EXCEPT ![l] = L]
        /\ lpc' = [lpc EXCEPT ![l] = "done"]
        /\ UNCHANGED <<head, lendpoint, query>>
    BY <1>2, <2>1 DEF QueryError
  <2>. QED  BY <1>0, <2>2, <2>3, ListingWrite
<1>5. CASE ListError(l)
  <2>1. PICK L : L = [NoListing EXCEPT !.code = 500]
    OBVIOUS
  <2>2. L \in Listings /\ L.code = 500
    BY <2>1, NoListingType, NoListingCodes, Zenon
  <2>3. /\ listing' = [listing EXCEPT ![l] = L]
        /\ lpc' = [lpc EXCEPT ![l] = "done"]
        /\ UNCHANGED <<head, lendpoint, query>>
    BY <1>5, <2>1 DEF ListError
  <2>. QED  BY <1>0, <2>2, <2>3, ListingWrite
<1>3. CASE QueryParsed(l)
  <2>1. /\ lpc[l] = "query"
        /\ lpc' = [lpc EXCEPT ![l] = "list"]
        /\ UNCHANGED <<head, lendpoint, query, listing>>
    BY <1>3 DEF QueryParsed
  <2>. QED  BY <1>0, <2>1, ListingWrite
<1>4. CASE List(l)
  BY <1>4, ListQInv
<1>. QED  BY <1>1, <1>2, <1>3, <1>4, <1>5 DEF ListHandle

THEOREM NextQInv == QInv /\ [QNext]_allVars => QInv'
<1> SUFFICES ASSUME QInv, [QNext]_allVars PROVE QInv'
  OBVIOUS
<1>0. IInv /\ QTypeOK
  BY DEF QInv
(* The submission side, alone or frozen, keeps IInv by NextIInv. *)
<1>1. IInv'
  <2>1. [Next]_vars
    BY DEF QNext, allVars, ListHandle, AdvanceFork
  <2>. QED  BY <1>0, <2>1, NextIInv
<1>2. TypeOK'
  BY <1>1 DEF IInv
<1>3. CASE Next /\ UNCHANGED qVars
  <2>1. QTypeOK'
    BY <1>0, <1>2, <1>3 DEF QTypeOK, qVars
  <2>. QED  BY <1>1, <2>1 DEF QInv
<1>4. CASE \E l \in Lists : ListHandle(l) /\ UNCHANGED vars
  BY <1>1, <1>4, ListHandleQInv DEF QInv
<1>5. CASE AdvanceFork /\ UNCHANGED vars
  <2>1. QTypeOK'
    BY <1>0, <1>2, <1>5 DEF QTypeOK, AdvanceFork
  <2>. QED  BY <1>1, <2>1 DEF QInv
<1>6. CASE UNCHANGED allVars
  <2>1. QTypeOK'
    BY <1>0, <1>2, <1>6 DEF QTypeOK, allVars, qVars
  <2>. QED  BY <1>1, <2>1 DEF QInv
<1>. QED  BY <1>3, <1>4, <1>5, <1>6 DEF QNext

THEOREM QInvHolds == QSpec => []QInv
  BY InitQInv, NextQInv, PTL DEF QSpec

(***************************************************************************)
(* The composed system is well typed for every number of queries and      *)
(* requests: the query handlers' labels, parameters and listings, and the *)
(* head, as ListAttestations(V2) and the chain move them.                 *)
(***************************************************************************)
THEOREM QTypeCorrect == QSpec => []QTypeOK
<1>1. QInv => QTypeOK
  BY DEF QInv
<1>. QED  BY <1>1, QInvHolds, PTL
=============================================================================
