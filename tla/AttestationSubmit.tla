-------------------------- MODULE AttestationSubmit --------------------------
(***************************************************************************)
(* The attestation ingestion pipeline of the beacon pool API:              *)
(* SubmitAttestations (POST /beacon/pool/attestations), SubmitAttestations *)
(* V2 (the same with an Eth-Consensus-Version header) and the two batch    *)
(* handlers handleAttestations / handleAttestationsElectra they call.      *)
(*                                                                         *)
(* Every request is a process.  It is received, checked at request level   *)
(* (header, body decode, empty batch), then runs Phase A (per item:        *)
(* ToConsensus and bls.SignatureFromBytes, failures collected by index)    *)
(* and Phase B (per surviving item: notify if unaggregated, look up the    *)
(* head validators, derive the committee index on the Electra path,        *)
(* broadcast, save to the pool), and finally writes one response.  One     *)
(* step of the model is one iteration of a loop of the handler.            *)
(*                                                                         *)
(* Indices are 1-based here; the code reports the same positions 0-based.  *)
(***************************************************************************)
EXTENDS Naturals, Sequences, FiniteSets

CONSTANTS
    Reqs,          \* the HTTP requests (model values)
    AttIds,        \* attestation identities (model values)
    MaxBatch,      \* the longest batch a request carries
    HeaderValues   \* Eth-Consensus-Version header values a client may send

ASSUME AttestationSubmitAssumption ==
    /\ IsFiniteSet(Reqs) /\ Reqs # {}
    /\ AttIds # {}
    /\ MaxBatch \in Nat \ {0}
    /\ HeaderValues \subseteq STRING

(***************************************************************************)
(* runtime/version: fork names in canonical order; FromString fails on an  *)
(* unknown name (modelled by DOMAIN).  Electra is the ordinal compared     *)
(* with ">= version.Electra".                                              *)
(***************************************************************************)
ForkOrdinal == [s \in {"phase0", "altair", "bellatrix", "capella", "deneb", "electra"} |->
                  CASE s = "phase0" -> 0 [] s = "altair" -> 1 [] s = "bellatrix" -> 2
                    [] s = "capella" -> 3 [] s = "deneb" -> 4 [] s = "electra" -> 5]
Electra == 5

(* r.Header.Get of an absent Eth-Consensus-Version header. *)
NoHeader == ""

(***************************************************************************)
(* A submitted attestation, abstracted to what the handlers branch on:     *)
(*   check  - "ok", or which Phase A check rejects it: "conv" when         *)
(*            ToConsensus fails, "sig" when SignatureFromBytes fails;      *)
(*   agg    - corehelpers.IsAggregated (more than one aggregation bit);    *)
(*   single - the committee bits name exactly one committee, so that       *)
(*            GetCommitteeIndex succeeds (read on the Electra path only).  *)
(***************************************************************************)
Items == [id: AttIds, check: {"ok", "conv", "sig"}, agg: BOOLEAN, single: BOOLEAN]

(* A request body: EOF, undecodable JSON, or a JSON array of attestations. *)
Bodies == [kind: {"eof", "malformed"}, atts: {<<>>}]
            \cup [kind: {"array"}, atts: UNION {[1..n -> Items] : n \in 0..MaxBatch}]

(* What the pool stores and the broadcaster sends: the consensus object,  *)
(* in its base or Electra variant.                                         *)
Entries == [att: Items, electra: BOOLEAN]

NoResponse == [code |-> 0, failures |-> {}, unbroadcast |-> {}]
Responses == [code: {200, 400, 500}, failures: SUBSET (1..MaxBatch),
              unbroadcast: SUBSET (1..MaxBatch)] \cup {NoResponse}

VARIABLES
    pc,          \* pc[r]: "idle", "start", "phaseA", "phaseB", "respond", "done"
    endpoint,    \* endpoint[r]: "v1" (SubmitAttestations) or "v2"
    header,      \* header[r]: the Eth-Consensus-Version header ("" if absent)
    body,        \* body[r]: the request body
    electra,     \* electra[r]: the handler is handleAttestationsElectra
    k,           \* k[r]: loop position of the current phase
    valid,       \* valid[r]: validAttestations, as positions in the batch
    attFailures, \* attFailures[r]: batch positions that failed Phase A
    failedBroadcasts, \* failedBroadcasts[r]: Phase B loop indices reported
    resp,        \* resp[r]: the response written
    pool,        \* AttestationsPool contents (aggregated and unaggregated)
    broadcast,   \* history: every entry the broadcaster accepted
    notified,    \* history: every entry sent on the operation feed
    sent         \* history: sent[r], batch positions of r broadcast successfully

reqVars == <<pc, endpoint, header, body, electra, k, valid, attFailures,
             failedBroadcasts, resp>>
vars == <<reqVars, pool, broadcast, notified, sent>>

Batch(r) == body[r].atts
EntryOf(r, i) == [att |-> Batch(r)[i], electra |-> electra[r]]

TypeOK ==
    /\ pc \in [Reqs -> {"idle", "start", "phaseA", "phaseB", "respond", "done"}]
    /\ endpoint \in [Reqs -> {"v1", "v2"}]
    /\ header \in [Reqs -> HeaderValues \cup {NoHeader}]
    /\ body \in [Reqs -> Bodies]
    /\ electra \in [Reqs -> BOOLEAN]
    /\ k \in [Reqs -> 1..(MaxBatch + 1)]
    /\ valid \in [Reqs -> Seq(1..MaxBatch)]
    /\ attFailures \in [Reqs -> SUBSET (1..MaxBatch)]
    /\ failedBroadcasts \in [Reqs -> SUBSET (1..MaxBatch)]
    /\ resp \in [Reqs -> Responses]
    /\ pool \subseteq Entries
    /\ broadcast \subseteq Entries
    /\ notified \subseteq Entries
    /\ sent \in [Reqs -> SUBSET (1..MaxBatch)]

Init ==
    /\ pc = [r \in Reqs |-> "idle"]
    /\ endpoint = [r \in Reqs |-> "v1"]
    /\ header = [r \in Reqs |-> NoHeader]
    /\ body = [r \in Reqs |-> [kind |-> "eof", atts |-> <<>>]]
    /\ electra = [r \in Reqs |-> FALSE]
    /\ k = [r \in Reqs |-> 1]
    /\ valid = [r \in Reqs |-> <<>>]
    /\ attFailures = [r \in Reqs |-> {}]
    /\ failedBroadcasts = [r \in Reqs |-> {}]
    /\ resp = [r \in Reqs |-> NoResponse]
    /\ pool = {}
    /\ broadcast = {}
    /\ notified = {}
    /\ sent = [r \in Reqs |-> {}]

(* A client sends a request to one of the two endpoints. *)
Receive(r) ==
    /\ pc[r] = "idle"
    /\ \E ep \in {"v1", "v2"}, h \in HeaderValues \cup {NoHeader}, b \in Bodies :
          /\ endpoint' = [endpoint EXCEPT ![r] = ep]
          /\ header' = [header EXCEPT ![r] = IF ep = "v1" THEN NoHeader ELSE h]
          /\ body' = [body EXCEPT ![r] = b]
    /\ pc' = [pc EXCEPT ![r] = "start"]
    /\ UNCHANGED <<electra, k, valid, attFailures, failedBroadcasts, resp,
                   pool, broadcast, notified, sent>>

(* The request-level checks, in the order the handlers make them: the     *)
(* V2 header is present and a known fork, the body decodes, the batch     *)
(* unmarshals and is non-empty.                                           *)
RequestError(r) ==
    \/ endpoint[r] = "v2" /\ header[r] = NoHeader
    \/ endpoint[r] = "v2" /\ header[r] \notin DOMAIN ForkOrdinal
    \/ body[r].kind # "array"
    \/ Len(Batch(r)) = 0

(* The request is rejected before any item is looked at: 400. *)
Reject(r) ==
    /\ pc[r] = "start"
    /\ RequestError(r)
    /\ resp' = [resp EXCEPT ![r] = [NoResponse EXCEPT !.code = 400]]
    /\ pc' = [pc EXCEPT ![r] = "done"]
    /\ UNCHANGED <<endpoint, header, body, electra, k, valid, attFailures,
                   failedBroadcasts, pool, broadcast, notified, sent>>

(* Variant: the loop index starts at 0, as a 0-based port would set it. *)
AcceptFromZero(r) ==
    /\ pc[r] = "start"
    /\ ~RequestError(r)
    /\ electra' = [electra EXCEPT ![r] =
                     endpoint[r] = "v2" /\ ForkOrdinal[header[r]] >= Electra]
    /\ pc' = [pc EXCEPT ![r] = "phaseA"]
    /\ k' = [k EXCEPT ![r] = 0]
    /\ UNCHANGED <<endpoint, header, body, valid, attFailures,
                   failedBroadcasts, resp, pool, broadcast, notified, sent>>

(* The handler is chosen: the Electra one iff the header names a fork at  *)
(* or after Electra.                                                      *)
Accept(r) ==
    /\ pc[r] = "start"
    /\ ~RequestError(r)
    /\ electra' = [electra EXCEPT ![r] =
                     endpoint[r] = "v2" /\ ForkOrdinal[header[r]] >= Electra]
    /\ pc' = [pc EXCEPT ![r] = "phaseA"]
    /\ k' = [k EXCEPT ![r] = 1]
    /\ UNCHANGED <<endpoint, header, body, valid, attFailures,
                   failedBroadcasts, resp, pool, broadcast, notified, sent>>

(* One iteration of the Phase A loop: the item converts and its signature *)
(* parses, or its position is recorded as a failure and the loop goes on. *)
PhaseA(r) ==
    /\ pc[r] = "phaseA"
    /\ k[r] <= Len(Batch(r))
    /\ IF Batch(r)[k[r]].check = "ok"
          THEN /\ valid' = [valid EXCEPT ![r] = Append(@, k[r])]
               /\ UNCHANGED attFailures
          ELSE /\ attFailures' = [attFailures EXCEPT ![r] = @ \cup {k[r]}]
               /\ UNCHANGED valid
    /\ k' = [k EXCEPT ![r] = @ + 1]
    /\ UNCHANGED <<pc, endpoint, header, body, electra, failedBroadcasts,
                   resp, pool, broadcast, notified, sent>>

PhaseAEnd(r) ==
    /\ pc[r] = "phaseA"
    /\ k[r] > Len(Batch(r))
    /\ pc' = [pc EXCEPT ![r] = "phaseB"]
    /\ k' = [k EXCEPT ![r] = 1]
    /\ UNCHANGED <<endpoint, header, body, electra, valid, attFailures,
                   failedBroadcasts, resp, pool, broadcast, notified, sent>>

(***************************************************************************)
(* One iteration of the Phase B loop over validAttestations.  Every        *)
(* iteration first sends UnaggregatedAttReceived on the operation feed if  *)
(* the item is unaggregated; then one of the outcomes below happens.       *)
(***************************************************************************)
(* Variant: the feed event is sent for aggregated attestations too. *)
FeedEventAll(r, e) ==
    notified' = notified \cup {e}

FeedEvent(r, e) ==
    notified' = IF e.att.agg THEN notified ELSE notified \cup {e}

(* HeadValidatorsIndices fails: the loop index is reported, next item. *)
NoValidators(r, i, e) ==
    /\ failedBroadcasts' = [failedBroadcasts EXCEPT ![r] = @ \cup {k[r]}]
    /\ k' = [k EXCEPT ![r] = @ + 1]
    /\ UNCHANGED <<pc, resp, pool, broadcast, sent>>

(* Electra only: GetCommitteeIndex fails, the handler returns an error   *)
(* and the endpoint answers 400 with neither list.                       *)
NoCommitteeIndex(r, i, e) ==
    /\ electra[r] /\ ~e.att.single
    /\ resp' = [resp EXCEPT ![r] = [NoResponse EXCEPT !.code = 400]]
    /\ pc' = [pc EXCEPT ![r] = "done"]
    /\ UNCHANGED <<k, failedBroadcasts, pool, broadcast, sent>>

(* BroadcastAttestation fails: the loop index is reported and the item   *)
(* is not saved.                                                         *)
BroadcastFails(r, i, e) ==
    /\ ~electra[r] \/ e.att.single
    /\ failedBroadcasts' = [failedBroadcasts EXCEPT ![r] = @ \cup {k[r]}]
    /\ k' = [k EXCEPT ![r] = @ + 1]
    /\ UNCHANGED <<pc, resp, pool, broadcast, sent>>

(* Variant: the Electra path saves without having derived the committee *)
(* index.                                                                *)
DeliveredNoCommitteeCheck(r, i, e) ==
    /\ broadcast' = broadcast \cup {e}
    /\ \E saved \in BOOLEAN : pool' = IF saved THEN pool \cup {e} ELSE pool
    /\ sent' = [sent EXCEPT ![r] = @ \cup {i}]
    /\ k' = [k EXCEPT ![r] = @ + 1]
    /\ UNCHANGED <<pc, resp, failedBroadcasts>>

(* The broadcast succeeds, then SaveAggregatedAttestation or             *)
(* SaveUnaggregatedAttestation; a failed save is only logged.            *)
Delivered(r, i, e) ==
    /\ ~electra[r] \/ e.att.single
    /\ broadcast' = broadcast \cup {e}
    /\ \E saved \in BOOLEAN : pool' = IF saved THEN pool \cup {e} ELSE pool
    /\ sent' = [sent EXCEPT ![r] = @ \cup {i}]
    /\ k' = [k EXCEPT ![r] = @ + 1]
    /\ UNCHANGED <<pc, resp, failedBroadcasts>>

PhaseB(r) ==
    /\ pc[r] = "phaseB"
    /\ k[r] <= Len(valid[r])
    /\ LET i == valid[r][k[r]]
           e == EntryOf(r, i)
       IN /\ FeedEvent(r, e)
          /\ \/ NoValidators(r, i, e)
             \/ NoCommitteeIndex(r, i, e)
             \/ BroadcastFails(r, i, e)
             \/ Delivered(r, i, e)
    /\ UNCHANGED <<endpoint, header, body, electra, valid, attFailures>>

PhaseBEnd(r) ==
    /\ pc[r] = "phaseB"
    /\ k[r] > Len(valid[r])
    /\ pc' = [pc EXCEPT ![r] = "respond"]
    /\ UNCHANGED <<endpoint, header, body, electra, k, valid, attFailures,
                   failedBroadcasts, resp, pool, broadcast, notified, sent>>

(* Variant: the Phase A failures are answered before the broadcast ones. *)
RespondSwapped(r) ==
    /\ pc[r] = "respond"
    /\ resp' = [resp EXCEPT ![r] =
          IF attFailures[r] # {}
            THEN [code |-> 400, failures |-> attFailures[r], unbroadcast |-> {}]
          ELSE IF failedBroadcasts[r] # {}
            THEN [code |-> 500, failures |-> {}, unbroadcast |-> failedBroadcasts[r]]
          ELSE [code |-> 200, failures |-> {}, unbroadcast |-> {}]]
    /\ pc' = [pc EXCEPT ![r] = "done"]
    /\ UNCHANGED <<endpoint, header, body, electra, k, valid, attFailures,
                   failedBroadcasts, pool, broadcast, notified, sent>>

(* Variant: the Phase A failures are never written, so the answer is an *)
(* implicit 200.                                                          *)
RespondNoFailureList(r) ==
    /\ pc[r] = "respond"
    /\ resp' = [resp EXCEPT ![r] =
          IF failedBroadcasts[r] # {}
            THEN [code |-> 500, failures |-> {}, unbroadcast |-> failedBroadcasts[r]]
          ELSE [code |-> 200, failures |-> {}, unbroadcast |-> {}]]
    /\ pc' = [pc EXCEPT ![r] = "done"]
    /\ UNCHANGED <<endpoint, header, body, electra, k, valid, attFailures,
                   failedBroadcasts, pool, broadcast, notified, sent>>

(* The endpoint's response: any broadcast failure gives 500 with the     *)
(* reported indices; otherwise Phase A failures give 400 with the list;  *)
(* otherwise 200.                                                        *)
Respond(r) ==
    /\ pc[r] = "respond"
    /\ resp' = [resp EXCEPT ![r] =
          IF failedBroadcasts[r] # {}
            THEN [code |-> 500, failures |-> {}, unbroadcast |-> failedBroadcasts[r]]
          ELSE IF attFailures[r] # {}
            THEN [code |-> 400, failures |-> attFailures[r], unbroadcast |-> {}]
          ELSE [code |-> 200, failures |-> {}, unbroadcast |-> {}]]
    /\ pc' = [pc EXCEPT ![r] = "done"]
    /\ UNCHANGED <<endpoint, header, body, electra, k, valid, attFailures,
                   failedBroadcasts, pool, broadcast, notified, sent>>

(* Everything a handler does once its request has arrived. *)
Handle(r) ==
    \/ Reject(r) \/ Accept(r)
    \/ PhaseA(r) \/ PhaseAEnd(r)
    \/ PhaseB(r) \/ PhaseBEnd(r) \/ Respond(r)

Next == \E r \in Reqs : Receive(r) \/ Handle(r)

(* Safety only: no fairness is assumed (see the README). *)
Spec == Init /\ [][Next]_vars

-----------------------------------------------------------------------------
(* Positions of r's batch that fail, and that pass, Phase A. *)
PhaseAFailed(r) == {i \in 1..Len(Batch(r)) : Batch(r)[i].check # "ok"}
PhaseAPassed(r) == {i \in 1..Len(Batch(r)) : Batch(r)[i].check = "ok"}

(***************************************************************************)
(* Pool admission (spec invariant 1, as handleAttestations* realise it):   *)
(* an attestation in the pool passed Phase A, was accepted by the          *)
(* broadcaster, was announced on the operation feed if unaggregated, and,  *)
(* in its Electra form, has a derivable committee index.  Breaking it      *)
(* takes a save reordered before the broadcast or the committee-index      *)
(* check, or a skipped feed send.                                          *)
(***************************************************************************)
PoolAdmission ==
    \A e \in pool :
        /\ e.att.check = "ok"
        /\ e \in broadcast
        /\ ~e.att.agg => e \in notified
        /\ e.electra => e.att.single

(***************************************************************************)
(* Batch accounting (spec: "no silent drops", "partial success"): a 200    *)
(* answers a batch whose every item passed Phase A and was broadcast; a    *)
(* 400 with a failure list lists exactly the Phase A failures and every    *)
(* other item was broadcast; a 500 reports as many indices as there are    *)
(* Phase A survivors that were not broadcast, and at least one.            *)
(***************************************************************************)
BatchAccounting ==
    \A r \in Reqs : pc[r] = "done" =>
        /\ resp[r].code = 200 =>
              PhaseAFailed(r) = {} /\ sent[r] = PhaseAPassed(r)
        /\ (resp[r].code = 400 /\ resp[r].failures # {}) =>
              resp[r].failures = PhaseAFailed(r) /\ sent[r] = PhaseAPassed(r)
        /\ resp[r].code = 500 =>
              /\ PhaseAPassed(r) \ sent[r] # {}
              /\ Cardinality(resp[r].unbroadcast) = Cardinality(PhaseAPassed(r) \ sent[r])

(***************************************************************************)
(* The indices of "Attestations at index %s could not be broadcasted" are  *)
(* positions in the submitted batch, as the per-index failures are (spec   *)
(* 4.7: broadcast failure records an entry "by index").  The code reports  *)
(* the position in validAttestations instead.                              *)
(***************************************************************************)
FailedBroadcastIndicesAreBatchPositions ==
    \A r \in Reqs : (pc[r] = "done" /\ resp[r].code = 500) =>
        resp[r].unbroadcast = PhaseAPassed(r) \ sent[r]

(***************************************************************************)
(* Spec 4.7 and 7: an item whose broadcast fails "proceeds to pool         *)
(* insertion anyway".  As an action: a Phase B step that records a failed  *)
(* broadcast for an item leaves that item in the pool.                     *)
(***************************************************************************)
BroadcastFailureStillPooled ==
    [][\A r \in Reqs :
         (/\ pc[r] = "phaseB" /\ k[r] <= Len(valid[r])
          /\ failedBroadcasts'[r] # failedBroadcasts[r])
         => EntryOf(r, valid[r][k[r]]) \in pool']_vars

(***************************************************************************)
(* Refinement: the pool, the broadcaster's record and the feed evolve as   *)
(* AttestationAdmission allows.  Every Phase B iteration is an Announce    *)
(* (the feed send of an item whose broadcast then fails, or whose          *)
(* committee index cannot be derived) or a Publish (Delivered); every      *)
(* other step leaves the three unchanged.                                  *)
(***************************************************************************)
Admission == INSTANCE AttestationAdmission

ImplementsAdmission == Admission!Spec
=============================================================================
