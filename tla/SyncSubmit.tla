------------------------------ MODULE SyncSubmit ------------------------------
(***************************************************************************)
(* SubmitSyncCommitteeSignatures (POST /beacon/pool/sync_committees).      *)
(*                                                                         *)
(* The handler decodes a batch of sync committee messages, converts each   *)
(* with ToConsensus (collecting the failures by index and going on), then  *)
(* hands every converted message to CoreService.SubmitSyncMessage in       *)
(* order.  The first submission error is answered with the status its      *)
(* reason maps to and ends the handler; otherwise the collected conversion *)
(* failures are answered 400, or nothing is written (200).  One step of    *)
(* the model is one iteration of a loop.  Positions are 1-based here and   *)
(* 0-based in the code.                                                    *)
(***************************************************************************)
EXTENDS Naturals, Sequences, FiniteSets

CONSTANTS
    Reqs,      \* the HTTP requests (model values)
    MaxBatch   \* the longest batch a request carries

ASSUME SyncSubmitAssumption ==
    /\ IsFiniteSet(Reqs) /\ Reqs # {}
    /\ MaxBatch \in Nat \ {0}

(***************************************************************************)
(* A request body: EOF, undecodable JSON, or an array of messages, each    *)
(* abstracted to whether its ToConsensus succeeds.                         *)
(***************************************************************************)
Bodies == [kind: {"eof", "malformed"}, msgs: {<<>>}]
            \cup [kind: {"array"}, msgs: UNION {[1..n -> BOOLEAN] : n \in 0..MaxBatch}]

(* core.ErrorReasonToHTTP of the reasons SubmitSyncMessage returns. *)
SubmitErrorCodes == {400, 500, 503}

NoResponse == [code |-> 0, failures |-> {}]
Responses == [code: {200, 400} \cup SubmitErrorCodes, failures: SUBSET (1..MaxBatch)]
               \cup {NoResponse}

VARIABLES
    pc,            \* pc[r]: "idle", "start", "convert", "submit", "done"
    body,          \* body[r]: the request body
    k,             \* k[r]: loop position of the current loop
    validMessages, \* validMessages[r]: positions of the converted messages
    msgFailures,   \* msgFailures[r]: positions whose conversion failed
    resp,          \* resp[r]: the response written
    submitted      \* history: <<r, i>> for every message handed to SubmitSyncMessage

vars == <<pc, body, k, validMessages, msgFailures, resp, submitted>>

Msgs(r) == body[r].msgs

TypeOK ==
    /\ pc \in [Reqs -> {"idle", "start", "convert", "submit", "done"}]
    /\ body \in [Reqs -> Bodies]
    /\ k \in [Reqs -> 1..(MaxBatch + 1)]
    /\ validMessages \in [Reqs -> Seq(1..MaxBatch)]
    /\ msgFailures \in [Reqs -> SUBSET (1..MaxBatch)]
    /\ resp \in [Reqs -> Responses]
    /\ submitted \subseteq Reqs \X (1..MaxBatch)

Init ==
    /\ pc = [r \in Reqs |-> "idle"]
    /\ body = [r \in Reqs |-> [kind |-> "eof", msgs |-> <<>>]]
    /\ k = [r \in Reqs |-> 1]
    /\ validMessages = [r \in Reqs |-> <<>>]
    /\ msgFailures = [r \in Reqs |-> {}]
    /\ resp = [r \in Reqs |-> NoResponse]
    /\ submitted = {}

(* A client sends a batch. *)
Receive(r) ==
    /\ pc[r] = "idle"
    /\ \E b \in Bodies : body' = [body EXCEPT ![r] = b]
    /\ pc' = [pc EXCEPT ![r] = "start"]
    /\ UNCHANGED <<k, validMessages, msgFailures, resp, submitted>>

(* Decode gives io.EOF or an error, or the batch is empty: 400. *)
RequestError(r) ==
    /\ pc[r] = "start"
    /\ body[r].kind # "array" \/ Len(Msgs(r)) = 0
    /\ resp' = [resp EXCEPT ![r] = [NoResponse EXCEPT !.code = 400]]
    /\ pc' = [pc EXCEPT ![r] = "done"]
    /\ UNCHANGED <<body, k, validMessages, msgFailures, submitted>>

(* Mutant: the conversion loop starts at position 0. *)
AcceptFromZero(r) ==
    /\ pc[r] = "start"
    /\ body[r].kind = "array" /\ Len(Msgs(r)) > 0
    /\ pc' = [pc EXCEPT ![r] = "convert"]
    /\ k' = [k EXCEPT ![r] = 0]
    /\ UNCHANGED <<body, validMessages, msgFailures, resp, submitted>>

Accept(r) ==
    /\ pc[r] = "start"
    /\ body[r].kind = "array" /\ Len(Msgs(r)) > 0
    /\ pc' = [pc EXCEPT ![r] = "convert"]
    /\ k' = [k EXCEPT ![r] = 1]
    /\ UNCHANGED <<body, validMessages, msgFailures, resp, submitted>>

(* One iteration of the conversion loop: a failure is recorded and the     *)
(* loop continues; a converted message joins validMessages.                *)
Convert(r) ==
    /\ pc[r] = "convert"
    /\ k[r] <= Len(Msgs(r))
    /\ IF Msgs(r)[k[r]]
          THEN /\ validMessages' = [validMessages EXCEPT ![r] = Append(@, k[r])]
               /\ UNCHANGED msgFailures
          ELSE /\ msgFailures' = [msgFailures EXCEPT ![r] = @ \cup {k[r]}]
               /\ UNCHANGED validMessages
    /\ k' = [k EXCEPT ![r] = @ + 1]
    /\ UNCHANGED <<pc, body, resp, submitted>>

ConvertEnd(r) ==
    /\ pc[r] = "convert"
    /\ k[r] > Len(Msgs(r))
    /\ pc' = [pc EXCEPT ![r] = "submit"]
    /\ k' = [k EXCEPT ![r] = 1]
    /\ UNCHANGED <<body, validMessages, msgFailures, resp, submitted>>

(* Mutant: the submission loop ranges over the whole batch. *)
SubmitAll(r) ==
    /\ pc[r] = "submit"
    /\ k[r] <= Len(Msgs(r))
    /\ submitted' = submitted \cup {<<r, k[r]>>}
    /\ k' = [k EXCEPT ![r] = @ + 1]
    /\ UNCHANGED <<pc, body, validMessages, msgFailures, resp>>

(* SubmitSyncMessage accepts the next converted message. *)
Submit(r) ==
    /\ pc[r] = "submit"
    /\ k[r] <= Len(validMessages[r])
    /\ submitted' = submitted \cup {<<r, validMessages[r][k[r]]>>}
    /\ k' = [k EXCEPT ![r] = @ + 1]
    /\ UNCHANGED <<pc, body, validMessages, msgFailures, resp>>

(* SubmitSyncMessage fails: HandleError with the status of its reason, and *)
(* return; the conversion failures collected so far are not reported.      *)
SubmitError(r) ==
    /\ pc[r] = "submit"
    /\ k[r] <= Len(validMessages[r])
    /\ \E c \in SubmitErrorCodes : resp' = [resp EXCEPT ![r] = [NoResponse EXCEPT !.code = c]]
    /\ pc' = [pc EXCEPT ![r] = "done"]
    /\ UNCHANGED <<body, k, validMessages, msgFailures, submitted>>

(* Mutant: the conversion failures are not checked at the end. *)
RespondNoFailureCheck(r) ==
    /\ pc[r] = "submit"
    /\ k[r] > Len(validMessages[r])
    /\ resp' = [resp EXCEPT ![r] = [NoResponse EXCEPT !.code = 200]]
    /\ pc' = [pc EXCEPT ![r] = "done"]
    /\ UNCHANGED <<body, k, validMessages, msgFailures, submitted>>

(* Every converted message was submitted: the failures are answered 400,   *)
(* or nothing is written (200).                                            *)
Respond(r) ==
    /\ pc[r] = "submit"
    /\ k[r] > Len(validMessages[r])
    /\ resp' = [resp EXCEPT ![r] =
                  IF msgFailures[r] # {}
                     THEN [code |-> 400, failures |-> msgFailures[r]]
                     ELSE [NoResponse EXCEPT !.code = 200]]
    /\ pc' = [pc EXCEPT ![r] = "done"]
    /\ UNCHANGED <<body, k, validMessages, msgFailures, submitted>>

Handle(r) ==
    \/ Receive(r) \/ RequestError(r) \/ Accept(r)
    \/ Convert(r) \/ ConvertEnd(r)
    \/ Submit(r) \/ SubmitError(r) \/ Respond(r)

Next == \E r \in Reqs : Handle(r)

(* Safety only: no fairness is assumed (see the README). *)
Spec == Init /\ [][Next]_vars

-----------------------------------------------------------------------------
(***************************************************************************)
(* Only messages that converted reach SubmitSyncMessage, and a request     *)
(* answered 200 had every message of its batch converted and submitted.    *)
(***************************************************************************)
SubmittedOnlyConverted ==
    \A r \in Reqs, i \in 1..MaxBatch :
        <<r, i>> \in submitted => i \in DOMAIN Msgs(r) /\ Msgs(r)[i]

SuccessMeansAllSubmitted ==
    \A r \in Reqs :
        resp[r].code = 200 => \A i \in DOMAIN Msgs(r) : <<r, i>> \in submitted

(***************************************************************************)
(* Every message whose conversion failed is reported, by index, in the     *)
(* response (spec 7, ConsensusConversion: 400 per index for batches; 8,    *)
(* no silent drops).                                                       *)
(***************************************************************************)
ConversionFailuresReported ==
    \A r \in Reqs : pc[r] = "done" => msgFailures[r] = resp[r].failures
=============================================================================
