---------------------- MODULE AttestationSubmitProofs ----------------------
(***************************************************************************)
(* Proofs about AttestationSubmit for every value of its constants.        *)
(***************************************************************************)
EXTENDS AttestationSubmit, SequenceTheorems, TLAPS

(***************************************************************************)
(* Where a request's loop stands relative to its batch: the survivors of   *)
(* Phase A are listed in order among the positions already scanned, each   *)
(* is a position of the batch that passed Phase A, and Phase B never runs  *)
(* past the survivors.  Pool admission needs the last two facts: an item   *)
(* Phase B saves is a Phase A survivor.                                    *)
(***************************************************************************)
LoopShape(r) ==
    /\ pc[r] \in {"idle", "start"} => valid[r] = <<>>
    /\ pc[r] = "phaseA" => /\ k[r] <= Len(Batch(r)) + 1
                           /\ Len(valid[r]) < k[r]
    /\ pc[r] \in {"phaseB", "respond"} => /\ Len(valid[r]) <= Len(Batch(r))
                                         /\ k[r] <= Len(valid[r]) + 1
    /\ \A j \in 1..Len(valid[r]) :
          /\ valid[r][j] \in 1..Len(Batch(r))
          /\ Batch(r)[valid[r][j]].check = "ok"

(***************************************************************************)
(* The inductive invariant: the state is well typed, every request's      *)
(* Phase A/Phase B loop is in the shape above, and the pool holds only     *)
(* admitted attestations.  PoolAdmission alone is not inductive: a Phase B *)
(* step of the handler saves validAttestations[i], and only LoopShape says *)
(* that this item passed ToConsensus and SignatureFromBytes.               *)
(***************************************************************************)
IInv == TypeOK /\ (\A r \in Reqs : LoopShape(r)) /\ PoolAdmission

-----------------------------------------------------------------------------
USE AttestationSubmitAssumption

(* A body's batch is a sequence of at most MaxBatch items. *)
LEMMA BodyBatch ==
    ASSUME NEW b \in Bodies
    PROVE  b.atts \in Seq(Items) /\ Len(b.atts) <= MaxBatch
<1>1. CASE b \in [kind: {"eof", "malformed"}, atts: {<<>>}]
  <2>1. b.atts = <<>>
    BY <1>1
  <2>2. <<>> \in Seq(Items) /\ Len(<<>>) = 0
    BY EmptySeq
  <2>. QED  BY <2>1, <2>2
<1>2. CASE b \in [kind: {"array"}, atts: UNION {[1..n -> Items] : n \in 0..MaxBatch}]
  <2>1. PICK n \in 0..MaxBatch : b.atts \in [1..n -> Items]
    BY <1>2
  <2>2. n \in Nat
    OBVIOUS
  <2>3. b.atts \in Seq(Items)
    BY <2>1, <2>2, SeqDef
  <2>4. DOMAIN b.atts = 1..Len(b.atts) /\ Len(b.atts) \in Nat
    BY <2>3, LenProperties
  <2>5. Len(b.atts) = n
    BY <2>1, <2>2, <2>4
  <2>. QED  BY <2>3, <2>5
<1>. QED  BY <1>1, <1>2 DEF Bodies

(* Under the type invariant every request's batch is such a sequence. *)
LEMMA BatchType ==
    ASSUME TypeOK, NEW r \in Reqs
    PROVE  Batch(r) \in Seq(Items) /\ Len(Batch(r)) <= MaxBatch
BY BodyBatch DEF TypeOK, Batch

(* Every initial state (no request received, empty pool) satisfies IInv. *)
THEOREM InitIInv == Init => IInv
<1> SUFFICES ASSUME Init PROVE IInv
  OBVIOUS
<1>1. [kind |-> "eof", atts |-> <<>>] \in Bodies
  BY DEF Bodies
<1>2. <<>> \in Seq(1..MaxBatch)
  BY EmptySeq
<1>3. NoResponse \in Responses
  BY DEF NoResponse, Responses
<1>4. TypeOK
  <2>0. pc \in [Reqs -> {"idle", "start", "phaseA", "phaseB", "respond", "done"}]
    BY Zenon DEF Init
  <2>1. /\ endpoint \in [Reqs -> {"v1", "v2"}]
        /\ header \in [Reqs -> HeaderValues \cup {NoHeader}]
        /\ electra \in [Reqs -> BOOLEAN]
    BY Zenon DEF Init
  <2>4. k \in [Reqs -> 1..(MaxBatch + 1)]
    <3>1. k = [r \in Reqs |-> 1]
      BY DEF Init
    <3>2. 1 \in 1..(MaxBatch + 1)
      OBVIOUS
    <3>. QED  BY <3>1, <3>2
  <2>2. body \in [Reqs -> Bodies] /\ valid \in [Reqs -> Seq(1..MaxBatch)]
        /\ resp \in [Reqs -> Responses]
    BY <1>1, <1>2, <1>3 DEF Init
  <2>3. /\ attFailures \in [Reqs -> SUBSET (1..MaxBatch)]
        /\ failedBroadcasts \in [Reqs -> SUBSET (1..MaxBatch)]
        /\ pool \subseteq Entries /\ broadcast \subseteq Entries
        /\ notified \subseteq Entries
        /\ sent \in [Reqs -> SUBSET (1..MaxBatch)]
    BY DEF Init
  <2>. QED  BY <2>0, <2>1, <2>2, <2>3, <2>4 DEF TypeOK
<1>5. \A r \in Reqs : LoopShape(r)
  <2>1. pc = [r \in Reqs |-> "idle"] /\ valid = [r \in Reqs |-> <<>>]
    BY DEF Init
  <2>2. Len(<<>>) = 0
    BY EmptySeq
  <2>. QED  BY <2>1, <2>2 DEF LoopShape
<1>. QED
  BY <1>4, <1>5 DEF Init, IInv, PoolAdmission

(***************************************************************************)
(* The inductive step, one case per action.  Each case proves the type     *)
(* invariant, the loop shape of every request, and pool admission.        *)
(***************************************************************************)
THEOREM NextIInv == IInv /\ [Next]_vars => IInv'
<1> SUFFICES ASSUME IInv, [Next]_vars PROVE IInv'
  OBVIOUS
<1>0. /\ TypeOK
      /\ \A r \in Reqs : LoopShape(r)
      /\ PoolAdmission
  BY DEF IInv
<1>f. ASSUME NEW s \in Reqs, LoopShape(s),
             pc'[s] = pc[s], body'[s] = body[s], k'[s] = k[s], valid'[s] = valid[s]
      PROVE  LoopShape(s)'
  BY <1>f DEF LoopShape, Batch
<1>1. CASE UNCHANGED vars
  <2>1. UNCHANGED <<pc, endpoint, header, body, electra, k, valid, attFailures,
                    failedBroadcasts, resp, pool, broadcast, notified, sent>>
    BY <1>1 DEF vars, reqVars
  <2>. QED  BY <1>0, <2>1 DEF IInv, TypeOK, LoopShape, PoolAdmission, Batch
<1>2. ASSUME NEW r \in Reqs, Receive(r) PROVE IInv'
  <2>1. PICK ep \in {"v1", "v2"}, h \in HeaderValues \cup {NoHeader}, b \in Bodies :
          /\ endpoint' = [endpoint EXCEPT ![r] = ep]
          /\ header' = [header EXCEPT ![r] = IF ep = "v1" THEN NoHeader ELSE h]
          /\ body' = [body EXCEPT ![r] = b]
    BY <1>2 DEF Receive
  <2>2. /\ pc[r] = "idle" /\ pc' = [pc EXCEPT ![r] = "start"]
        /\ UNCHANGED <<electra, k, valid, attFailures, failedBroadcasts, resp,
                       pool, broadcast, notified, sent>>
    BY <1>2 DEF Receive
  <2>3. TypeOK'
    BY <1>0, <2>1, <2>2 DEF TypeOK
  <2>4. ASSUME NEW s \in Reqs PROVE LoopShape(s)'
    <3>1. CASE s = r
      <4>1. valid'[r] = <<>>
        BY <1>0, <2>2 DEF LoopShape
      <4>2. Len(valid'[r]) = 0
        BY <4>1, EmptySeq
      <4>3. pc'[r] = "start"
        BY <1>0, <2>2 DEF TypeOK
      <4>4. 1..Len(valid'[r]) = {}
        BY <4>2
      <4>5. LoopShape(r)'
        BY <4>1, <4>3, <4>4 DEF LoopShape
      <4>. QED  BY <3>1, <4>5
    <3>2. CASE s # r
      BY <3>2, <1>0, <1>f, <2>1, <2>2 DEF TypeOK
    <3>. QED  BY <3>1, <3>2
  <2>5. PoolAdmission'
    BY <1>0, <2>2 DEF PoolAdmission
  <2>. QED  BY <2>3, <2>4, <2>5 DEF IInv
<1>3. ASSUME NEW r \in Reqs, Reject(r) PROVE IInv'
  <2>1. /\ pc[r] = "start"
        /\ resp' = [resp EXCEPT ![r] = [NoResponse EXCEPT !.code = 400]]
        /\ pc' = [pc EXCEPT ![r] = "done"]
        /\ UNCHANGED <<endpoint, header, body, electra, k, valid, attFailures,
                       failedBroadcasts, pool, broadcast, notified, sent>>
    BY <1>3 DEF Reject
  <2>2. [NoResponse EXCEPT !.code = 400] \in Responses
    BY DEF NoResponse, Responses
  <2>3. TypeOK'
    BY <1>0, <2>1, <2>2 DEF TypeOK
  <2>4. \A s \in Reqs : LoopShape(s)'
    BY <1>0, <2>1 DEF LoopShape, TypeOK, Batch
  <2>5. PoolAdmission'
    BY <1>0, <2>1 DEF PoolAdmission
  <2>. QED  BY <2>3, <2>4, <2>5 DEF IInv
<1>4. ASSUME NEW r \in Reqs, Accept(r) PROVE IInv'
  <2>1. /\ pc[r] = "start"
        /\ electra' = [electra EXCEPT ![r] =
                         endpoint[r] = "v2" /\ ForkOrdinal[header[r]] >= Electra]
        /\ pc' = [pc EXCEPT ![r] = "phaseA"]
        /\ k' = [k EXCEPT ![r] = 1]
        /\ UNCHANGED <<endpoint, header, body, valid, attFailures,
                       failedBroadcasts, resp, pool, broadcast, notified, sent>>
    BY <1>0, <1>4 DEF Accept, TypeOK
  <2>a. electra' \in [Reqs -> BOOLEAN]
    BY <1>0, <2>1, Zenon DEF TypeOK
  <2>2. TypeOK'
    BY <1>0, <2>1, <2>a DEF TypeOK
  <2>b. LoopShape(r)'
    <3>1. valid[r] = <<>> /\ pc'[r] = "phaseA" /\ k'[r] = 1
      BY <1>0, <1>4, <2>1 DEF LoopShape, TypeOK
    <3>2. Len(<<>>) = 0 /\ Len(Batch(r)) \in Nat
      BY <1>0, EmptySeq, BatchType
    <3>. QED  BY <2>1, <3>1, <3>2 DEF LoopShape, Batch
  <2>3. \A s \in Reqs : LoopShape(s)'
    BY <1>0, <1>f, <2>1, <2>b DEF TypeOK
  <2>4. PoolAdmission'
    BY <1>0, <2>1 DEF PoolAdmission
  <2>. QED  BY <2>2, <2>3, <2>4 DEF IInv
<1>5. ASSUME NEW r \in Reqs, PhaseA(r) PROVE IInv'
  <2>0. /\ pc[r] = "phaseA" /\ k[r] <= Len(Batch(r))
        /\ k' = [k EXCEPT ![r] = @ + 1]
        /\ UNCHANGED <<pc, endpoint, header, body, electra, failedBroadcasts,
                       resp, pool, broadcast, notified, sent>>
    BY <1>5 DEF PhaseA
  <2>1. /\ Batch(r) \in Seq(Items) /\ Len(Batch(r)) <= MaxBatch
        /\ valid[r] \in Seq(1..MaxBatch)
        /\ k[r] \in 1..Len(Batch(r)) /\ k[r] \in 1..MaxBatch
        /\ Len(valid[r]) < k[r]
    BY <1>0, <2>0, BatchType DEF TypeOK, LoopShape
  <2>2. \A s \in Reqs \ {r} : LoopShape(s)'
    BY <1>0, <1>f, <2>0, <1>5 DEF TypeOK, PhaseA
  <2>3. CASE Batch(r)[k[r]].check = "ok"
    <3>1. /\ valid' = [valid EXCEPT ![r] = Append(@, k[r])]
          /\ UNCHANGED attFailures
      BY <1>5, <2>3 DEF PhaseA
    <3>2. /\ Append(valid[r], k[r]) \in Seq(1..MaxBatch)
          /\ Len(Append(valid[r], k[r])) = Len(valid[r]) + 1
          /\ \A j \in 1..Len(valid[r]) : Append(valid[r], k[r])[j] = valid[r][j]
          /\ Append(valid[r], k[r])[Len(valid[r]) + 1] = k[r]
      BY <2>1, AppendProperties
    <3>3. TypeOK'
      BY <1>0, <2>0, <2>1, <3>1, <3>2 DEF TypeOK
    <3>4. LoopShape(r)'
      <4>1. valid'[r] = Append(valid[r], k[r])
        BY <1>0, <3>1 DEF TypeOK
      <4>2. /\ pc'[r] = "phaseA"
            /\ k'[r] = k[r] + 1
            /\ Batch(r)' = Batch(r)
        BY <1>0, <2>0 DEF TypeOK, Batch
      <4>3. ASSUME NEW j \in 1..Len(valid'[r])
            PROVE  /\ valid'[r][j] \in 1..Len(Batch(r))
                   /\ Batch(r)[valid'[r][j]].check = "ok"
        <5>1. CASE j <= Len(valid[r])
          BY <1>0, <2>1, <3>2, <4>1, <5>1 DEF LoopShape
        <5>2. CASE j = Len(valid[r]) + 1
          BY <2>1, <2>3, <3>2, <4>1, <5>2
        <5>. QED  BY <2>1, <3>2, <4>1, <5>1, <5>2
      <4>4. /\ k'[r] <= Len(Batch(r)) + 1
            /\ Len(valid'[r]) < k'[r]
        BY <2>1, <3>2, <4>1, <4>2
      <4>. QED  BY <4>2, <4>3, <4>4 DEF LoopShape
    <3>5. PoolAdmission'
      BY <1>0, <2>0 DEF PoolAdmission
    <3>. QED  BY <2>2, <3>3, <3>4, <3>5 DEF IInv
  <2>4. CASE Batch(r)[k[r]].check # "ok"
    <3>1. /\ attFailures' = [attFailures EXCEPT ![r] = @ \cup {k[r]}]
          /\ UNCHANGED valid
      BY <1>5, <2>4 DEF PhaseA
    <3>3. TypeOK'
      BY <1>0, <2>0, <2>1, <3>1 DEF TypeOK
    <3>4. LoopShape(r)'
      <4>1. /\ pc'[r] = "phaseA" /\ k'[r] = k[r] + 1 /\ valid'[r] = valid[r]
            /\ Batch(r)' = Batch(r)
        BY <1>0, <2>0, <3>1 DEF TypeOK, Batch
      <4>2. /\ k'[r] <= Len(Batch(r)) + 1
            /\ Len(valid'[r]) < k'[r]
        BY <2>1, <4>1
      <4>. QED  BY <1>0, <4>1, <4>2 DEF LoopShape
    <3>5. PoolAdmission'
      BY <1>0, <2>0 DEF PoolAdmission
    <3>. QED  BY <2>2, <3>3, <3>4, <3>5 DEF IInv
  <2>. QED  BY <2>3, <2>4
<1>6. ASSUME NEW r \in Reqs, PhaseAEnd(r) PROVE IInv'
  <2>0. /\ pc[r] = "phaseA" /\ k[r] > Len(Batch(r))
        /\ pc' = [pc EXCEPT ![r] = "phaseB"]
        /\ k' = [k EXCEPT ![r] = 1]
        /\ UNCHANGED <<endpoint, header, body, electra, valid, attFailures,
                       failedBroadcasts, resp, pool, broadcast, notified, sent>>
    BY <1>6 DEF PhaseAEnd
  <2>1. /\ Len(Batch(r)) \in Nat
        /\ Len(valid[r]) \in Nat
        /\ Len(valid[r]) < k[r] /\ k[r] <= Len(Batch(r)) + 1
    BY <1>0, <2>0, BatchType, LenProperties DEF TypeOK, LoopShape
  <2>2. TypeOK'
    BY <1>0, <2>0 DEF TypeOK
  <2>3. LoopShape(r)'
    BY <1>0, <2>0, <2>1 DEF TypeOK, LoopShape, Batch
  <2>4. \A s \in Reqs : LoopShape(s)'
    BY <1>0, <1>f, <2>0, <2>3 DEF TypeOK
  <2>5. PoolAdmission'
    BY <1>0, <2>0 DEF PoolAdmission
  <2>. QED  BY <2>2, <2>4, <2>5 DEF IInv
<1>8. ASSUME NEW r \in Reqs, PhaseBEnd(r) PROVE IInv'
  <2>0. /\ pc[r] = "phaseB"
        /\ pc' = [pc EXCEPT ![r] = "respond"]
        /\ UNCHANGED <<endpoint, header, body, electra, k, valid, attFailures,
                       failedBroadcasts, resp, pool, broadcast, notified, sent>>
    BY <1>8 DEF PhaseBEnd
  <2>2. TypeOK'
    BY <1>0, <2>0 DEF TypeOK
  <2>3. LoopShape(r)'
    BY <1>0, <2>0 DEF TypeOK, LoopShape, Batch
  <2>4. \A s \in Reqs : LoopShape(s)'
    BY <1>0, <1>f, <2>0, <2>3 DEF TypeOK
  <2>5. PoolAdmission'
    BY <1>0, <2>0 DEF PoolAdmission
  <2>. QED  BY <2>2, <2>4, <2>5 DEF IInv
<1>9. ASSUME NEW r \in Reqs, Respond(r) PROVE IInv'
  <2>0. /\ pc[r] = "respond"
        /\ resp' = [resp EXCEPT ![r] =
              IF failedBroadcasts[r] # {}
                THEN [code |-> 500, failures |-> {}, unbroadcast |-> failedBroadcasts[r]]
              ELSE IF attFailures[r] # {}
                THEN [code |-> 400, failures |-> attFailures[r], unbroadcast |-> {}]
              ELSE [code |-> 200, failures |-> {}, unbroadcast |-> {}]]
        /\ pc' = [pc EXCEPT ![r] = "done"]
        /\ UNCHANGED <<endpoint, header, body, electra, k, valid, attFailures,
                       failedBroadcasts, pool, broadcast, notified, sent>>
    BY <1>9 DEF Respond
  <2>1. resp'[r] \in Responses
    BY <1>0, <2>0 DEF TypeOK, Responses
  <2>2. TypeOK'
    BY <1>0, <2>0, <2>1 DEF TypeOK
  <2>3. LoopShape(r)'
    <3>1. /\ pc'[r] = "done" /\ valid'[r] = valid[r] /\ Batch(r)' = Batch(r)
      BY <1>0, <2>0 DEF TypeOK, Batch
    <3>. QED  BY <1>0, <3>1 DEF LoopShape
  <2>4. \A s \in Reqs : LoopShape(s)'
    BY <1>0, <1>f, <2>0, <2>3 DEF TypeOK
  <2>5. PoolAdmission'
    BY <1>0, <2>0 DEF PoolAdmission
  <2>. QED  BY <2>2, <2>4, <2>5 DEF IInv
<1>7. ASSUME NEW r \in Reqs, PhaseB(r) PROVE IInv'
  <2> DEFINE i == valid[r][k[r]]
             e == EntryOf(r, i)
  <2>0. /\ pc[r] = "phaseB" /\ k[r] <= Len(valid[r])
        /\ FeedEvent(r, e)
        /\ \/ NoValidators(r, i, e)
           \/ NoCommitteeIndex(r, i, e)
           \/ BroadcastFails(r, i, e)
           \/ Delivered(r, i, e)
        /\ UNCHANGED <<endpoint, header, body, electra, valid, attFailures>>
    BY <1>7 DEF PhaseB
  <2>1. /\ Len(Batch(r)) <= MaxBatch
        /\ Len(valid[r]) <= Len(Batch(r))
        /\ k[r] \in 1..Len(valid[r])
        /\ k[r] \in 1..MaxBatch
    BY <1>0, <2>0, BatchType, LenProperties DEF TypeOK, LoopShape
  <2>2. /\ i \in 1..Len(Batch(r))
        /\ i \in 1..MaxBatch
        /\ Batch(r)[i].check = "ok"
        /\ Batch(r)[i] \in Items
    BY <1>0, <2>1, BatchType, ElementOfSeq DEF LoopShape
  <2>3. /\ e \in Entries
        /\ e.att.check = "ok"
        /\ e.electra = electra[r]
        /\ e.att.single = Batch(r)[i].single
    BY <1>0, <2>2 DEF EntryOf, Entries, TypeOK
  <2>4. /\ notified \subseteq notified'
        /\ notified' \subseteq Entries
        /\ ~e.att.agg => e \in notified'
    BY <1>0, <2>0, <2>3 DEF FeedEvent, TypeOK
  <2>5. /\ Batch(r)' = Batch(r)
        /\ \A s \in Reqs \ {r} : body'[s] = body[s] /\ valid'[s] = valid[s]
    BY <1>0, <2>0 DEF TypeOK, Batch
  <2>7. CASE NoValidators(r, i, e) \/ BroadcastFails(r, i, e)
    <3>1. /\ failedBroadcasts' = [failedBroadcasts EXCEPT ![r] = @ \cup {k[r]}]
          /\ k' = [k EXCEPT ![r] = @ + 1]
          /\ UNCHANGED <<pc, resp, pool, broadcast, sent>>
      BY <2>7 DEF NoValidators, BroadcastFails
    <3>2. TypeOK'
      <4>1. /\ failedBroadcasts' \in [Reqs -> SUBSET (1..MaxBatch)]
            /\ k' \in [Reqs -> 1..(MaxBatch + 1)]
        BY <1>0, <2>1, <3>1 DEF TypeOK
      <4>2. /\ pc' = pc /\ resp' = resp /\ pool' = pool /\ broadcast' = broadcast
            /\ sent' = sent
        BY <3>1
      <4>. QED  BY <1>0, <2>0, <2>4, <4>1, <4>2 DEF TypeOK
    <3>3. LoopShape(r)'
      <4>1. /\ pc'[r] = "phaseB" /\ k'[r] = k[r] + 1 /\ valid'[r] = valid[r]
        BY <1>0, <2>0, <3>1 DEF TypeOK
      <4>2. /\ Len(valid'[r]) <= Len(Batch(r)')
            /\ k'[r] <= Len(valid'[r]) + 1
        BY <2>1, <2>5, <4>1
      <4>3. \A j \in 1..Len(valid'[r]) :
              /\ valid'[r][j] \in 1..Len(Batch(r)')
              /\ Batch(r)'[valid'[r][j]].check = "ok"
        BY <1>0, <2>5, <4>1 DEF LoopShape
      <4>. QED  BY <4>1, <4>2, <4>3 DEF LoopShape
    <3>4. \A s \in Reqs : LoopShape(s)'
      BY <1>0, <1>f, <2>5, <3>1, <3>3 DEF TypeOK
    <3>5. PoolAdmission'
      BY <1>0, <2>4, <3>1 DEF PoolAdmission
    <3>. QED  BY <3>2, <3>4, <3>5 DEF IInv
  <2>8. CASE NoCommitteeIndex(r, i, e)
    <3>1. /\ resp' = [resp EXCEPT ![r] = [NoResponse EXCEPT !.code = 400]]
          /\ pc' = [pc EXCEPT ![r] = "done"]
          /\ UNCHANGED <<k, failedBroadcasts, pool, broadcast, sent>>
      BY <2>8 DEF NoCommitteeIndex
    <3>2. [NoResponse EXCEPT !.code = 400] \in Responses
      BY DEF NoResponse, Responses
    <3>3. TypeOK'
      BY <1>0, <2>0, <2>4, <3>1, <3>2 DEF TypeOK
    <3>4. LoopShape(r)'
      <4>1. /\ pc'[r] = "done" /\ valid'[r] = valid[r]
        BY <1>0, <2>0, <3>1 DEF TypeOK
      <4>. QED  BY <1>0, <2>5, <4>1 DEF LoopShape
    <3>5. \A s \in Reqs : LoopShape(s)'
      BY <1>0, <1>f, <2>5, <3>1, <3>4 DEF TypeOK
    <3>6. PoolAdmission'
      BY <1>0, <2>4, <3>1 DEF PoolAdmission
    <3>. QED  BY <3>3, <3>5, <3>6 DEF IInv
  <2>9. CASE Delivered(r, i, e)
    <3>1. /\ ~electra[r] \/ e.att.single
          /\ broadcast' = broadcast \cup {e}
          /\ pool' \in {pool, pool \cup {e}}
          /\ sent' = [sent EXCEPT ![r] = @ \cup {i}]
          /\ k' = [k EXCEPT ![r] = @ + 1]
          /\ UNCHANGED <<pc, resp, failedBroadcasts>>
      BY <2>9 DEF Delivered
    <3>2. TypeOK'
      <4>1. pool' \subseteq Entries /\ broadcast' \subseteq Entries
        BY <1>0, <2>3, <3>1 DEF TypeOK
      <4>2. /\ sent' \in [Reqs -> SUBSET (1..MaxBatch)]
            /\ k' \in [Reqs -> 1..(MaxBatch + 1)]
        <5>1. sent' \in [Reqs -> SUBSET (1..MaxBatch)]
          BY <1>0, <2>2, <3>1 DEF TypeOK
        <5>2. k' \in [Reqs -> 1..(MaxBatch + 1)]
          BY <1>0, <2>1, <3>1 DEF TypeOK
        <5>. QED  BY <5>1, <5>2
      <4>3. /\ pc' = pc /\ resp' = resp /\ failedBroadcasts' = failedBroadcasts
        BY <3>1
      <4>. QED  BY <1>0, <2>0, <2>4, <4>1, <4>2, <4>3 DEF TypeOK
    <3>3. LoopShape(r)'
      <4>1. /\ pc'[r] = "phaseB" /\ k'[r] = k[r] + 1 /\ valid'[r] = valid[r]
        BY <1>0, <2>0, <3>1 DEF TypeOK
      <4>2. /\ Len(valid'[r]) <= Len(Batch(r)')
            /\ k'[r] <= Len(valid'[r]) + 1
        BY <2>1, <2>5, <4>1
      <4>3. \A j \in 1..Len(valid'[r]) :
              /\ valid'[r][j] \in 1..Len(Batch(r)')
              /\ Batch(r)'[valid'[r][j]].check = "ok"
        BY <1>0, <2>5, <4>1 DEF LoopShape
      <4>. QED  BY <4>1, <4>2, <4>3 DEF LoopShape
    <3>4. \A s \in Reqs : LoopShape(s)'
      BY <1>0, <1>f, <2>5, <3>1, <3>3 DEF TypeOK
    <3>5. PoolAdmission'
      <4>1. /\ e.att.check = "ok" /\ e \in broadcast'
            /\ ~e.att.agg => e \in notified'
            /\ e.electra => e.att.single
        BY <2>3, <2>4, <3>1
      <4>. QED  BY <1>0, <2>4, <3>1, <4>1 DEF PoolAdmission
    <3>. QED  BY <3>2, <3>4, <3>5 DEF IInv
  <2>. QED  BY <2>0, <2>7, <2>8, <2>9
<1>. QED  BY <1>1, <1>2, <1>3, <1>4, <1>5, <1>6, <1>7, <1>8, <1>9 DEF Next, Handle

(* IInv holds in every reachable state of the pipeline. *)
THEOREM IInvHolds == Spec => []IInv
BY InitIInv, NextIInv, PTL DEF Spec

(* Spec keeps every variable in its type. *)
THEOREM TypeCorrect == Spec => []TypeOK
<1>1. IInv => TypeOK
  BY DEF IInv
<1>. QED  BY InitIInv, NextIInv, <1>1, PTL DEF Spec

(***************************************************************************)
(* Pool admission holds in every reachable state, for any number of        *)
(* requests and any batch bound: handleAttestations* only save an          *)
(* attestation that passed Phase A, that the broadcaster accepted, that    *)
(* was announced if unaggregated, and whose Electra form has a committee   *)
(* index.                                                                  *)
(***************************************************************************)
THEOREM PoolAdmissionHolds == Spec => []PoolAdmission
<1>1. IInv => PoolAdmission
  BY DEF IInv
<1>. QED  BY InitIInv, NextIInv, <1>1, PTL DEF Spec
=============================================================================
