--------------------- MODULE AttestationAccountingProofs ---------------------
(***************************************************************************)
(* Batch accounting of handleAttestations / handleAttestationsElectra and  *)
(* the response SubmitAttestations(V2) writes, proved for every value of   *)
(* the constants.  It rests on the loop shape of AttestationSubmitProofs    *)
(* and on a second inductive invariant, the books each request keeps: the  *)
(* Phase A lists against the positions scanned, and the Phase B index list *)
(* against the survivors that were broadcast.                             *)
(***************************************************************************)
EXTENDS AttestationSubmitProofs, FiniteSetTheorems

(* The positions among the first n of a batch b that pass, or fail,     *)
(* Phase A.                                                               *)
OkIn(b, n) == {i \in 1..n : b[i].check = "ok"}
NotOkIn(b, n) == {i \in 1..n : b[i].check # "ok"}

(* The elements of a sequence, and that none of them occurs twice. *)
Positions(v) == {v[j] : j \in 1..Len(v)}
Distinct(v) == \A i, j \in 1..Len(v) : v[i] = v[j] => i = j

(***************************************************************************)
(* The books of Phase B after n iterations over survivors v: the loop      *)
(* indices F reported as failed broadcasts are among the first n, what was *)
(* broadcast (S) is among the first n survivors, and an index is reported  *)
(* exactly when its survivor was not broadcast.                            *)
(***************************************************************************)
Books(v, F, S, n) ==
    /\ F \subseteq 1..n
    /\ S \subseteq {v[j] : j \in 1..n}
    /\ \A j \in 1..n : j \in F <=> v[j] \notin S

(* The response Respond writes from r's lists. *)
Answer(r) ==
    IF failedBroadcasts[r] # {}
      THEN [code |-> 500, failures |-> {}, unbroadcast |-> failedBroadcasts[r]]
    ELSE IF attFailures[r] # {}
      THEN [code |-> 400, failures |-> attFailures[r], unbroadcast |-> {}]
    ELSE [code |-> 200, failures |-> {}, unbroadcast |-> {}]

(* r is answered with a response that BatchAccounting speaks about. *)
Answered(r) ==
    pc[r] = "done" /\ (resp[r].code \in {200, 500} \/ resp[r].failures # {})

(***************************************************************************)
(* The books of a request.  validAttestations holds each position once;    *)
(* in Phase A the failures and the survivors split the positions scanned;  *)
(* from Phase B on they split the whole batch and the Phase B books hold   *)
(* for the iterations made; a request answered by Respond finished Phase   *)
(* B and was answered from its lists.  BatchAccounting alone is not        *)
(* inductive: it speaks of finished requests only, and every loop step     *)
(* needs the books of the iterations before it.                            *)
(***************************************************************************)
AccInv(r) ==
    /\ Distinct(valid[r])
    /\ pc[r] \in {"idle", "start"} => attFailures[r] = {}
    /\ pc[r] \in {"idle", "start", "phaseA"} => failedBroadcasts[r] = {} /\ sent[r] = {}
    /\ pc[r] = "phaseA" =>
          /\ attFailures[r] = NotOkIn(Batch(r), k[r] - 1)
          /\ Positions(valid[r]) = OkIn(Batch(r), k[r] - 1)
    /\ (pc[r] \in {"phaseB", "respond"} \/ Answered(r)) =>
          /\ attFailures[r] = PhaseAFailed(r)
          /\ Positions(valid[r]) = PhaseAPassed(r)
          /\ Books(valid[r], failedBroadcasts[r], sent[r], k[r] - 1)
    /\ (pc[r] = "respond" \/ Answered(r)) => k[r] = Len(valid[r]) + 1
    /\ Answered(r) => resp[r] = Answer(r)

AInv == IInv /\ \A r \in Reqs : AccInv(r)

(* A step that leaves request s's own variables alone. *)
Keep(s) ==
    /\ pc'[s] = pc[s] /\ body'[s] = body[s] /\ k'[s] = k[s] /\ valid'[s] = valid[s]
    /\ attFailures'[s] = attFailures[s] /\ failedBroadcasts'[s] = failedBroadcasts[s]
    /\ sent'[s] = sent[s] /\ resp'[s] = resp[s]

-----------------------------------------------------------------------------
USE AttestationSubmitAssumption

(* A request whose variables a step leaves alone keeps its books. *)
LEMMA KeepAcc ==
    ASSUME NEW s, AccInv(s), Keep(s)
    PROVE  AccInv(s)'
<1>1. /\ Batch(s)' = Batch(s)
      /\ PhaseAFailed(s)' = PhaseAFailed(s) /\ PhaseAPassed(s)' = PhaseAPassed(s)
      /\ Answered(s)' = Answered(s) /\ Answer(s)' = Answer(s)
  BY DEF Keep, Batch, PhaseAFailed, PhaseAPassed, Answered, Answer
<1>. QED  BY <1>1 DEF Keep, AccInv

(* A client sends r: r's lists are still empty. *)
LEMMA ReceiveAcc ==
    ASSUME AInv, NEW r \in Reqs, Receive(r)
    PROVE  AccInv(r)' /\ \A s \in Reqs \ {r} : Keep(s)
<1>0. TypeOK /\ LoopShape(r) /\ AccInv(r)
  BY DEF AInv, IInv
<1>1. /\ pc[r] = "idle" /\ pc' = [pc EXCEPT ![r] = "start"]
      /\ \E b \in Bodies : body' = [body EXCEPT ![r] = b]
      /\ UNCHANGED <<k, valid, attFailures, failedBroadcasts, resp, sent>>
  BY DEF Receive
<1>2. pc \in [Reqs -> {"idle", "start", "phaseA", "phaseB", "respond", "done"}]
      /\ body \in [Reqs -> Bodies]
  BY <1>0 DEF TypeOK
<1>3. /\ valid[r] = <<>> /\ attFailures[r] = {} /\ failedBroadcasts[r] = {} /\ sent[r] = {}
      /\ pc'[r] = "start"
  BY <1>0, <1>1, <1>2 DEF LoopShape, AccInv
<1>4. Len(<<>>) = 0
  BY EmptySeq
<1>5. AccInv(r)'
  BY <1>1, <1>3, <1>4 DEF AccInv, Answered, Distinct
<1>. QED  BY <1>1, <1>2, <1>5 DEF Keep

(* The request is rejected: a 400 without a failure list. *)
LEMMA RejectAcc ==
    ASSUME AInv, NEW r \in Reqs, Reject(r)
    PROVE  AccInv(r)' /\ \A s \in Reqs \ {r} : Keep(s)
<1>0. TypeOK /\ AccInv(r)
  BY DEF AInv, IInv
<1>1. /\ pc' = [pc EXCEPT ![r] = "done"]
      /\ resp' = [resp EXCEPT ![r] = [NoResponse EXCEPT !.code = 400]]
      /\ UNCHANGED <<body, k, valid, attFailures, failedBroadcasts, sent>>
  BY DEF Reject
<1>2. pc \in [Reqs -> {"idle", "start", "phaseA", "phaseB", "respond", "done"}]
      /\ resp \in [Reqs -> Responses]
  BY <1>0 DEF TypeOK
<1>3. pc'[r] = "done" /\ resp'[r].code = 400 /\ resp'[r].failures = {}
  BY <1>1, <1>2 DEF NoResponse
<1>4. AccInv(r)'
  BY <1>0, <1>1, <1>3 DEF AccInv, Answered
<1>. QED  BY <1>1, <1>2, <1>4 DEF Keep

(* The handler is chosen and Phase A starts at the first position. *)
LEMMA AcceptAcc ==
    ASSUME AInv, NEW r \in Reqs, Accept(r)
    PROVE  AccInv(r)' /\ \A s \in Reqs \ {r} : Keep(s)
<1>0. TypeOK /\ LoopShape(r) /\ AccInv(r)
  BY DEF AInv, IInv
<1>1. /\ pc[r] = "start" /\ pc' = [pc EXCEPT ![r] = "phaseA"]
      /\ k' = [k EXCEPT ![r] = 1]
      /\ UNCHANGED <<body, valid, attFailures, failedBroadcasts, resp, sent>>
  BY DEF Accept
<1>2. /\ pc \in [Reqs -> {"idle", "start", "phaseA", "phaseB", "respond", "done"}]
      /\ k \in [Reqs -> 1..(MaxBatch + 1)]
  BY <1>0 DEF TypeOK
<1>3. /\ valid[r] = <<>> /\ attFailures[r] = {} /\ failedBroadcasts[r] = {} /\ sent[r] = {}
      /\ pc'[r] = "phaseA" /\ k'[r] - 1 = 0
  BY <1>0, <1>1, <1>2 DEF LoopShape, AccInv
<1>4. Len(<<>>) = 0
  BY EmptySeq
<1>5. Positions(valid'[r]) = {} /\ NotOkIn(Batch(r)', 0) = {} /\ OkIn(Batch(r)', 0) = {}
  BY <1>1, <1>3, <1>4 DEF Positions, NotOkIn, OkIn
<1>6. AccInv(r)'
  <2>1. Distinct(valid'[r])
    BY <1>1, <1>3, <1>4 DEF Distinct
  <2>2. /\ attFailures'[r] = NotOkIn(Batch(r)', k'[r] - 1)
        /\ Positions(valid'[r]) = OkIn(Batch(r)', k'[r] - 1)
    BY <1>1, <1>3, <1>5
  <2>3. failedBroadcasts'[r] = {} /\ sent'[r] = {} /\ pc'[r] = "phaseA"
    BY <1>1, <1>3
  <2>. QED  BY <2>1, <2>2, <2>3 DEF AccInv, Answered
<1>. QED  BY <1>1, <1>2, <1>6 DEF Keep

(* A Phase A iteration over a passing position adds it to the passed ones. *)
LEMMA OkInPass ==
    ASSUME NEW b, NEW n \in Nat \ {0}, b[n].check = "ok"
    PROVE  OkIn(b, n) = OkIn(b, n - 1) \cup {n} /\ NotOkIn(b, n) = NotOkIn(b, n - 1)
BY DEF OkIn, NotOkIn

(* A Phase A iteration over a failing position adds it to the failed ones. *)
LEMMA OkInFail ==
    ASSUME NEW b, NEW n \in Nat \ {0}, b[n].check # "ok"
    PROVE  OkIn(b, n) = OkIn(b, n - 1) /\ NotOkIn(b, n) = NotOkIn(b, n - 1) \cup {n}
BY DEF OkIn, NotOkIn

(* Appending e to v adds e to its elements, and keeps them distinct when e *)
(* is new.                                                                *)
LEMMA AppendPositions ==
    ASSUME NEW S, NEW v \in Seq(S), NEW e \in S
    PROVE  /\ Positions(Append(v, e)) = Positions(v) \cup {e}
           /\ Distinct(v) /\ e \notin Positions(v) => Distinct(Append(v, e))
<1>1. /\ Len(Append(v, e)) = Len(v) + 1
      /\ \A i \in 1..Len(v) : Append(v, e)[i] = v[i]
      /\ Append(v, e)[Len(v) + 1] = e
      /\ Len(v) \in Nat
  BY AppendProperties, LenProperties
<1>2. \A j \in 1..Len(Append(v, e)) : j \in 1..Len(v) \/ j = Len(v) + 1
  BY <1>1
<1>3. Positions(Append(v, e)) = Positions(v) \cup {e}
  BY <1>1, <1>2 DEF Positions
<1>4. ASSUME Distinct(v), e \notin Positions(v) PROVE Distinct(Append(v, e))
  BY <1>1, <1>2, <1>4 DEF Distinct, Positions
<1>. QED  BY <1>3, <1>4

(* The survivor of a Phase B iteration was not broadcast before it. *)
LEMMA BooksFresh ==
    ASSUME NEW v, NEW F, NEW S, NEW n \in Nat \ {0}, Books(v, F, S, n - 1),
           \A j \in 1..(n - 1) : v[j] # v[n]
    PROVE  v[n] \notin S
BY DEF Books

(* A Phase B iteration whose broadcast fails reports its index. *)
LEMMA BooksFail ==
    ASSUME NEW v, NEW F, NEW S, NEW n \in Nat \ {0}, Books(v, F, S, n - 1),
           v[n] \notin S
    PROVE  Books(v, F \cup {n}, S, n)
BY DEF Books

(* A Phase B iteration whose broadcast succeeds records its survivor. *)
LEMMA BooksSent ==
    ASSUME NEW v, NEW F, NEW S, NEW n \in Nat \ {0}, Books(v, F, S, n - 1),
           \A j \in 1..(n - 1) : v[j] # v[n]
    PROVE  Books(v, F, S \cup {v[n]}, n)
BY DEF Books

(* One iteration of Phase A: the position joins the survivors or the     *)
(* failures.                                                              *)
LEMMA PhaseAAcc ==
    ASSUME AInv, NEW r \in Reqs, PhaseA(r)
    PROVE  AccInv(r)' /\ \A s \in Reqs \ {r} : Keep(s)
<1>0. TypeOK /\ LoopShape(r) /\ AccInv(r)
  BY DEF AInv, IInv
<1>1. /\ pc[r] = "phaseA" /\ k[r] <= Len(Batch(r))
      /\ k' = [k EXCEPT ![r] = @ + 1]
      /\ UNCHANGED <<pc, body, failedBroadcasts, resp, sent>>
  BY DEF PhaseA
<1>2. /\ pc \in [Reqs -> {"idle", "start", "phaseA", "phaseB", "respond", "done"}]
      /\ k \in [Reqs -> 1..(MaxBatch + 1)]
      /\ valid \in [Reqs -> Seq(1..MaxBatch)]
      /\ attFailures \in [Reqs -> SUBSET (1..MaxBatch)]
      /\ Batch(r) \in Seq(Items) /\ Len(Batch(r)) <= MaxBatch
  BY <1>0, BatchType DEF TypeOK
<1>3. /\ k[r] \in Nat \ {0} /\ k[r] \in 1..MaxBatch
      /\ k'[r] = k[r] + 1 /\ k'[r] - 1 = k[r]
      /\ Batch(r)' = Batch(r) /\ pc'[r] = "phaseA"
  <2>1. Len(Batch(r)) \in Nat /\ k[r] \in 1..(MaxBatch + 1)
    BY <1>2, LenProperties
  <2>2. k[r] \in Nat \ {0} /\ k[r] \in 1..MaxBatch /\ k'[r] = k[r] + 1
    <3>1. k[r] \in 1..(MaxBatch + 1) /\ k[r] <= Len(Batch(r))
      BY <1>1, <1>2
    <3>2. k[r] \in 1..MaxBatch
      BY <1>2, <2>1, <3>1
    <3>3. k'[r] = k[r] + 1
      BY <1>1, <1>2
    <3>. QED  BY <3>2, <3>3
  <2>3. Batch(r)' = Batch(r) /\ pc'[r] = "phaseA"
    BY <1>1 DEF Batch
  <2>. QED  BY <2>2, <2>3
<1>4. /\ Distinct(valid[r])
      /\ attFailures[r] = NotOkIn(Batch(r), k[r] - 1)
      /\ Positions(valid[r]) = OkIn(Batch(r), k[r] - 1)
      /\ failedBroadcasts[r] = {} /\ sent[r] = {}
  BY <1>0, <1>1 DEF AccInv
<1>5. k[r] \notin Positions(valid[r])
  BY <1>3, <1>4 DEF OkIn
<1>6. \A s \in Reqs \ {r} : Keep(s)
  <2>1. \A s \in Reqs \ {r} : k'[s] = k[s]
    BY <1>1, <1>2
  <2>2. \A s \in Reqs \ {r} : valid'[s] = valid[s] /\ attFailures'[s] = attFailures[s]
    BY <1>2 DEF PhaseA
  <2>. QED  BY <1>1, <2>1, <2>2 DEF Keep
<1>7. CASE Batch(r)[k[r]].check = "ok"
  <2>1. valid' = [valid EXCEPT ![r] = Append(valid[r], k[r])] /\ UNCHANGED attFailures
    BY <1>7 DEF PhaseA
  <2>2. /\ valid'[r] = Append(valid[r], k[r])
        /\ Positions(valid'[r]) = Positions(valid[r]) \cup {k[r]}
        /\ Distinct(valid'[r])
    <3>1. valid[r] \in Seq(1..MaxBatch) /\ valid'[r] = Append(valid[r], k[r])
      BY <1>2, <2>1
    <3>2. /\ Positions(Append(valid[r], k[r])) = Positions(valid[r]) \cup {k[r]}
          /\ Distinct(valid[r]) /\ k[r] \notin Positions(valid[r]) => Distinct(Append(valid[r], k[r]))
      BY <1>3, <3>1, AppendPositions
    <3>. QED  BY <1>4, <1>5, <3>1, <3>2
  <2>3. OkIn(Batch(r), k[r]) = OkIn(Batch(r), k[r] - 1) \cup {k[r]} /\ NotOkIn(Batch(r), k[r]) = NotOkIn(Batch(r), k[r] - 1)
    BY <1>3, <1>7, OkInPass
  <2>4. /\ attFailures'[r] = NotOkIn(Batch(r)', k'[r] - 1)
        /\ Positions(valid'[r]) = OkIn(Batch(r)', k'[r] - 1)
    BY <1>3, <1>4, <2>1, <2>2, <2>3
  <2>. QED  BY <1>1, <1>3, <1>4, <1>6, <2>2, <2>4 DEF AccInv, Answered
<1>8. CASE Batch(r)[k[r]].check # "ok"
  <2>1. attFailures' = [attFailures EXCEPT ![r] = @ \cup {k[r]}] /\ UNCHANGED valid
    BY <1>8 DEF PhaseA
  <2>2. attFailures'[r] = attFailures[r] \cup {k[r]} /\ valid'[r] = valid[r]
    BY <1>2, <2>1
  <2>3. OkIn(Batch(r), k[r]) = OkIn(Batch(r), k[r] - 1) /\ NotOkIn(Batch(r), k[r]) = NotOkIn(Batch(r), k[r] - 1) \cup {k[r]}
    BY <1>3, <1>8, OkInFail
  <2>4. /\ attFailures'[r] = NotOkIn(Batch(r)', k'[r] - 1)
        /\ Positions(valid'[r]) = OkIn(Batch(r)', k'[r] - 1)
    BY <1>3, <1>4, <2>2, <2>3
  <2>. QED  BY <1>1, <1>3, <1>4, <1>6, <2>2, <2>4 DEF AccInv, Answered
<1>. QED  BY <1>7, <1>8

(* Phase A ends: its lists now split the whole batch, and Phase B starts *)
(* with empty books.                                                     *)
LEMMA PhaseAEndAcc ==
    ASSUME AInv, NEW r \in Reqs, PhaseAEnd(r)
    PROVE  AccInv(r)' /\ \A s \in Reqs \ {r} : Keep(s)
<1>0. TypeOK /\ LoopShape(r) /\ AccInv(r)
  BY DEF AInv, IInv
<1>1. /\ pc[r] = "phaseA" /\ k[r] > Len(Batch(r))
      /\ pc' = [pc EXCEPT ![r] = "phaseB"] /\ k' = [k EXCEPT ![r] = 1]
      /\ UNCHANGED <<body, valid, attFailures, failedBroadcasts, resp, sent>>
  BY DEF PhaseAEnd
<1>2. /\ pc \in [Reqs -> {"idle", "start", "phaseA", "phaseB", "respond", "done"}]
      /\ k \in [Reqs -> 1..(MaxBatch + 1)]
      /\ Len(Batch(r)) \in Nat
  BY <1>0, BatchType, LenProperties DEF TypeOK
<1>3. k[r] - 1 = Len(Batch(r))
  BY <1>0, <1>1, <1>2 DEF LoopShape
<1>4. /\ Distinct(valid[r])
      /\ attFailures[r] = PhaseAFailed(r)
      /\ Positions(valid[r]) = PhaseAPassed(r)
      /\ failedBroadcasts[r] = {} /\ sent[r] = {}
  <2>1. /\ Distinct(valid[r])
        /\ attFailures[r] = NotOkIn(Batch(r), k[r] - 1)
        /\ Positions(valid[r]) = OkIn(Batch(r), k[r] - 1)
        /\ failedBroadcasts[r] = {} /\ sent[r] = {}
    BY <1>0, <1>1 DEF AccInv
  <2>2. /\ NotOkIn(Batch(r), Len(Batch(r))) = PhaseAFailed(r)
        /\ OkIn(Batch(r), Len(Batch(r))) = PhaseAPassed(r)
    BY DEF NotOkIn, OkIn, PhaseAFailed, PhaseAPassed
  <2>. QED  BY <1>3, <2>1, <2>2
<1>5. Books(valid[r], {}, {}, 0)
  BY DEF Books
<1>6. /\ pc'[r] = "phaseB" /\ k'[r] - 1 = 0
      /\ PhaseAFailed(r)' = PhaseAFailed(r) /\ PhaseAPassed(r)' = PhaseAPassed(r)
  BY <1>1, <1>2 DEF PhaseAFailed, PhaseAPassed, Batch
<1>7. AccInv(r)'
  BY <1>1, <1>4, <1>5, <1>6 DEF AccInv, Answered
<1>8. \A s \in Reqs \ {r} : Keep(s)
  BY <1>1, <1>2 DEF Keep
<1>. QED  BY <1>7, <1>8

(* Phase B ends: every survivor has had its iteration. *)
LEMMA PhaseBEndAcc ==
    ASSUME AInv, NEW r \in Reqs, PhaseBEnd(r)
    PROVE  AccInv(r)' /\ \A s \in Reqs \ {r} : Keep(s)
<1>0. TypeOK /\ LoopShape(r) /\ AccInv(r)
  BY DEF AInv, IInv
<1>1. /\ pc[r] = "phaseB" /\ k[r] > Len(valid[r])
      /\ pc' = [pc EXCEPT ![r] = "respond"]
      /\ UNCHANGED <<body, k, valid, attFailures, failedBroadcasts, resp, sent>>
  BY DEF PhaseBEnd
<1>2. /\ pc \in [Reqs -> {"idle", "start", "phaseA", "phaseB", "respond", "done"}]
      /\ k \in [Reqs -> 1..(MaxBatch + 1)]
      /\ valid \in [Reqs -> Seq(1..MaxBatch)]
  BY <1>0 DEF TypeOK
<1>3. k[r] = Len(valid[r]) + 1
  <2>1. Len(valid[r]) \in Nat
    BY <1>2, LenProperties
  <2>. QED  BY <1>0, <1>1, <1>2, <2>1 DEF LoopShape
<1>4. /\ pc'[r] = "respond"
      /\ PhaseAFailed(r)' = PhaseAFailed(r) /\ PhaseAPassed(r)' = PhaseAPassed(r)
  BY <1>1, <1>2 DEF PhaseAFailed, PhaseAPassed, Batch
<1>5. AccInv(r)'
  BY <1>0, <1>1, <1>3, <1>4 DEF AccInv, Answered
<1>6. \A s \in Reqs \ {r} : Keep(s)
  BY <1>1, <1>2 DEF Keep
<1>. QED  BY <1>5, <1>6

(* The endpoint answers from the lists the handler kept. *)
LEMMA RespondAcc ==
    ASSUME AInv, NEW r \in Reqs, Respond(r)
    PROVE  AccInv(r)' /\ \A s \in Reqs \ {r} : Keep(s)
<1>0. TypeOK /\ AccInv(r)
  BY DEF AInv, IInv
<1>1. /\ pc[r] = "respond"
      /\ resp' = [resp EXCEPT ![r] = Answer(r)]
      /\ pc' = [pc EXCEPT ![r] = "done"]
      /\ UNCHANGED <<body, k, valid, attFailures, failedBroadcasts, sent>>
  BY DEF Respond, Answer
<1>2. /\ pc \in [Reqs -> {"idle", "start", "phaseA", "phaseB", "respond", "done"}]
      /\ resp \in [Reqs -> Responses]
  BY <1>0 DEF TypeOK
<1>3. /\ pc'[r] = "done" /\ resp'[r] = Answer(r)
      /\ Answer(r)' = Answer(r)
      /\ PhaseAFailed(r)' = PhaseAFailed(r) /\ PhaseAPassed(r)' = PhaseAPassed(r)
  BY <1>1, <1>2 DEF Answer, PhaseAFailed, PhaseAPassed, Batch
<1>4. /\ Distinct(valid[r])
      /\ attFailures[r] = PhaseAFailed(r)
      /\ Positions(valid[r]) = PhaseAPassed(r)
      /\ Books(valid[r], failedBroadcasts[r], sent[r], k[r] - 1)
      /\ k[r] = Len(valid[r]) + 1
  BY <1>0, <1>1 DEF AccInv
<1>5. AccInv(r)'
  BY <1>1, <1>3, <1>4 DEF AccInv
<1>6. \A s \in Reqs \ {r} : Keep(s)
  BY <1>1, <1>2 DEF Keep
<1>. QED  BY <1>5, <1>6

(***************************************************************************)
(* One iteration of Phase B.  A failed lookup or broadcast reports the     *)
(* loop index, a success records the survivor as sent, and a missing      *)
(* committee index ends the request with a 400 that carries no list.       *)
(***************************************************************************)
LEMMA PhaseBAcc ==
    ASSUME AInv, NEW r \in Reqs, PhaseB(r)
    PROVE  AccInv(r)' /\ \A s \in Reqs \ {r} : Keep(s)
<1>0. TypeOK /\ LoopShape(r) /\ AccInv(r)
  BY DEF AInv, IInv
<1>1. /\ pc[r] = "phaseB" /\ k[r] <= Len(valid[r])
      /\ UNCHANGED <<body, valid, attFailures>>
      /\ \/ NoValidators(r, valid[r][k[r]], EntryOf(r, valid[r][k[r]]))
         \/ NoCommitteeIndex(r, valid[r][k[r]], EntryOf(r, valid[r][k[r]]))
         \/ BroadcastFails(r, valid[r][k[r]], EntryOf(r, valid[r][k[r]]))
         \/ Delivered(r, valid[r][k[r]], EntryOf(r, valid[r][k[r]]))
  BY DEF PhaseB
<1>2. /\ pc \in [Reqs -> {"idle", "start", "phaseA", "phaseB", "respond", "done"}]
      /\ k \in [Reqs -> 1..(MaxBatch + 1)]
      /\ valid \in [Reqs -> Seq(1..MaxBatch)]
      /\ failedBroadcasts \in [Reqs -> SUBSET (1..MaxBatch)]
      /\ sent \in [Reqs -> SUBSET (1..MaxBatch)]
      /\ resp \in [Reqs -> Responses]
      /\ Len(valid[r]) \in Nat
  BY <1>0, LenProperties DEF TypeOK
<1>3. /\ Distinct(valid[r])
      /\ attFailures[r] = PhaseAFailed(r)
      /\ Positions(valid[r]) = PhaseAPassed(r)
      /\ Books(valid[r], failedBroadcasts[r], sent[r], k[r] - 1)
  BY <1>0, <1>1 DEF AccInv
<1>4. /\ k[r] \in Nat \ {0} /\ k[r] \in 1..Len(valid[r])
      /\ \A j \in 1..(k[r] - 1) : valid[r][j] # valid[r][k[r]]
  <2>1. k[r] \in Nat \ {0} /\ k[r] \in 1..Len(valid[r])
    BY <1>1, <1>2
  <2>. QED  BY <1>3, <2>1 DEF Distinct
<1>5. valid[r][k[r]] \notin sent[r]
  BY <1>3, <1>4, BooksFresh
<1>6. /\ Distinct(valid'[r]) /\ attFailures'[r] = PhaseAFailed(r)'
      /\ Positions(valid'[r]) = PhaseAPassed(r)'
  BY <1>1, <1>3 DEF PhaseAFailed, PhaseAPassed, Batch
<1>7. CASE \/ NoValidators(r, valid[r][k[r]], EntryOf(r, valid[r][k[r]]))
           \/ BroadcastFails(r, valid[r][k[r]], EntryOf(r, valid[r][k[r]]))
  <2>1. /\ failedBroadcasts' = [failedBroadcasts EXCEPT ![r] = @ \cup {k[r]}]
        /\ k' = [k EXCEPT ![r] = @ + 1]
        /\ UNCHANGED <<pc, resp, sent>>
    BY <1>7 DEF NoValidators, BroadcastFails
  <2>2. /\ failedBroadcasts'[r] = failedBroadcasts[r] \cup {k[r]}
        /\ k'[r] - 1 = k[r] /\ pc'[r] = "phaseB"
    BY <1>1, <1>2, <2>1
  <2>3. Books(valid[r], failedBroadcasts[r] \cup {k[r]}, sent[r], k[r])
    BY <1>3, <1>4, <1>5, BooksFail
  <2>4. AccInv(r)'
    BY <1>1, <1>6, <2>1, <2>2, <2>3 DEF AccInv, Answered
  <2>5. \A s \in Reqs \ {r} : Keep(s)
    BY <1>1, <1>2, <2>1 DEF Keep
  <2>. QED  BY <2>4, <2>5
<1>8. CASE NoCommitteeIndex(r, valid[r][k[r]], EntryOf(r, valid[r][k[r]]))
  <2>1. /\ resp' = [resp EXCEPT ![r] = [NoResponse EXCEPT !.code = 400]]
        /\ pc' = [pc EXCEPT ![r] = "done"]
        /\ UNCHANGED <<k, failedBroadcasts, sent>>
    BY <1>8 DEF NoCommitteeIndex
  <2>2. pc'[r] = "done" /\ resp'[r].code = 400 /\ resp'[r].failures = {}
    BY <1>2, <2>1 DEF NoResponse
  <2>3. AccInv(r)'
    BY <1>6, <2>2 DEF AccInv, Answered
  <2>4. \A s \in Reqs \ {r} : Keep(s)
    BY <1>1, <1>2, <2>1 DEF Keep
  <2>. QED  BY <2>3, <2>4
<1>9. CASE Delivered(r, valid[r][k[r]], EntryOf(r, valid[r][k[r]]))
  <2>1. /\ sent' = [sent EXCEPT ![r] = @ \cup {valid[r][k[r]]}]
        /\ k' = [k EXCEPT ![r] = @ + 1]
        /\ UNCHANGED <<pc, resp, failedBroadcasts>>
    BY <1>9 DEF Delivered
  <2>2. /\ sent'[r] = sent[r] \cup {valid[r][k[r]]}
        /\ k'[r] - 1 = k[r] /\ pc'[r] = "phaseB"
    BY <1>1, <1>2, <2>1
  <2>3. Books(valid[r], failedBroadcasts[r], sent[r] \cup {valid[r][k[r]]}, k[r])
    BY <1>3, <1>4, BooksSent
  <2>4. AccInv(r)'
    BY <1>1, <1>6, <2>1, <2>2, <2>3 DEF AccInv, Answered
  <2>5. \A s \in Reqs \ {r} : Keep(s)
    BY <1>1, <1>2, <2>1 DEF Keep
  <2>. QED  BY <2>4, <2>5
<1>. QED  BY <1>1, <1>7, <1>8, <1>9

(* Initially no request has been received: every list is empty. *)
THEOREM InitAInv == Init => AInv
<1> SUFFICES ASSUME Init PROVE AInv
  OBVIOUS
<1>1. IInv
  BY InitIInv
<1>2. Len(<<>>) = 0
  BY EmptySeq
<1>3. \A r \in Reqs : AccInv(r)
  BY <1>2 DEF Init, AccInv, Distinct, Answered
<1>. QED  BY <1>1, <1>3 DEF AInv

(* Every step keeps the books of every request. *)
THEOREM NextAInv == AInv /\ [Next]_vars => AInv'
<1> SUFFICES ASSUME AInv, [Next]_vars PROVE AInv'
  OBVIOUS
<1>1. IInv'
  BY NextIInv DEF AInv
<1>2. ASSUME NEW r \in Reqs, AccInv(r)', \A s \in Reqs \ {r} : Keep(s)
      PROVE  \A s \in Reqs : AccInv(s)'
  BY <1>2, KeepAcc DEF AInv
<1>3. CASE UNCHANGED vars
  <2>1. \A s \in Reqs : Keep(s)
    BY <1>3 DEF vars, reqVars, Keep
  <2>. QED  BY <1>1, <2>1, KeepAcc DEF AInv
<1>4. CASE \E r \in Reqs : Receive(r) \/ Handle(r)
  <2>1. PICK r \in Reqs : Receive(r) \/ Handle(r)
    BY <1>4
  <2>2. AccInv(r)' /\ \A s \in Reqs \ {r} : Keep(s)
    BY <2>1, ReceiveAcc, RejectAcc, AcceptAcc, PhaseAAcc, PhaseAEndAcc, PhaseBAcc,
       PhaseBEndAcc, RespondAcc DEF Handle
  <2>. QED  BY <1>1, <1>2, <2>2 DEF AInv
<1>. QED  BY <1>3, <1>4 DEF Next

(* The books hold in every reachable state. *)
THEOREM AInvHolds == Spec => []AInv
BY InitAInv, NextAInv, PTL DEF Spec

(* With no index reported, Phase B broadcast every survivor. *)
LEMMA BooksAllSent ==
    ASSUME NEW v, NEW S, Books(v, {}, S, Len(v))
    PROVE  S = Positions(v)
BY DEF Books, Positions

(* The reported indices name, one to one, the survivors that were not    *)
(* broadcast.                                                             *)
LEMMA BooksUnsent ==
    ASSUME NEW v \in Seq(Int), NEW F, NEW S, Books(v, F, S, Len(v)), Distinct(v)
    PROVE  ExistsBijection(F, Positions(v) \ S)
<1> DEFINE f == [j \in F |-> v[j]]
<1>1. F \subseteq 1..Len(v)
  BY DEF Books
<1>2. f \in [F -> Positions(v) \ S]
  BY <1>1 DEF Books, Positions
<1>3. IsInjective(f)
  BY <1>1 DEF IsInjective, Distinct
<1>4. \A x \in Positions(v) \ S : \E j \in F : f[j] = x
  BY DEF Books, Positions
<1>5. f \in Bijection(F, Positions(v) \ S)
  BY <1>2, <1>3, <1>4 DEF Bijection, Injection, Surjection
<1>. QED  BY <1>5 DEF ExistsBijection

(* So there are as many reported indices as survivors left unbroadcast. *)
LEMMA UnsentCount ==
    ASSUME NEW v \in Seq(Int), NEW F \in SUBSET (1..MaxBatch), NEW S,
           Books(v, F, S, Len(v)), Distinct(v)
    PROVE  /\ Cardinality(F) = Cardinality(Positions(v) \ S)
           /\ F # {} => Positions(v) \ S # {}
<1>1. IsFiniteSet(F)
  <2>1. IsFiniteSet(1..MaxBatch)
    BY FS_Interval
  <2>. QED  BY <2>1, FS_Subset
<1>2. ExistsBijection(F, Positions(v) \ S)
  BY BooksUnsent
<1>3. Cardinality(Positions(v) \ S) = Cardinality(F)
  BY <1>1, <1>2, FS_Bijection
<1>4. ASSUME NEW j \in F PROVE v[j] \in Positions(v) \ S
  BY DEF Books, Positions
<1>. QED  BY <1>3, <1>4

(* A finished request's response accounts for its batch. *)
LEMMA AccountingOf ==
    ASSUME TypeOK, NEW r \in Reqs, AccInv(r), pc[r] = "done"
    PROVE  /\ resp[r].code = 200 =>
                 PhaseAFailed(r) = {} /\ sent[r] = PhaseAPassed(r)
           /\ (resp[r].code = 400 /\ resp[r].failures # {}) =>
                 resp[r].failures = PhaseAFailed(r) /\ sent[r] = PhaseAPassed(r)
           /\ resp[r].code = 500 =>
                 /\ PhaseAPassed(r) \ sent[r] # {}
                 /\ Cardinality(resp[r].unbroadcast) = Cardinality(PhaseAPassed(r) \ sent[r])
<1>0. /\ valid[r] \in Seq(1..MaxBatch)
      /\ failedBroadcasts[r] \in SUBSET (1..MaxBatch)
  BY DEF TypeOK
<1>1. ASSUME Answered(r)
      PROVE  /\ resp[r] = Answer(r)
             /\ attFailures[r] = PhaseAFailed(r)
             /\ Positions(valid[r]) = PhaseAPassed(r)
             /\ Books(valid[r], failedBroadcasts[r], sent[r], Len(valid[r]))
             /\ Distinct(valid[r])
  BY <1>1 DEF AccInv
<1>2. valid[r] \in Seq(Int)
  BY <1>0, SeqMonotonic
<1>3. ASSUME failedBroadcasts[r] = {}, Answered(r)
      PROVE  sent[r] = PhaseAPassed(r)
  BY <1>1, <1>3, BooksAllSent
<1>4. ASSUME resp[r].code = 200
      PROVE  PhaseAFailed(r) = {} /\ sent[r] = PhaseAPassed(r)
  <2>1. Answered(r)
    BY <1>4 DEF Answered
  <2>2. failedBroadcasts[r] = {} /\ attFailures[r] = {}
    BY <1>1, <1>4, <2>1 DEF Answer
  <2>. QED  BY <1>1, <1>3, <2>1, <2>2
<1>5. ASSUME resp[r].code = 400, resp[r].failures # {}
      PROVE  resp[r].failures = PhaseAFailed(r) /\ sent[r] = PhaseAPassed(r)
  <2>1. Answered(r)
    BY <1>5 DEF Answered
  <2>2. failedBroadcasts[r] = {} /\ resp[r].failures = attFailures[r]
    BY <1>1, <1>5, <2>1 DEF Answer
  <2>. QED  BY <1>1, <1>3, <2>1, <2>2
<1>6. ASSUME resp[r].code = 500
      PROVE  /\ PhaseAPassed(r) \ sent[r] # {}
             /\ Cardinality(resp[r].unbroadcast) = Cardinality(PhaseAPassed(r) \ sent[r])
  <2>1. Answered(r)
    BY <1>6 DEF Answered
  <2>2. failedBroadcasts[r] # {} /\ resp[r].unbroadcast = failedBroadcasts[r]
    BY <1>1, <1>6, <2>1 DEF Answer
  <2>3. /\ Cardinality(failedBroadcasts[r]) = Cardinality(Positions(valid[r]) \ sent[r])
        /\ failedBroadcasts[r] # {} => Positions(valid[r]) \ sent[r] # {}
    BY <1>0, <1>1, <1>2, <2>1, UnsentCount
  <2>. QED  BY <1>1, <2>1, <2>2, <2>3
<1>. QED  BY <1>4, <1>5, <1>6

(***************************************************************************)
(* Batch accounting, for every number of requests and every batch bound:  *)
(* a 200 answers a batch whose every item passed Phase A and was          *)
(* broadcast; a 400 with a failure list lists exactly the Phase A         *)
(* failures and every other item was broadcast; a 500 reports as many     *)
(* indices as there are Phase A survivors left unbroadcast, and at least  *)
(* one.  This is what SubmitAttestations(V2) answers from the lists       *)
(* handleAttestations / handleAttestationsElectra keep.                    *)
(***************************************************************************)
THEOREM BatchAccountingHolds == Spec => []BatchAccounting
<1>1. AInv => BatchAccounting
  BY AccountingOf DEF AInv, IInv, BatchAccounting
<1>. QED  BY <1>1, AInvHolds, PTL
=============================================================================
