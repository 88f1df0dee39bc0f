--------------------------- MODULE BLSChangesProofs ---------------------------
(***************************************************************************)
(* Proofs about BLSChanges for every value of its constants: the rate     *)
(* limit, the fork gate, that what the re-broadcast goroutine hands to    *)
(* Broadcast was admitted by the handler, and that it re-validates every   *)
(* change it broadcasts.                                                   *)
(***************************************************************************)
EXTENDS BLSChanges, SequenceTheorems, TLAPS

(* A change the handler admitted: every check passed, it is pooled and it *)
(* was sent on the operation feed.                                        *)
AdmittedIn(c, P, N) == c.check = "ok" /\ c \in P /\ c \in N
Admitted(c) == AdmittedIn(c, blsPool, notified)

(***************************************************************************)
(* The handler's side of a request.  What it keeps for broadcast was       *)
(* admitted, is never longer than the positions it has scanned, and is     *)
(* only non-empty when the state it read is at Capella or later; that      *)
(* state is never ahead of the head.  The goroutine's slice is a copy of   *)
(* it, so the same holds of the slice, against the head.                   *)
(***************************************************************************)
HInv(r) ==
    /\ pc[r] \in {"idle", "start"} => toBroadcast[r] = <<>>
    /\ Len(toBroadcast[r]) < k[r]
    /\ pc[r] = "loop" => k[r] <= Len(Batch(r)) + 1
    /\ toBroadcast[r] # <<>> => st[r].fork >= Capella
    /\ st[r].fork <= head.fork
    /\ \A j \in 1..Len(toBroadcast[r]) : Admitted(toBroadcast[r][j])
    /\ changes[r] # <<>> => head.fork >= Capella
    /\ \A j \in 1..Len(changes[r]) : Admitted(changes[r][j])
    /\ Len(changes[r]) <= MaxBatch

(***************************************************************************)
(* The goroutine's side: in a batch it has made no more Broadcast calls    *)
(* than positions it has passed, and the batch is no longer than the rate  *)
(* limit or the slice.                                                     *)
(***************************************************************************)
GInv(r) ==
    /\ attempts[r] <= RateLimit
    /\ gpc[r] = "send" => /\ attempts[r] + 1 <= pos[r]
                         /\ pos[r] <= limit[r] + 1
                         /\ limit[r] <= RateLimit
                         /\ limit[r] <= Len(changes[r])

IInv ==
    /\ TypeOK /\ ForkGate /\ BroadcastWasAdmitted
    /\ \A r \in Reqs : HInv(r) /\ GInv(r)

(* A step that leaves the requests of S alone. *)
Frame(S) ==
    \A s \in S :
        /\ pc'[s] = pc[s] /\ body'[s] = body[s] /\ st'[s] = st[s] /\ k'[s] = k[s]
        /\ toBroadcast'[s] = toBroadcast[s] /\ gpc'[s] = gpc[s]
        /\ changes'[s] = changes[s] /\ limit'[s] = limit[s] /\ pos'[s] = pos[s]
        /\ attempts'[s] = attempts[s]

(* The pool and the feed history only grow, and the head fork never goes back. *)
Grow == blsPool \subseteq blsPool' /\ notified \subseteq notified' /\ head.fork <= head'.fork

-----------------------------------------------------------------------------
USE BLSChangesAssumption

(* A body's batch is a sequence of at most MaxBatch changes. *)
LEMMA BodyBatch ==
    ASSUME NEW b \in Bodies
    PROVE  b.changes \in Seq(Changes) /\ Len(b.changes) <= MaxBatch
<1>1. CASE b \in [kind: {"eof", "malformed"}, changes: {<<>>}]
  <2>1. b.changes = <<>>
    BY <1>1
  <2>. QED  BY <2>1, EmptySeq
<1>2. CASE b \in [kind: {"array"}, changes: UNION {[1..n -> Changes] : n \in 0..MaxBatch}]
  <2>1. PICK n \in 0..MaxBatch : b.changes \in [1..n -> Changes]
    BY <1>2
  <2>2. b.changes \in Seq(Changes)
    BY <2>1, SeqDef
  <2>3. Len(b.changes) = n
    BY <2>1, <2>2, LenProperties
  <2>. QED  BY <2>2, <2>3
<1>. QED  BY <1>1, <1>2 DEF Bodies

(* Under the type invariant every request's batch is such a sequence. *)
LEMMA BatchType ==
    ASSUME TypeOK, NEW r \in Reqs
    PROVE  Batch(r) \in Seq(Changes) /\ Len(Batch(r)) <= MaxBatch
BY BodyBatch DEF TypeOK, Batch

(* The handler's part of a request left alone by a step is kept. *)
LEMMA OthersKeepH ==
    ASSUME TypeOK, TypeOK', NEW S, Frame(S), Grow, NEW s \in S \cap Reqs, HInv(s)
    PROVE  HInv(s)'
<1>1. /\ pc'[s] = pc[s] /\ st'[s] = st[s] /\ k'[s] = k[s]
      /\ toBroadcast'[s] = toBroadcast[s] /\ changes'[s] = changes[s]
      /\ Batch(s)' = Batch(s)
  BY DEF Frame, Batch
<1>2. /\ st[s].fork \in 0..MaxFork /\ head.fork \in 0..MaxFork /\ head'.fork \in 0..MaxFork
      /\ st[s].fork <= head.fork /\ head.fork <= head'.fork
  BY DEF TypeOK, States, HInv, Grow
<1>3. st'[s].fork <= head'.fork
  BY <1>1, <1>2
<1>4. \A j \in 1..Len(toBroadcast[s]) : Admitted(toBroadcast[s][j])'
  BY <1>1 DEF HInv, Grow, Admitted, AdmittedIn
<1>5. \A j \in 1..Len(changes[s]) : Admitted(changes[s][j])'
  BY <1>1 DEF HInv, Grow, Admitted, AdmittedIn
<1>6. changes[s] # <<>> => head'.fork >= Capella
  BY <1>2 DEF HInv, Capella
<1>. QED  BY <1>1, <1>3, <1>4, <1>5, <1>6 DEF HInv

(* The goroutine's part of a request left alone by a step is kept. *)
LEMMA OthersKeepG ==
    ASSUME NEW S, Frame(S), NEW s \in S, GInv(s)
    PROVE  GInv(s)'
BY DEF Frame, GInv

(* A step of r that keeps the types, frames the other requests, keeps     *)
(* the pool, the feed history and the head fork growing, and keeps the    *)
(* two history invariants and r's parts keeps IInv.                       *)
LEMMA StepIInv ==
    ASSUME IInv, NEW r \in Reqs,
           TypeOK', Frame(Reqs \ {r}), Grow,
           ForkGate', BroadcastWasAdmitted', HInv(r)', GInv(r)'
    PROVE  IInv'
<1>1. \A s \in Reqs \ {r} : HInv(s)' /\ GInv(s)'
  BY OthersKeepH, OthersKeepG DEF IInv
<1>. QED  BY <1>1 DEF IInv

(* Every initial state (nothing received, empty pool) satisfies IInv. *)
THEOREM InitIInv == Init => IInv
<1> SUFFICES ASSUME Init PROVE IInv
  OBVIOUS
<1>1. head \in States /\ head.fork \in 0..MaxFork
  BY DEF Init, States
<1>2. [kind |-> "eof", changes |-> <<>>] \in Bodies
  BY DEF Bodies
<1>3. <<>> \in Seq(Changes) /\ Len(<<>>) = 0
  BY EmptySeq
<1>4. NoResponse \in [code: {0, 200, 400, 500}, failures: SUBSET (1..MaxBatch)]
  BY DEF NoResponse
<1>5. TypeOK
  BY <1>1, <1>2, <1>3, <1>4 DEF Init, TypeOK
<1>6. \A r \in Reqs : HInv(r) /\ GInv(r)
  BY <1>1, <1>3 DEF Init, HInv, GInv
<1>. QED  BY <1>5, <1>6 DEF IInv, Init, ForkGate, BroadcastWasAdmitted
(* A client sends r. *)
LEMMA ReceiveIInv ==
    ASSUME IInv, NEW r \in Reqs, Receive(r)
    PROVE  IInv'
<1>0. TypeOK /\ HInv(r) /\ GInv(r)
  BY DEF IInv
<1>1. PICK b \in Bodies : body' = [body EXCEPT ![r] = b]
  BY DEF Receive
<1>2. /\ pc[r] = "idle" /\ pc' = [pc EXCEPT ![r] = "start"]
      /\ UNCHANGED <<head, st, k, failures, toBroadcast, resp, ctxDone, loopVars,
                     blsPool, notified, broadcast>>
  BY DEF Receive
<1>3. TypeOK'
  BY <1>0, <1>1, <1>2 DEF TypeOK, loopVars
<1>4. Frame(Reqs \ {r}) /\ Grow
  <2>1. Frame(Reqs \ {r})
    BY <1>0, <1>1, <1>2 DEF Frame, loopVars
  <2>2. Grow
    BY <1>0, <1>1, <1>2 DEF Grow, TypeOK, States
  <2>. QED  BY <2>1, <2>2
<1>5. HInv(r)'
  BY <1>0, <1>2 DEF HInv, TypeOK, loopVars, Admitted, AdmittedIn
<1>6. GInv(r)'
  BY <1>0, <1>2 DEF GInv, loopVars
<1>. QED  BY <1>2, <1>3, <1>4, <1>5, <1>6, StepIInv DEF IInv, ForkGate, BroadcastWasAdmitted

(* HeadStateReadOnly fails: 500. *)
LEMMA NoHeadStateIInv ==
    ASSUME IInv, NEW r \in Reqs, NoHeadState(r)
    PROVE  IInv'
<1>0. TypeOK /\ HInv(r) /\ GInv(r)
  BY DEF IInv
<1>1. /\ pc[r] = "start" /\ pc' = [pc EXCEPT ![r] = "done"]
      /\ resp' = [resp EXCEPT ![r] = [NoResponse EXCEPT !.code = 500]]
      /\ UNCHANGED <<head, body, st, k, failures, toBroadcast, ctxDone, loopVars,
                     blsPool, notified, broadcast>>
  BY DEF NoHeadState
<1>2. [NoResponse EXCEPT !.code = 500] \in [code: {0, 200, 400, 500}, failures: SUBSET (1..MaxBatch)]
  BY DEF NoResponse
<1>3. TypeOK'
  BY <1>0, <1>1, <1>2 DEF TypeOK, loopVars
<1>4. Frame(Reqs \ {r}) /\ Grow
  <2>1. Frame(Reqs \ {r})
    BY <1>0, <1>1 DEF Frame, loopVars
  <2>2. Grow
    BY <1>0, <1>1 DEF Grow, TypeOK, States
  <2>. QED  BY <2>1, <2>2
<1>5. HInv(r)'
  BY <1>0, <1>1 DEF HInv, TypeOK, loopVars, Batch, Admitted, AdmittedIn
<1>6. GInv(r)'
  BY <1>0, <1>1 DEF GInv, loopVars
<1>. QED  BY <1>1, <1>3, <1>4, <1>5, <1>6, StepIInv DEF IInv, ForkGate, BroadcastWasAdmitted

(* The head state is read and the body checked: 400, or on to the loop. *)
LEMMA StartIInv ==
    ASSUME IInv, NEW r \in Reqs, Start(r)
    PROVE  IInv'
<1>0. TypeOK /\ HInv(r) /\ GInv(r)
  BY DEF IInv
<1>1. /\ pc[r] = "start"
      /\ st' = [st EXCEPT ![r] = head]
      /\ \/ /\ resp' = [resp EXCEPT ![r] = [NoResponse EXCEPT !.code = 400]]
            /\ pc' = [pc EXCEPT ![r] = "done"]
         \/ /\ pc' = [pc EXCEPT ![r] = "loop"]
            /\ UNCHANGED resp
      /\ k' = [k EXCEPT ![r] = 1]
      /\ UNCHANGED <<head, body, failures, toBroadcast, ctxDone, loopVars,
                     blsPool, notified, broadcast>>
  BY DEF Start
<1>2. [NoResponse EXCEPT !.code = 400] \in [code: {0, 200, 400, 500}, failures: SUBSET (1..MaxBatch)]
  BY DEF NoResponse
<1>3. TypeOK'
  <2>0. /\ pc \in [Reqs -> {"idle", "start", "loop", "done"}]
        /\ resp \in [Reqs -> [code: {0, 200, 400, 500}, failures: SUBSET (1..MaxBatch)]]
        /\ st \in [Reqs -> States] /\ k \in [Reqs -> 1..(MaxBatch + 1)]
        /\ head \in States
    BY <1>0 DEF TypeOK
  <2>1. pc' \in [Reqs -> {"idle", "start", "loop", "done"}]
    BY <2>0, <1>1
  <2>2. resp' \in [Reqs -> [code: {0, 200, 400, 500}, failures: SUBSET (1..MaxBatch)]]
    BY <2>0, <1>1, <1>2
  <2>3. st' \in [Reqs -> States] /\ k' \in [Reqs -> 1..(MaxBatch + 1)]
    BY <2>0, <1>1
  <2>. QED  BY <1>0, <1>1, <2>1, <2>2, <2>3 DEF TypeOK, loopVars
<1>4. Frame(Reqs \ {r}) /\ Grow
  <2>1. Frame(Reqs \ {r})
    <3>0. /\ pc \in [Reqs -> {"idle", "start", "loop", "done"}]
          /\ st \in [Reqs -> States] /\ k \in [Reqs -> 1..(MaxBatch + 1)]
      BY <1>0 DEF TypeOK
    <3>1. \A s \in Reqs \ {r} : pc'[s] = pc[s]
      BY <3>0, <1>1
    <3>2. \A s \in Reqs \ {r} : st'[s] = st[s] /\ k'[s] = k[s]
      BY <3>0, <1>1
    <3>. QED  BY <1>1, <3>1, <3>2 DEF Frame, loopVars
  <2>2. Grow
    BY <1>0, <1>1 DEF Grow, TypeOK, States
  <2>. QED  BY <2>1, <2>2
<1>5. /\ toBroadcast[r] = <<>> /\ Len(<<>>) = 0
      /\ Len(Batch(r)) \in Nat /\ head.fork \in 0..MaxFork
  BY <1>0, <1>1, BatchType, LenProperties, EmptySeq DEF HInv, TypeOK, States
<1>6. /\ pc'[r] \in {"done", "loop"} /\ k'[r] = 1 /\ st'[r] = head
      /\ toBroadcast'[r] = <<>> /\ Batch(r)' = Batch(r) /\ changes'[r] = changes[r]
  BY <1>0, <1>1, <1>5 DEF TypeOK, Batch, loopVars
<1>7. HInv(r)'
  BY <1>0, <1>1, <1>5, <1>6 DEF HInv, loopVars, Admitted, AdmittedIn
<1>8. GInv(r)'
  BY <1>0, <1>1 DEF GInv, loopVars
<1>. QED  BY <1>1, <1>3, <1>4, <1>7, <1>8, StepIInv DEF IInv, ForkGate, BroadcastWasAdmitted

(* The handler returns, and net/http cancels the request context. *)
LEMMA CancelContextIInv ==
    ASSUME IInv, NEW r \in Reqs, CancelContext(r)
    PROVE  IInv'
<1>1. /\ ctxDone' = [ctxDone EXCEPT ![r] = TRUE]
      /\ UNCHANGED <<head, handlerVars, loopVars, blsPool, notified, broadcast>>
  BY DEF CancelContext
<1>2. TypeOK'
  BY <1>1 DEF IInv, TypeOK, handlerVars, loopVars
<1>3. \A s \in Reqs : HInv(s)' /\ GInv(s)'
  BY <1>1 DEF IInv, HInv, GInv, Admitted, AdmittedIn, Batch, handlerVars, loopVars
<1>. QED  BY <1>1, <1>2, <1>3 DEF IInv, ForkGate, BroadcastWasAdmitted
(* A change the handler keeps for broadcast, appended to an admitted     *)
(* prefix, leaves every kept change admitted.                            *)
LEMMA AppendAdmitted ==
    ASSUME NEW t \in Seq(Changes), NEW c \in Changes, NEW P, NEW N,
           \A j \in 1..Len(t) : AdmittedIn(t[j], P, N), AdmittedIn(c, P, N)
    PROVE  /\ Append(t, c) \in Seq(Changes)
           /\ Len(Append(t, c)) = Len(t) + 1
           /\ \A j \in 1..Len(Append(t, c)) : AdmittedIn(Append(t, c)[j], P, N)
<1>1. /\ Append(t, c) \in Seq(Changes)
      /\ Len(Append(t, c)) = Len(t) + 1
      /\ \A j \in 1..Len(t) : Append(t, c)[j] = t[j]
      /\ Append(t, c)[Len(t) + 1] = c
  BY AppendProperties
<1>2. Len(t) \in Nat
  BY LenProperties
<1>3. \A j \in 1..Len(Append(t, c)) : j \in 1..Len(t) \/ j = Len(t) + 1
  BY <1>1, <1>2
<1>. QED  BY <1>1, <1>3

(* One iteration of the handler loop over the batch. *)
LEMMA ItemIInv ==
    ASSUME IInv, NEW r \in Reqs, Item(r)
    PROVE  IInv'
<1>0. TypeOK /\ HInv(r) /\ GInv(r) /\ ForkGate /\ BroadcastWasAdmitted
  BY DEF IInv
<1> DEFINE c == Batch(r)[k[r]]
<1> DEFINE t == toBroadcast[r]
<1>1. /\ pc[r] = "loop" /\ k[r] <= Len(Batch(r))
      /\ k' = [k EXCEPT ![r] = @ + 1]
      /\ UNCHANGED <<head, pc, body, st, resp, ctxDone, loopVars, broadcast>>
  BY DEF Item
<1>2. /\ Batch(r) \in Seq(Changes) /\ Len(Batch(r)) <= MaxBatch
      /\ k[r] \in 1..Len(Batch(r))
  <2>1. Batch(r) \in Seq(Changes) /\ Len(Batch(r)) <= MaxBatch
    BY <1>0, BatchType
  <2>2. Len(Batch(r)) \in Nat /\ k[r] \in 1..(MaxBatch + 1)
    BY <1>0, <2>1, LenProperties DEF TypeOK
  <2>. QED  BY <1>1, <2>1, <2>2
<1>3. c \in Changes
  BY <1>2, ElementOfSeq
<1>4. /\ toBroadcast \in [Reqs -> Seq(Changes)] /\ k \in [Reqs -> 1..(MaxBatch + 1)]
      /\ failures \in [Reqs -> SUBSET (1..MaxBatch)] /\ st \in [Reqs -> States]
      /\ head \in States /\ blsPool \subseteq Changes /\ notified \subseteq Changes
      /\ t \in Seq(Changes) /\ Len(t) \in Nat
  BY <1>0, LenProperties DEF TypeOK
<1>5. k' \in [Reqs -> 1..(MaxBatch + 1)] /\ k'[r] = k[r] + 1
  BY <1>1, <1>2, <1>4
<1>6. /\ Len(t) < k[r]
      /\ \A j \in 1..Len(t) : Admitted(t[j])
      /\ t # <<>> => st[r].fork >= Capella
  BY <1>0 DEF HInv
<1>7. CASE ValidInState(st[r], c) /\ c.check # "sig"
  <2>1. /\ notified' = notified \cup {c} /\ blsPool' = blsPool \cup {c}
        /\ toBroadcast' = [toBroadcast EXCEPT ![r] =
                             IF st[r].fork >= Capella THEN Append(t, c) ELSE t]
        /\ failures' = failures
    BY <1>7 DEF Item
  <2>2. c.check = "ok"
    BY <1>3, <1>7 DEF Changes, ValidInState
  <2>3. /\ AdmittedIn(c, blsPool', notified')
        /\ \A j \in 1..Len(t) : AdmittedIn(t[j], blsPool', notified')
    BY <2>1, <2>2, <1>6 DEF Admitted, AdmittedIn
  <2>4. /\ toBroadcast'[r] \in Seq(Changes)
        /\ Len(toBroadcast'[r]) <= Len(t) + 1
        /\ \A j \in 1..Len(toBroadcast'[r]) : AdmittedIn(toBroadcast'[r][j], blsPool', notified')
        /\ toBroadcast'[r] # <<>> => st[r].fork >= Capella
    <3>1. CASE st[r].fork >= Capella
      <4>1. toBroadcast'[r] = Append(t, c)
        BY <1>4, <2>1, <3>1
      <4>2. /\ Append(t, c) \in Seq(Changes)
            /\ Len(Append(t, c)) = Len(t) + 1
            /\ \A j \in 1..Len(Append(t, c)) : AdmittedIn(Append(t, c)[j], blsPool', notified')
        BY <1>3, <1>4, <2>3, AppendAdmitted
      <4>. QED  BY <3>1, <4>1, <4>2, <1>4
    <3>2. CASE ~(st[r].fork >= Capella)
      BY <1>4, <1>6, <2>1, <2>3, <3>2
    <3>. QED  BY <3>1, <3>2
  <2>5. TypeOK'
    <3>1. toBroadcast' \in [Reqs -> Seq(Changes)]
      BY <1>4, <2>1, <2>4
    <3>2. blsPool' \subseteq Changes /\ notified' \subseteq Changes
      BY <1>3, <1>4, <2>1
    <3>. QED  BY <1>0, <1>1, <1>5, <2>1, <3>1, <3>2 DEF TypeOK, loopVars
  <2>6. Frame(Reqs \ {r}) /\ Grow
    <3>1. \A s \in Reqs \ {r} : toBroadcast'[s] = toBroadcast[s] /\ k'[s] = k[s]
      BY <1>4, <2>1, <1>1
    <3>2. Frame(Reqs \ {r})
      BY <1>1, <3>1 DEF Frame, loopVars
    <3>3. Grow
      BY <1>1, <1>4, <2>1 DEF Grow, States
    <3>. QED  BY <3>2, <3>3
  <2>7. HInv(r)'
    <3>1. /\ pc'[r] = "loop" /\ st'[r] = st[r] /\ changes'[r] = changes[r]
          /\ Batch(r)' = Batch(r) /\ head' = head
      BY <1>1 DEF Batch, loopVars
    <3>2. \A j \in 1..Len(changes[r]) : AdmittedIn(changes[r][j], blsPool', notified')
      BY <1>0, <2>1 DEF HInv, Admitted, AdmittedIn
    <3>3. Len(toBroadcast'[r]) < k'[r] /\ k'[r] <= Len(Batch(r)) + 1
      <4>1. Len(toBroadcast'[r]) \in Nat
        BY <2>4, LenProperties
      <4>. QED  BY <1>1, <1>2, <1>4, <1>5, <1>6, <2>4, <4>1
    <3>. QED  BY <1>0, <2>4, <3>1, <3>2, <3>3 DEF HInv, Admitted, AdmittedIn
  <2>8. GInv(r)'
    BY <1>0, <1>1 DEF GInv, loopVars
  <2>9. BroadcastWasAdmitted'
    BY <1>0, <1>1, <2>1 DEF BroadcastWasAdmitted
  <2>. QED  BY <1>0, <1>1, <2>5, <2>6, <2>7, <2>8, <2>9, StepIInv DEF ForkGate
<1>8. CASE ~(ValidInState(st[r], c) /\ c.check # "sig")
  <2>1. /\ failures' = [failures EXCEPT ![r] = @ \cup {k[r]}]
        /\ UNCHANGED <<notified, blsPool, toBroadcast>>
    BY <1>8 DEF Item
  <2>2. TypeOK'
    <3>1. failures' \in [Reqs -> SUBSET (1..MaxBatch)]
      BY <1>2, <1>4, <2>1
    <3>. QED  BY <1>0, <1>1, <1>5, <2>1, <3>1 DEF TypeOK, loopVars
  <2>3. Frame(Reqs \ {r}) /\ Grow
    <3>1. \A s \in Reqs \ {r} : k'[s] = k[s]
      BY <1>4, <1>1
    <3>2. Frame(Reqs \ {r})
      BY <1>1, <2>1, <3>1 DEF Frame, loopVars
    <3>3. Grow
      BY <1>1, <1>4, <2>1 DEF Grow, States
    <3>. QED  BY <3>2, <3>3
  <2>4. HInv(r)'
    <3>1. /\ pc'[r] = "loop" /\ st'[r] = st[r] /\ changes'[r] = changes[r]
          /\ Batch(r)' = Batch(r) /\ head' = head /\ toBroadcast'[r] = t
      BY <1>1, <2>1 DEF Batch, loopVars
    <3>2. Len(t) < k'[r] /\ k'[r] <= Len(Batch(r)) + 1
      BY <1>2, <1>4, <1>5, <1>6
    <3>. QED  BY <1>0, <2>1, <3>1, <3>2 DEF HInv, Admitted, AdmittedIn
  <2>5. GInv(r)'
    BY <1>0, <1>1 DEF GInv, loopVars
  <2>. QED  BY <1>0, <1>1, <2>1, <2>2, <2>3, <2>4, <2>5, StepIInv
            DEF ForkGate, BroadcastWasAdmitted
<1>. QED  BY <1>7, <1>8

(* The handler starts the goroutine with what it kept, and answers. *)
LEMMA RespondIInv ==
    ASSUME IInv, NEW r \in Reqs, Respond(r)
    PROVE  IInv'
<1>0. TypeOK /\ HInv(r) /\ GInv(r)
  BY DEF IInv
<1> DEFINE t == toBroadcast[r]
<1>1. /\ pc[r] = "loop" /\ k[r] > Len(Batch(r))
      /\ gpc' = [gpc EXCEPT ![r] = "batch"]
      /\ changes' = [changes EXCEPT ![r] = t]
      /\ resp' = [resp EXCEPT ![r] = [code |-> IF failures[r] # {} THEN 400 ELSE 200,
                                      failures |-> failures[r]]]
      /\ pc' = [pc EXCEPT ![r] = "done"]
      /\ UNCHANGED <<head, body, st, k, failures, toBroadcast, ctxDone, limit, gst,
                     pos, attempts, blsPool, notified, broadcast>>
  BY DEF Respond
<1>2. /\ pc \in [Reqs -> {"idle", "start", "loop", "done"}]
      /\ gpc \in [Reqs -> {"none", "batch", "send", "wait", "exit"}]
      /\ changes \in [Reqs -> Seq(Changes)] /\ toBroadcast \in [Reqs -> Seq(Changes)]
      /\ resp \in [Reqs -> [code: {0, 200, 400, 500}, failures: SUBSET (1..MaxBatch)]]
      /\ failures \in [Reqs -> SUBSET (1..MaxBatch)] /\ k \in [Reqs -> 1..(MaxBatch + 1)]
      /\ st \in [Reqs -> States] /\ head \in States
      /\ Len(t) \in Nat
  BY <1>0, LenProperties DEF TypeOK
<1>3. TypeOK'
  <2>1. /\ pc' \in [Reqs -> {"idle", "start", "loop", "done"}]
        /\ gpc' \in [Reqs -> {"none", "batch", "send", "wait", "exit"}]
        /\ changes' \in [Reqs -> Seq(Changes)]
    BY <1>1, <1>2
  <2>2. resp' \in [Reqs -> [code: {0, 200, 400, 500}, failures: SUBSET (1..MaxBatch)]]
    BY <1>1, <1>2
  <2>. QED  BY <1>0, <1>1, <2>1, <2>2 DEF TypeOK
<1>4. Frame(Reqs \ {r}) /\ Grow
  <2>1. \A s \in Reqs \ {r} : pc'[s] = pc[s] /\ gpc'[s] = gpc[s] /\ changes'[s] = changes[s]
    BY <1>1, <1>2
  <2>2. Frame(Reqs \ {r})
    BY <1>1, <2>1 DEF Frame
  <2>3. Grow
    BY <1>1, <1>2 DEF Grow, States
  <2>. QED  BY <2>2, <2>3
<1>5. HInv(r)'
  <3>1. /\ pc'[r] = "done" /\ changes'[r] = t /\ toBroadcast'[r] = t
        /\ st'[r] = st[r] /\ k'[r] = k[r] /\ head' = head /\ Batch(r)' = Batch(r)
    BY <1>1, <1>2 DEF Batch
  <3>2. /\ Len(t) < k[r] /\ st[r].fork <= head.fork
        /\ t # <<>> => st[r].fork >= Capella
        /\ \A j \in 1..Len(t) : Admitted(t[j])
    BY <1>0 DEF HInv
  <3>3. st[r].fork \in Nat /\ head.fork \in Nat /\ k[r] \in 1..(MaxBatch + 1)
    BY <1>2 DEF States
  <3>4. /\ t # <<>> => head.fork >= Capella
        /\ Len(t) <= MaxBatch
    BY <3>2, <3>3, <1>2 DEF Capella
  <3>. QED  BY <1>0, <1>1, <3>1, <3>2, <3>4 DEF HInv, Admitted, AdmittedIn
<1>6. GInv(r)'
  <2>1. gpc'[r] = "batch"
    BY <1>1, <1>2
  <2>. QED  BY <1>0, <1>1, <2>1 DEF GInv
<1>. QED  BY <1>1, <1>3, <1>4, <1>5, <1>6, StepIInv DEF IInv, ForkGate, BroadcastWasAdmitted

(* broadcastBLSBatch begins: the batch size and its head state. *)
LEMMA BatchStartIInv ==
    ASSUME IInv, NEW r \in Reqs, BatchStart(r)
    PROVE  IInv'
<1>0. TypeOK /\ HInv(r) /\ GInv(r)
  BY DEF IInv
<1> DEFINE lim == IF Len(changes[r]) < RateLimit THEN Len(changes[r]) ELSE RateLimit
<1>1. /\ gpc[r] = "batch"
      /\ limit' = [limit EXCEPT ![r] = lim]
      /\ \/ /\ gst' = [gst EXCEPT ![r] = head]
            /\ pos' = [pos EXCEPT ![r] = 1]
            /\ attempts' = [attempts EXCEPT ![r] = 0]
            /\ gpc' = [gpc EXCEPT ![r] = "send"]
         \/ /\ gpc' = [gpc EXCEPT ![r] = IF changes[r] = <<>> THEN "exit" ELSE "wait"]
            /\ UNCHANGED <<gst, pos, attempts>>
      /\ UNCHANGED <<head, handlerVars, ctxDone, changes, blsPool, notified, broadcast>>
  BY DEF BatchStart
<1>2. /\ gpc \in [Reqs -> {"none", "batch", "send", "wait", "exit"}]
      /\ limit \in [Reqs -> 0..MaxBatch] /\ gst \in [Reqs -> States]
      /\ pos \in [Reqs -> 1..(MaxBatch + 1)] /\ attempts \in [Reqs -> Nat]
      /\ head \in States /\ changes \in [Reqs -> Seq(Changes)]
      /\ Len(changes[r]) \in Nat /\ Len(changes[r]) <= MaxBatch
  BY <1>0, LenProperties DEF TypeOK, HInv
<1>3. lim \in 0..MaxBatch /\ lim <= RateLimit /\ lim <= Len(changes[r])
  BY <1>2
<1>4. TypeOK'
  <2>1. /\ limit' \in [Reqs -> 0..MaxBatch] /\ gst' \in [Reqs -> States]
        /\ pos' \in [Reqs -> 1..(MaxBatch + 1)] /\ attempts' \in [Reqs -> Nat]
        /\ gpc' \in [Reqs -> {"none", "batch", "send", "wait", "exit"}]
    <3>1. limit' \in [Reqs -> 0..MaxBatch]
      BY <1>1, <1>2, <1>3
    <3>2. CASE /\ gst' = [gst EXCEPT ![r] = head]
               /\ pos' = [pos EXCEPT ![r] = 1]
               /\ attempts' = [attempts EXCEPT ![r] = 0]
               /\ gpc' = [gpc EXCEPT ![r] = "send"]
      BY <1>2, <3>1, <3>2
    <3>3. CASE /\ gpc' = [gpc EXCEPT ![r] = IF changes[r] = <<>> THEN "exit" ELSE "wait"]
               /\ UNCHANGED <<gst, pos, attempts>>
      BY <1>2, <3>1, <3>3
    <3>. QED  BY <1>1, <3>2, <3>3
  <2>. QED  BY <1>0, <1>1, <2>1 DEF TypeOK, handlerVars
<1>5. Frame(Reqs \ {r}) /\ Grow
  <2>1. \A s \in Reqs \ {r} : /\ gpc'[s] = gpc[s] /\ limit'[s] = limit[s]
                              /\ pos'[s] = pos[s] /\ attempts'[s] = attempts[s]
    BY <1>1, <1>2
  <2>2. Frame(Reqs \ {r})
    BY <1>1, <2>1 DEF Frame, handlerVars
  <2>3. Grow
    BY <1>1, <1>2 DEF Grow, States
  <2>. QED  BY <2>2, <2>3
<1>6. HInv(r)'
  BY <1>0, <1>1 DEF HInv, Admitted, AdmittedIn, Batch, handlerVars
<1>7. GInv(r)'
  <2>1. CASE gpc'[r] = "send"
    <3>1. attempts'[r] = 0 /\ pos'[r] = 1 /\ limit'[r] = lim /\ changes'[r] = changes[r]
      BY <1>1, <1>2, <2>1
    <3>. QED  BY <1>3, <3>1 DEF GInv
  <2>2. CASE gpc'[r] # "send"
    <3>1. attempts'[r] = attempts[r]
      BY <1>1, <1>2, <2>2
    <3>. QED  BY <1>0, <2>2, <3>1 DEF GInv
  <2>. QED  BY <2>1, <2>2
<1>. QED  BY <1>1, <1>4, <1>5, <1>6, <1>7, StepIInv DEF IInv, ForkGate, BroadcastWasAdmitted

(* One change of the batch, re-validated and handed to Broadcast. *)
LEMMA SendIInv ==
    ASSUME IInv, NEW r \in Reqs, Send(r)
    PROVE  IInv'
<1>0. TypeOK /\ HInv(r) /\ GInv(r) /\ ForkGate /\ BroadcastWasAdmitted
  BY DEF IInv
<1> DEFINE c == changes[r][pos[r]]
<1>1. /\ gpc[r] = "send" /\ pos[r] <= limit[r]
      /\ pos' = [pos EXCEPT ![r] = @ + 1]
      /\ UNCHANGED <<head, handlerVars, ctxDone, gpc, changes, limit, gst,
                     blsPool, notified>>
  BY DEF Send
<1>2. /\ pos \in [Reqs -> 1..(MaxBatch + 1)] /\ attempts \in [Reqs -> Nat]
      /\ limit \in [Reqs -> 0..MaxBatch] /\ head \in States
      /\ changes \in [Reqs -> Seq(Changes)]
      /\ broadcast \subseteq [change: Changes, fork: 0..MaxFork]
  BY <1>0 DEF TypeOK
<1>3. /\ attempts[r] + 1 <= pos[r] /\ limit[r] <= RateLimit
      /\ limit[r] <= Len(changes[r])
  BY <1>0, <1>1 DEF GInv
<1>4. pos[r] \in 1..Len(changes[r])
  BY <1>1, <1>2, <1>3
<1>5. c \in Changes /\ Admitted(c)
  BY <1>0, <1>2, <1>4, ElementOfSeq DEF HInv
<1>6. changes[r] # <<>> /\ head.fork >= Capella
  BY <1>0, <1>4 DEF HInv
<1>7. pos' \in [Reqs -> 1..(MaxBatch + 1)] /\ pos'[r] = pos[r] + 1
  BY <1>1, <1>2
<1>8. /\ \/ /\ broadcast' = broadcast \cup {[change |-> c, fork |-> head.fork]}
            /\ attempts' = [attempts EXCEPT ![r] = @ + 1]
         \/ UNCHANGED <<broadcast, attempts>>
  BY DEF Send
<1>9. /\ attempts' \in [Reqs -> Nat]
      /\ attempts'[r] <= attempts[r] + 1
      /\ \A s \in Reqs \ {r} : attempts'[s] = attempts[s]
  BY <1>2, <1>8
<1>10. /\ broadcast' \subseteq [change: Changes, fork: 0..MaxFork]
       /\ ForkGate' /\ BroadcastWasAdmitted'
  <2>1. [change |-> c, fork |-> head.fork] \in [change: Changes, fork: 0..MaxFork]
    BY <1>2, <1>5 DEF States
  <2>2. ForkGate'
    BY <1>0, <1>6, <1>8 DEF ForkGate
  <2>3. BroadcastWasAdmitted'
    BY <1>0, <1>1, <1>5, <1>8 DEF BroadcastWasAdmitted, Admitted, AdmittedIn
  <2>. QED  BY <1>2, <1>8, <2>1, <2>2, <2>3
<1>11. TypeOK'
  BY <1>0, <1>1, <1>7, <1>9, <1>10 DEF TypeOK, handlerVars
<1>12. Frame(Reqs \ {r}) /\ Grow
  <2>1. \A s \in Reqs \ {r} : pos'[s] = pos[s]
    BY <1>1, <1>2
  <2>2. Frame(Reqs \ {r})
    BY <1>1, <1>9, <2>1 DEF Frame, handlerVars
  <2>3. Grow
    BY <1>1, <1>2 DEF Grow, States
  <2>. QED  BY <2>2, <2>3
<1>13. HInv(r)'
  BY <1>0, <1>1 DEF HInv, Admitted, AdmittedIn, Batch, handlerVars
<1>14. GInv(r)'
  BY <1>1, <1>3, <1>7, <1>9, <1>2 DEF GInv
<1>. QED  BY <1>10, <1>11, <1>12, <1>13, <1>14, StepIInv

(* The batch is cut from the slice; the goroutine leaves or waits. *)
LEMMA BatchEndIInv ==
    ASSUME IInv, NEW r \in Reqs, BatchEnd(r)
    PROVE  IInv'
<1>0. TypeOK /\ HInv(r) /\ GInv(r)
  BY DEF IInv
<1> DEFINE u == changes[r]
<1> DEFINE m == limit[r] + 1
<1> DEFINE n == Len(u)
<1>1. /\ gpc[r] = "send" /\ pos[r] > limit[r]
      /\ changes' = [changes EXCEPT ![r] = SubSeq(u, m, n)]
      /\ gpc' = [gpc EXCEPT ![r] = IF n = limit[r] THEN "exit" ELSE "wait"]
      /\ UNCHANGED <<head, handlerVars, ctxDone, limit, gst, pos, attempts,
                     blsPool, notified, broadcast>>
  BY DEF BatchEnd
<1>2. /\ gpc \in [Reqs -> {"none", "batch", "send", "wait", "exit"}]
      /\ changes \in [Reqs -> Seq(Changes)] /\ limit \in [Reqs -> 0..MaxBatch]
      /\ u \in Seq(Changes) /\ n \in Nat
  BY <1>0, LenProperties DEF TypeOK
<1>3. /\ limit[r] <= n /\ n <= MaxBatch
      /\ \A j \in 1..n : Admitted(u[j])
      /\ u # <<>> => head.fork >= Capella
  BY <1>0, <1>1 DEF GInv, HInv
<1>4. /\ SubSeq(u, m, n) \in Seq(Changes)
      /\ Len(SubSeq(u, m, n)) = n - limit[r]
      /\ \A i \in 1..(n - m + 1) : SubSeq(u, m, n)[i] = u[m + i - 1]
  <2>1. \A i \in m..n : u[i] \in Changes
    BY <1>2, ElementOfSeq
  <2>2. m \in Int /\ n \in Int
    BY <1>2
  <2>3. Len(SubSeq(u, m, n)) = IF m <= n THEN n - m + 1 ELSE 0
    BY <2>1, <2>2, SubSeqProperties
  <2>. QED  BY <1>2, <1>3, <2>1, <2>2, <2>3, SubSeqProperties
<1>5. TypeOK'
  <2>1. changes' \in [Reqs -> Seq(Changes)]
        /\ gpc' \in [Reqs -> {"none", "batch", "send", "wait", "exit"}]
    BY <1>1, <1>2, <1>4
  <2>. QED  BY <1>0, <1>1, <2>1 DEF TypeOK, handlerVars
<1>6. Frame(Reqs \ {r}) /\ Grow
  <2>1. \A s \in Reqs \ {r} : gpc'[s] = gpc[s] /\ changes'[s] = changes[s]
    BY <1>1, <1>2
  <2>2. Frame(Reqs \ {r})
    BY <1>1, <2>1 DEF Frame, handlerVars
  <2>3. Grow
    BY <1>0, <1>1 DEF Grow, TypeOK, States
  <2>. QED  BY <2>2, <2>3
<1>7. HInv(r)'
  <2>1. changes'[r] = SubSeq(u, m, n)
    BY <1>1, <1>2
  <2>2. Len(changes'[r]) <= MaxBatch
    BY <1>2, <1>3, <1>4, <2>1
  <2>3. \A j \in 1..Len(changes'[r]) : AdmittedIn(changes'[r][j], blsPool', notified')
    <3>0. /\ Len(changes'[r]) = n - limit[r]
          /\ limit[r] \in 0..MaxBatch /\ limit[r] <= n /\ n \in Nat
      BY <1>2, <1>3, <1>4, <2>1
    <3>1. \A j \in 1..Len(changes'[r]) : m + j - 1 \in 1..n /\ j \in 1..(n - m + 1)
      BY <3>0 DEF m
    <3>2. \A j \in 1..Len(changes'[r]) : changes'[r][j] = u[m + j - 1]
      BY <1>4, <2>1, <3>1
    <3>3. \A i \in 1..n : AdmittedIn(u[i], blsPool', notified')
      BY <1>1, <1>3 DEF Admitted
    <3>. QED  BY <3>1, <3>2, <3>3
  <2>4. changes'[r] # <<>> => head'.fork >= Capella
    <3>1. changes'[r] # <<>> => u # <<>>
      BY <1>2, <1>3, <1>4, <2>1, EmptySeq
    <3>. QED  BY <1>1, <1>3, <3>1
  <2>. QED  BY <1>0, <1>1, <2>2, <2>3, <2>4 DEF HInv, Admitted, AdmittedIn, Batch, handlerVars
<1>8. GInv(r)'
  <2>1. gpc'[r] # "send"
    BY <1>1, <1>2
  <2>. QED  BY <1>0, <1>1, <2>1 DEF GInv
<1>. QED  BY <1>1, <1>5, <1>6, <1>7, <1>8, StepIInv DEF IInv, ForkGate, BroadcastWasAdmitted

(* The goroutine waits: the ticker fires, or the context is done. *)
LEMMA WaitIInv ==
    ASSUME IInv, NEW r \in Reqs, Tick(r) \/ Canceled(r)
    PROVE  IInv'
<1>0. TypeOK /\ HInv(r) /\ GInv(r)
  BY DEF IInv
<1>1. /\ gpc[r] = "wait"
      /\ gpc' = [gpc EXCEPT ![r] = "batch"] \/ gpc' = [gpc EXCEPT ![r] = "exit"]
      /\ UNCHANGED <<head, handlerVars, ctxDone, changes, limit, gst, pos, attempts,
                     blsPool, notified, broadcast>>
  BY DEF Tick, Canceled
<1>2. gpc \in [Reqs -> {"none", "batch", "send", "wait", "exit"}]
  BY <1>0 DEF TypeOK
<1>3. /\ gpc' \in [Reqs -> {"none", "batch", "send", "wait", "exit"}]
      /\ gpc'[r] # "send"
      /\ \A s \in Reqs \ {r} : gpc'[s] = gpc[s]
  BY <1>1, <1>2
<1>4. TypeOK'
  BY <1>0, <1>1, <1>3 DEF TypeOK, handlerVars
<1>5. Frame(Reqs \ {r}) /\ Grow
  <2>1. Frame(Reqs \ {r})
    BY <1>1, <1>3 DEF Frame, handlerVars
  <2>2. Grow
    BY <1>0, <1>1 DEF Grow, TypeOK, States
  <2>. QED  BY <2>1, <2>2
<1>6. HInv(r)'
  BY <1>0, <1>1 DEF HInv, Admitted, AdmittedIn, Batch, handlerVars
<1>7. GInv(r)'
  BY <1>0, <1>1, <1>3 DEF GInv
<1>. QED  BY <1>1, <1>4, <1>5, <1>6, <1>7, StepIInv DEF IInv, ForkGate, BroadcastWasAdmitted

(* The chain moves on: the head fork advances, or credentials change. *)
LEMMA ChainIInv ==
    ASSUME IInv, AdvanceFork \/ CredentialsChanged
    PROVE  IInv'
<1>0. TypeOK /\ ForkGate /\ BroadcastWasAdmitted /\ \A r \in Reqs : HInv(r) /\ GInv(r)
  BY DEF IInv
<1>1. /\ head \in States
      /\ \/ head.fork < MaxFork /\ head' = [head EXCEPT !.fork = @ + 1]
         \/ \E v \in Validators \ head.executionCreds :
               head' = [head EXCEPT !.executionCreds = @ \cup {v}]
      /\ UNCHANGED <<handlerVars, ctxDone, loopVars, blsPool, notified, broadcast>>
  BY <1>0 DEF AdvanceFork, CredentialsChanged, TypeOK
<1>2. head' \in States /\ head.fork <= head'.fork
  BY <1>1 DEF States
<1>3. TypeOK'
  BY <1>0, <1>1, <1>2 DEF TypeOK, handlerVars, loopVars
<1>4. Frame(Reqs) /\ Grow
  BY <1>1, <1>2 DEF Frame, Grow, handlerVars, loopVars
<1>5. \A r \in Reqs : HInv(r)' /\ GInv(r)'
  BY <1>0, <1>3, <1>4, OthersKeepH, OthersKeepG
<1>. QED  BY <1>0, <1>1, <1>3, <1>5 DEF IInv, ForkGate, BroadcastWasAdmitted

(* Every step of the system keeps IInv. *)
THEOREM NextIInv == IInv /\ [Next]_vars => IInv'
<1> SUFFICES ASSUME IInv, [Next]_vars PROVE IInv'
  OBVIOUS
<1>1. CASE UNCHANGED vars
  BY <1>1 DEF vars, handlerVars, loopVars, IInv, TypeOK, ForkGate, BroadcastWasAdmitted,
            HInv, GInv, Admitted, Batch
<1>2. CASE \E r \in Reqs : Receive(r) \/ Handler(r) \/ Loop(r)
  <2>1. PICK r \in Reqs : Receive(r) \/ Handler(r) \/ Loop(r)
    BY <1>2
  <2>. QED  BY <2>1, ReceiveIInv, NoHeadStateIInv, StartIInv, ItemIInv, RespondIInv,
               CancelContextIInv, BatchStartIInv, SendIInv, BatchEndIInv, WaitIInv
            DEF Handler, Loop
<1>3. CASE AdvanceFork \/ CredentialsChanged
  BY <1>3, ChainIInv
<1>. QED  BY <1>1, <1>2, <1>3 DEF Next

(* IInv holds in every reachable state. *)
THEOREM IInvHolds == Spec => []IInv
BY InitIInv, NextIInv, PTL DEF Spec

(***************************************************************************)
(* Type correctness of the handler, its goroutine and the chain.           *)
(***************************************************************************)
THEOREM TypeCorrect == Spec => []TypeOK
<1>1. IInv => TypeOK
  BY DEF IInv
<1>. QED  BY <1>1, IInvHolds, PTL

(***************************************************************************)
(* The goroutine never makes more than RateLimit Broadcast calls in one    *)
(* batch (broadcastBLSBatch's limit), whatever the number of requests,     *)
(* the batch sizes and the rate limit.                                     *)
(***************************************************************************)
THEOREM RateLimitRespectedHolds == Spec => []RateLimitRespected
<1>1. IInv => RateLimitRespected
  BY DEF IInv, GInv, RateLimitRespected
<1>. QED  BY <1>1, IInvHolds, PTL

(***************************************************************************)
(* No change is handed to Broadcast while the head is before Capella: the  *)
(* handler only keeps changes for broadcast once Capella is reached, and   *)
(* the head never goes back.                                               *)
(***************************************************************************)
THEOREM ForkGateHolds == Spec => []ForkGate
<1>1. IInv => ForkGate
  BY DEF IInv
<1>. QED  BY <1>1, IInvHolds, PTL

(***************************************************************************)
(* Every change the goroutine broadcasts passed every check of the handler *)
(* at submission, the signature included, and is pooled and announced.     *)
(***************************************************************************)
THEOREM BroadcastWasAdmittedHolds == Spec => []BroadcastWasAdmitted
<1>1. IInv => BroadcastWasAdmitted
  BY DEF IInv
<1>. QED  BY <1>1, IInvHolds, PTL
=============================================================================
