-------------------------- MODULE SyncSubmitProofs --------------------------
(***************************************************************************)
(* Proofs about SyncSubmit for every number of requests and every batch    *)
(* bound.                                                                  *)
(***************************************************************************)
EXTENDS SyncSubmit, SequenceTheorems, TLAPS

(* The positions a sequence lists, and the positions of r's batch handed   *)
(* to SubmitSyncMessage so far.                                            *)
Rng(s) == {s[j] : j \in 1..Len(s)}
Sub(r) == {i \in 1..MaxBatch : <<r, i>> \in submitted}

(***************************************************************************)
(* Where a request's two loops stand: validMessages lists converted        *)
(* positions; while converting, validMessages and msgFailures split the    *)
(* positions already scanned; while submitting they split the whole batch, *)
(* and the submitted positions are the first k - 1 of validMessages.  A    *)
(* 200 is only written after the last of them.  The properties are not    *)
(* inductive alone: Respond writes 200 from what these facts say about     *)
(* the two loops.                                                          *)
(***************************************************************************)
ShapeOf(p, kk, vm, mf, rs, sub, m) ==
    /\ \A j \in 1..Len(vm) : vm[j] \in 1..Len(m) /\ m[vm[j]]
    /\ Len(vm) <= Len(m)
    /\ p # "done" => rs = NoResponse
    /\ p \in {"idle", "start", "convert"} => sub = {}
    /\ p \in {"idle", "start"} => vm = <<>> /\ mf = {}
    /\ p = "convert" =>
          /\ kk <= Len(m) + 1
          /\ Len(vm) <= kk - 1
          /\ Rng(vm) \cup mf = 1..(kk - 1)
    /\ p = "submit" =>
          /\ Rng(vm) \cup mf = 1..Len(m)
          /\ kk <= Len(vm) + 1
          /\ sub = {vm[j] : j \in 1..(kk - 1)}
    /\ sub \subseteq Rng(vm)
    /\ (p = "done" /\ rs.code = 200) => 1..Len(m) \subseteq sub

Shape(r) ==
    ShapeOf(pc[r], k[r], validMessages[r], msgFailures[r], resp[r], Sub(r), Msgs(r))

IInv == TypeOK /\ \A r \in Reqs : Shape(r)

-----------------------------------------------------------------------------
USE SyncSubmitAssumption

(* A body's batch is a sequence of at most MaxBatch Booleans. *)
LEMMA BodyMsgs ==
    ASSUME NEW b \in Bodies
    PROVE  b.msgs \in Seq(BOOLEAN) /\ Len(b.msgs) <= MaxBatch
<1>1. CASE b \in [kind: {"eof", "malformed"}, msgs: {<<>>}]
  <2>1. b.msgs = <<>>
    BY <1>1
  <2>. QED  BY <2>1, EmptySeq
<1>2. CASE b \in [kind: {"array"}, msgs: UNION {[1..n -> BOOLEAN] : n \in 0..MaxBatch}]
  <2>1. PICK n \in 0..MaxBatch : b.msgs \in [1..n -> BOOLEAN]
    BY <1>2
  <2>2. b.msgs \in Seq(BOOLEAN)
    BY <2>1, SeqDef
  <2>3. Len(b.msgs) = n
    BY <2>1, <2>2, LenProperties
  <2>. QED  BY <2>2, <2>3
<1>. QED  BY <1>1, <1>2 DEF Bodies

LEMMA MsgsType ==
    ASSUME TypeOK, NEW r \in Reqs
    PROVE  Msgs(r) \in Seq(BOOLEAN) /\ Len(Msgs(r)) <= MaxBatch
BY BodyMsgs DEF TypeOK, Msgs

(* Appending x to s lists the positions of s and x. *)
LEMMA RngAppend ==
    ASSUME NEW S, NEW s \in Seq(S), NEW x \in S
    PROVE  Rng(Append(s, x)) = Rng(s) \cup {x}
<1>1. /\ Len(Append(s, x)) = Len(s) + 1
      /\ \A j \in 1..Len(s) : Append(s, x)[j] = s[j]
      /\ Append(s, x)[Len(s) + 1] = x
  BY AppendProperties
<1>. QED  BY <1>1 DEF Rng

(* The elements at the first n positions of a sequence are in its range. *)
LEMMA RngPrefix ==
    ASSUME NEW S, NEW s \in Seq(S), NEW n \in 0..Len(s)
    PROVE  {s[j] : j \in 1..n} \subseteq Rng(s)
BY DEF Rng

(* Every initial state satisfies IInv. *)
THEOREM InitIInv == Init => IInv
<1> SUFFICES ASSUME Init PROVE IInv
  OBVIOUS
<1>1. TypeOK
  <2>1. [kind |-> "eof", msgs |-> <<>>] \in Bodies
    BY DEF Bodies
  <2>2. <<>> \in Seq(1..MaxBatch)
    BY EmptySeq
  <2>3. NoResponse \in Responses
    BY DEF NoResponse, Responses
  <2>4. pc \in [Reqs -> {"idle", "start", "convert", "submit", "done"}]
    BY Zenon DEF Init
  <2>. QED  BY <2>1, <2>2, <2>3, <2>4 DEF Init, TypeOK
<1>2. ASSUME NEW r \in Reqs PROVE Shape(r)
  <2>1. /\ pc[r] = "idle" /\ validMessages[r] = <<>> /\ msgFailures[r] = {}
        /\ resp[r] = NoResponse /\ Sub(r) = {}
    BY DEF Init, Sub
  <2>2. ShapeOf("idle", k[r], <<>>, {}, NoResponse, {}, Msgs(r))
    <3>1. Msgs(r) = <<>>
      BY DEF Init, Msgs
    <3>. QED  BY <3>1, EmptySeq DEF ShapeOf, Rng
  <2>. QED  BY <2>1, <2>2 DEF Shape
<1>. QED  BY <1>1, <1>2 DEF IInv

(***************************************************************************)
(* The inductive step.  A step of request r changes only r's components    *)
(* and adds only pairs <<r, i>> to submitted, so the shape of every other  *)
(* request is kept (step <2>a).  Each action's case computes r's new       *)
(* components and shows that ShapeOf holds of them.                        *)
(***************************************************************************)
THEOREM NextIInv == IInv /\ [Next]_vars => IInv'
<1> SUFFICES ASSUME IInv, [Next]_vars PROVE IInv'
  OBVIOUS
<1>0. TypeOK /\ \A r \in Reqs : Shape(r)
  BY DEF IInv
<1>1. CASE UNCHANGED vars
  <2>1. UNCHANGED <<pc, body, k, validMessages, msgFailures, resp, submitted>>
    BY <1>1 DEF vars
  <2>2. TypeOK'
    BY <1>0, <2>1 DEF TypeOK
  <2>3. ASSUME NEW s \in Reqs PROVE Shape(s)'
    <3>1. Sub(s)' = Sub(s) /\ Msgs(s)' = Msgs(s)
      BY <2>1 DEF Sub, Msgs
    <3>. QED  BY <1>0, <2>1, <3>1 DEF Shape
  <2>. QED  BY <2>2, <2>3 DEF IInv
<1>2. ASSUME NEW r \in Reqs, Handle(r) PROVE IInv'
  <2>0. /\ Shape(r)
        /\ ShapeOf(pc[r], k[r], validMessages[r], msgFailures[r], resp[r], Sub(r), Msgs(r))
    BY <1>0 DEF Shape
  <2>a. ASSUME NEW s \in Reqs, s # r,
               pc' = [pc EXCEPT ![r] = pc'[r]], body' = [body EXCEPT ![r] = body'[r]],
               k' = [k EXCEPT ![r] = k'[r]],
               validMessages' = [validMessages EXCEPT ![r] = validMessages'[r]],
               msgFailures' = [msgFailures EXCEPT ![r] = msgFailures'[r]],
               resp' = [resp EXCEPT ![r] = resp'[r]],
               \E x : submitted' \in {submitted, submitted \cup {<<r, x>>}}
        PROVE  Shape(s)'
    <3>1. /\ pc'[s] = pc[s] /\ body'[s] = body[s] /\ k'[s] = k[s]
          /\ validMessages'[s] = validMessages[s] /\ msgFailures'[s] = msgFailures[s]
          /\ resp'[s] = resp[s]
      BY <1>0, <2>a DEF TypeOK
    <3>2. Sub(s)' = Sub(s) /\ Msgs(s)' = Msgs(s)
      BY <2>a, <3>1 DEF Sub, Msgs
    <3>. QED  BY <1>0, <3>1, <3>2 DEF Shape
  <2>1. CASE Receive(r)
    <3>1. PICK b \in Bodies : body' = [body EXCEPT ![r] = b]
      BY <2>1 DEF Receive
    <3>2. /\ pc[r] = "idle" /\ pc' = [pc EXCEPT ![r] = "start"]
          /\ UNCHANGED <<k, validMessages, msgFailures, resp, submitted>>
      BY <2>1 DEF Receive
    <3>3. TypeOK'
      BY <1>0, <3>1, <3>2 DEF TypeOK
    <3>4. /\ validMessages[r] = <<>> /\ msgFailures[r] = {}
          /\ resp[r] = NoResponse /\ Sub(r) = {}
      BY <2>0, <3>2 DEF ShapeOf
    <3>5. ShapeOf("start", k[r], <<>>, {}, NoResponse, {}, b.msgs)
      BY BodyMsgs, EmptySeq DEF ShapeOf, Rng
    <3>6. Shape(r)'
      <4>1. /\ pc'[r] = "start" /\ k'[r] = k[r] /\ Msgs(r)' = b.msgs
            /\ validMessages'[r] = <<>> /\ msgFailures'[r] = {}
            /\ resp'[r] = NoResponse /\ Sub(r)' = {}
        BY <1>0, <3>1, <3>2, <3>4 DEF TypeOK, Sub, Msgs
      <4>. QED  BY <3>5, <4>1 DEF Shape
    <3>7. \A s \in Reqs \ {r} : Shape(s)'
      BY <1>0, <2>a, <3>1, <3>2 DEF TypeOK
    <3>. QED  BY <3>3, <3>6, <3>7 DEF IInv
  <2>2. CASE RequestError(r)
    <3>1. /\ pc[r] = "start"
          /\ resp' = [resp EXCEPT ![r] = [NoResponse EXCEPT !.code = 400]]
          /\ pc' = [pc EXCEPT ![r] = "done"]
          /\ UNCHANGED <<body, k, validMessages, msgFailures, submitted>>
      BY <2>2 DEF RequestError
    <3>2. [NoResponse EXCEPT !.code = 400] \in Responses
      BY DEF NoResponse, Responses
    <3>3. TypeOK'
      BY <1>0, <3>1, <3>2 DEF TypeOK
    <3>4. /\ validMessages[r] = <<>> /\ msgFailures[r] = {} /\ Sub(r) = {}
          /\ resp'[r].code = 400
      BY <1>0, <2>0, <3>1 DEF ShapeOf, TypeOK, NoResponse
    <3>5. ShapeOf("done", k[r], <<>>, {}, resp'[r], {}, Msgs(r))
      BY <1>0, <3>4, MsgsType, EmptySeq DEF ShapeOf, Rng
    <3>6. Shape(r)'
      <4>1. /\ pc'[r] = "done" /\ k'[r] = k[r] /\ Msgs(r)' = Msgs(r)
            /\ validMessages'[r] = <<>> /\ msgFailures'[r] = {} /\ Sub(r)' = {}
        BY <1>0, <3>1, <3>4 DEF TypeOK, Sub, Msgs
      <4>. QED  BY <3>5, <4>1 DEF Shape
    <3>7. \A s \in Reqs \ {r} : Shape(s)'
      BY <1>0, <2>a, <3>1 DEF TypeOK
    <3>. QED  BY <3>3, <3>6, <3>7 DEF IInv
  <2>3. CASE Accept(r)
    <3>1. /\ pc[r] = "start"
          /\ pc' = [pc EXCEPT ![r] = "convert"]
          /\ k' = [k EXCEPT ![r] = 1]
          /\ UNCHANGED <<body, validMessages, msgFailures, resp, submitted>>
      BY <2>3 DEF Accept
    <3>2. TypeOK'
      BY <1>0, <3>1 DEF TypeOK
    <3>3. /\ validMessages[r] = <<>> /\ msgFailures[r] = {}
          /\ resp[r] = NoResponse /\ Sub(r) = {}
          /\ Len(Msgs(r)) \in Nat
      BY <1>0, <2>0, <3>1, MsgsType DEF ShapeOf
    <3>4. ShapeOf("convert", 1, <<>>, {}, NoResponse, {}, Msgs(r))
      BY <3>3, EmptySeq DEF ShapeOf, Rng
    <3>5. Shape(r)'
      <4>1. /\ pc'[r] = "convert" /\ k'[r] = 1 /\ Msgs(r)' = Msgs(r)
            /\ validMessages'[r] = <<>> /\ msgFailures'[r] = {}
            /\ resp'[r] = NoResponse /\ Sub(r)' = {}
        BY <1>0, <3>1, <3>3 DEF TypeOK, Sub, Msgs
      <4>. QED  BY <3>4, <4>1 DEF Shape
    <3>6. \A s \in Reqs \ {r} : Shape(s)'
      BY <1>0, <2>a, <3>1 DEF TypeOK
    <3>. QED  BY <3>2, <3>5, <3>6 DEF IInv
  <2>4. CASE Convert(r)
    <3>0. /\ pc[r] = "convert" /\ k[r] <= Len(Msgs(r))
          /\ k' = [k EXCEPT ![r] = @ + 1]
          /\ UNCHANGED <<pc, body, resp, submitted>>
      BY <2>4 DEF Convert
    <3>1. /\ Msgs(r) \in Seq(BOOLEAN) /\ Len(Msgs(r)) <= MaxBatch
          /\ validMessages[r] \in Seq(1..MaxBatch)
          /\ k[r] \in 1..Len(Msgs(r)) /\ k[r] \in 1..MaxBatch
          /\ Rng(validMessages[r]) \cup msgFailures[r] = 1..(k[r] - 1)
          /\ Sub(r) = {} /\ resp[r] = NoResponse
          /\ \A j \in 1..Len(validMessages[r]) :
                validMessages[r][j] \in 1..Len(Msgs(r)) /\ Msgs(r)[validMessages[r][j]]
          /\ Len(validMessages[r]) <= k[r] - 1
          /\ Len(Msgs(r)) \in Nat /\ Len(validMessages[r]) \in Nat
      <4>1. /\ Msgs(r) \in Seq(BOOLEAN) /\ Len(Msgs(r)) <= MaxBatch
            /\ validMessages[r] \in Seq(1..MaxBatch)
        BY <1>0, MsgsType DEF TypeOK
      <4>2. Len(Msgs(r)) \in Nat /\ Len(validMessages[r]) \in Nat
        BY <4>1, LenProperties
      <4>3. /\ Rng(validMessages[r]) \cup msgFailures[r] = 1..(k[r] - 1)
            /\ Sub(r) = {} /\ resp[r] = NoResponse
            /\ \A j \in 1..Len(validMessages[r]) :
                  validMessages[r][j] \in 1..Len(Msgs(r)) /\ Msgs(r)[validMessages[r][j]]
            /\ Len(validMessages[r]) <= k[r] - 1
        BY <2>0, <3>0 DEF ShapeOf
      <4>4. k[r] \in 1..Len(Msgs(r)) /\ k[r] \in 1..MaxBatch
        BY <1>0, <3>0, <4>1, <4>2 DEF TypeOK
      <4>. QED  BY <4>1, <4>2, <4>3, <4>4
    <3>2. /\ Msgs(r)' = Msgs(r) /\ pc'[r] = "convert" /\ k'[r] = k[r] + 1
          /\ resp'[r] = resp[r] /\ Sub(r)' = Sub(r)
      BY <1>0, <3>0 DEF TypeOK, Msgs, Sub
    <3>3. CASE Msgs(r)[k[r]]
      <4> DEFINE vm == Append(validMessages[r], k[r])
      <4>1. /\ validMessages' = [validMessages EXCEPT ![r] = Append(@, k[r])]
            /\ UNCHANGED msgFailures
        BY <2>4, <3>3 DEF Convert
      <4>2a. /\ vm \in Seq(1..MaxBatch)
             /\ Len(vm) = Len(validMessages[r]) + 1
             /\ \A j \in 1..Len(validMessages[r]) : vm[j] = validMessages[r][j]
             /\ vm[Len(validMessages[r]) + 1] = k[r]
        <5>1. validMessages[r] \in Seq(1..MaxBatch) /\ k[r] \in 1..MaxBatch
          BY <3>1
        <5>. QED  BY <5>1, AppendProperties
      <4>2b. Rng(vm) = Rng(validMessages[r]) \cup {k[r]}
        <5>1. validMessages[r] \in Seq(1..MaxBatch) /\ k[r] \in 1..MaxBatch
          BY <3>1
        <5>. QED  BY <5>1, RngAppend
      <4>2. /\ vm \in Seq(1..MaxBatch)
            /\ Len(vm) = Len(validMessages[r]) + 1
            /\ \A j \in 1..Len(validMessages[r]) : vm[j] = validMessages[r][j]
            /\ vm[Len(validMessages[r]) + 1] = k[r]
            /\ Rng(vm) = Rng(validMessages[r]) \cup {k[r]}
        BY <4>2a, <4>2b
      <4>3. TypeOK'
        BY <1>0, <3>0, <3>1, <4>1, <4>2 DEF TypeOK
      <4>4. ShapeOf("convert", k[r] + 1, vm, msgFailures[r], NoResponse, {}, Msgs(r))
        <5>0. Len(validMessages[r]) \in Nat /\ 1..(k[r] + 1 - 1) = 1..k[r]
          BY <3>1, LenProperties
        <5>1. \A j \in 1..Len(vm) : vm[j] \in 1..Len(Msgs(r)) /\ Msgs(r)[vm[j]]
          <6> SUFFICES ASSUME NEW j \in 1..Len(vm)
                       PROVE  vm[j] \in 1..Len(Msgs(r)) /\ Msgs(r)[vm[j]]
            OBVIOUS
          <6>1. CASE j \in 1..Len(validMessages[r])
            BY <3>1, <4>2, <6>1
          <6>2. CASE j = Len(validMessages[r]) + 1
            BY <3>1, <3>3, <4>2, <6>2
          <6>. QED  BY <4>2, <5>0, <6>1, <6>2
        <5>2. Rng(vm) \cup msgFailures[r] = 1..(k[r] + 1 - 1)
          <6>1. 1..(k[r] - 1) \cup {k[r]} = 1..k[r]
            BY <3>1
          <6>. QED  BY <3>1, <4>2, <5>0, <6>1
        <5>3. Len(vm) <= k[r] + 1 - 1 /\ Len(vm) <= Len(Msgs(r))
          BY <3>1, <4>2
        <5>. QED  BY <3>1, <5>0, <5>1, <5>2, <5>3 DEF ShapeOf
      <4>5. Shape(r)'
        <5>1. /\ validMessages'[r] = vm /\ msgFailures'[r] = msgFailures[r]
          BY <1>0, <4>1 DEF TypeOK
        <5>. QED  BY <3>1, <3>2, <4>4, <5>1 DEF Shape
      <4>6. \A s \in Reqs \ {r} : Shape(s)'
        BY <1>0, <2>a, <3>0, <4>1 DEF TypeOK
      <4>. QED  BY <4>3, <4>5, <4>6 DEF IInv
    <3>4. CASE ~Msgs(r)[k[r]]
      <4>1. /\ msgFailures' = [msgFailures EXCEPT ![r] = @ \cup {k[r]}]
            /\ UNCHANGED validMessages
        BY <2>4, <3>4 DEF Convert
      <4>3. TypeOK'
        <5>1. msgFailures[r] \cup {k[r]} \in SUBSET (1..MaxBatch)
          BY <1>0, <3>1 DEF TypeOK
        <5>2. msgFailures' \in [Reqs -> SUBSET (1..MaxBatch)]
          BY <1>0, <4>1, <5>1 DEF TypeOK
        <5>3. k' \in [Reqs -> 1..(MaxBatch + 1)]
          BY <1>0, <3>0, <3>1 DEF TypeOK
        <5>. QED  BY <1>0, <3>0, <4>1, <5>2, <5>3 DEF TypeOK
      <4>4. ShapeOf("convert", k[r] + 1, validMessages[r], msgFailures[r] \cup {k[r]},
                    NoResponse, {}, Msgs(r))
        <5>1. Rng(validMessages[r]) \cup (msgFailures[r] \cup {k[r]}) = 1..(k[r] + 1 - 1)
          <6>1. 1..(k[r] - 1) \cup {k[r]} = 1..(k[r] + 1 - 1)
            BY <3>1
          <6>. QED  BY <3>1, <6>1
        <5>. QED  BY <3>1, <5>1 DEF ShapeOf
      <4>5. Shape(r)'
        <5>1. /\ msgFailures'[r] = msgFailures[r] \cup {k[r]}
              /\ validMessages'[r] = validMessages[r]
          BY <1>0, <4>1 DEF TypeOK
        <5>. QED  BY <3>1, <3>2, <4>4, <5>1 DEF Shape
      <4>6. \A s \in Reqs \ {r} : Shape(s)'
        BY <1>0, <2>a, <3>0, <4>1 DEF TypeOK
      <4>. QED  BY <4>3, <4>5, <4>6 DEF IInv
    <3>. QED  BY <3>3, <3>4
  <2>5. CASE ConvertEnd(r)
    <3>0. /\ pc[r] = "convert" /\ k[r] > Len(Msgs(r))
          /\ pc' = [pc EXCEPT ![r] = "submit"]
          /\ k' = [k EXCEPT ![r] = 1]
          /\ UNCHANGED <<body, validMessages, msgFailures, resp, submitted>>
      BY <2>5 DEF ConvertEnd
    <3>a. /\ k[r] <= Len(Msgs(r)) + 1
          /\ Len(validMessages[r]) <= k[r] - 1
          /\ Rng(validMessages[r]) \cup msgFailures[r] = 1..(k[r] - 1)
          /\ Sub(r) = {} /\ resp[r] = NoResponse
          /\ \A j \in 1..Len(validMessages[r]) :
                validMessages[r][j] \in 1..Len(Msgs(r)) /\ Msgs(r)[validMessages[r][j]]
      BY <2>0, <3>0 DEF ShapeOf
    <3>b. /\ Len(Msgs(r)) \in Nat
          /\ validMessages[r] \in Seq(1..MaxBatch)
          /\ k[r] \in Int
      BY <1>0, MsgsType, LenProperties DEF TypeOK
    <3>1. /\ Len(Msgs(r)) \in Nat
          /\ validMessages[r] \in Seq(1..MaxBatch)
          /\ k[r] = Len(Msgs(r)) + 1
          /\ Rng(validMessages[r]) \cup msgFailures[r] = 1..Len(Msgs(r))
          /\ Sub(r) = {} /\ resp[r] = NoResponse
          /\ \A j \in 1..Len(validMessages[r]) :
                validMessages[r][j] \in 1..Len(Msgs(r)) /\ Msgs(r)[validMessages[r][j]]
          /\ Len(validMessages[r]) <= Len(Msgs(r))
      BY <3>0, <3>a, <3>b
    <3>2. TypeOK'
      BY <1>0, <3>0 DEF TypeOK
    <3>3. ShapeOf("submit", 1, validMessages[r], msgFailures[r], NoResponse, {}, Msgs(r))
      <4>1. Len(validMessages[r]) \in Nat
        BY <3>1, LenProperties
      <4>2. {validMessages[r][j] : j \in 1..(1 - 1)} = {}
        OBVIOUS
      <4>. QED  BY <3>1, <4>1, <4>2 DEF ShapeOf
    <3>4. Shape(r)'
      <4>1. /\ pc'[r] = "submit" /\ k'[r] = 1 /\ Msgs(r)' = Msgs(r)
            /\ validMessages'[r] = validMessages[r] /\ msgFailures'[r] = msgFailures[r]
            /\ resp'[r] = NoResponse /\ Sub(r)' = {}
        BY <1>0, <3>0, <3>1 DEF TypeOK, Msgs, Sub
      <4>. QED  BY <3>3, <4>1 DEF Shape
    <3>5. \A s \in Reqs \ {r} : Shape(s)'
      BY <1>0, <2>a, <3>0 DEF TypeOK
    <3>. QED  BY <3>2, <3>4, <3>5 DEF IInv
  <2>6. CASE Submit(r)
    <3> DEFINE vm == validMessages[r]
    <3>0. /\ pc[r] = "submit" /\ k[r] <= Len(vm)
          /\ submitted' = submitted \cup {<<r, vm[k[r]]>>}
          /\ k' = [k EXCEPT ![r] = @ + 1]
          /\ UNCHANGED <<pc, body, validMessages, msgFailures, resp>>
      BY <2>6 DEF Submit
    <3>a. /\ Sub(r) = {vm[j] : j \in 1..(k[r] - 1)}
          /\ Rng(vm) \cup msgFailures[r] = 1..Len(Msgs(r))
          /\ resp[r] = NoResponse
          /\ \A j \in 1..Len(vm) : vm[j] \in 1..Len(Msgs(r)) /\ Msgs(r)[vm[j]]
          /\ Len(vm) <= Len(Msgs(r))
      BY <2>0, <3>0 DEF ShapeOf
    <3>b. /\ vm \in Seq(1..MaxBatch) /\ Len(Msgs(r)) <= MaxBatch
          /\ k[r] \in 1..(MaxBatch + 1)
      BY <1>0, MsgsType DEF TypeOK
    <3>c. /\ k[r] \in 1..Len(vm)
          /\ vm[k[r]] \in 1..MaxBatch
      BY <3>0, <3>b, ElementOfSeq
    <3>1. /\ vm \in Seq(1..MaxBatch)
          /\ k[r] \in 1..Len(vm)
          /\ vm[k[r]] \in 1..MaxBatch
          /\ Sub(r) = {vm[j] : j \in 1..(k[r] - 1)}
          /\ Rng(vm) \cup msgFailures[r] = 1..Len(Msgs(r))
          /\ resp[r] = NoResponse
          /\ \A j \in 1..Len(vm) : vm[j] \in 1..Len(Msgs(r)) /\ Msgs(r)[vm[j]]
          /\ Len(vm) <= Len(Msgs(r)) /\ Len(Msgs(r)) <= MaxBatch
      BY <3>a, <3>b, <3>c
    <3>2. Sub(r)' = {vm[j] : j \in 1..((k[r] + 1) - 1)}
      <4>1. ASSUME NEW i PROVE i \in Sub(r)' <=> i \in Sub(r) \cup {vm[k[r]]}
        BY <3>0, <3>1 DEF Sub
      <4>2. Sub(r)' = Sub(r) \cup {vm[k[r]]}
        BY <4>1
      <4>3. 1..(k[r] + 1 - 1) = 1..(k[r] - 1) \cup {k[r]}
        BY <3>1
      <4>. QED  BY <3>1, <4>2, <4>3
    <3>3. TypeOK'
      <4>1. submitted' \subseteq Reqs \X (1..MaxBatch)
        BY <1>0, <3>0, <3>1 DEF TypeOK
      <4>2. k' \in [Reqs -> 1..(MaxBatch + 1)]
        BY <1>0, <3>0, <3>1 DEF TypeOK
      <4>. QED  BY <1>0, <3>0, <4>1, <4>2 DEF TypeOK
    <3>4. ShapeOf("submit", k[r] + 1, vm, msgFailures[r], NoResponse, Sub(r)', Msgs(r))
      <4>0. Len(vm) \in Nat /\ 1..(k[r] + 1 - 1) \subseteq 1..Len(vm)
        BY <3>1, LenProperties
      <4>1. Sub(r)' \subseteq Rng(vm)
        <5>0. vm \in Seq(1..MaxBatch) /\ (k[r] + 1) - 1 \in 0..Len(vm)
          BY <3>1
        <5>1. {vm[j] : j \in 1..((k[r] + 1) - 1)} \subseteq Rng(vm)
          BY <5>0, RngPrefix
        <5>. QED  BY <3>2, <5>1, Zenon
      <4>2. k[r] + 1 <= Len(vm) + 1
        BY <3>1, <4>0
      <4>. QED  BY <3>1, <3>2, <4>1, <4>2 DEF ShapeOf
    <3>5. Shape(r)'
      <4>1. /\ pc'[r] = "submit" /\ k'[r] = k[r] + 1 /\ Msgs(r)' = Msgs(r)
            /\ validMessages'[r] = vm /\ msgFailures'[r] = msgFailures[r]
            /\ resp'[r] = NoResponse
        BY <1>0, <3>0, <3>1 DEF TypeOK, Msgs
      <4>. QED  BY <3>4, <4>1 DEF Shape
    <3>6. \A s \in Reqs \ {r} : Shape(s)'
      BY <1>0, <2>a, <3>0 DEF TypeOK
    <3>. QED  BY <3>3, <3>5, <3>6 DEF IInv
  <2>7. CASE SubmitError(r)
    <3>1. PICK c \in SubmitErrorCodes :
                 resp' = [resp EXCEPT ![r] = [NoResponse EXCEPT !.code = c]]
      BY <2>7 DEF SubmitError
    <3>2. /\ pc[r] = "submit" /\ pc' = [pc EXCEPT ![r] = "done"]
          /\ UNCHANGED <<body, k, validMessages, msgFailures, submitted>>
      BY <2>7 DEF SubmitError
    <3>3. [NoResponse EXCEPT !.code = c] \in Responses /\ c # 200
      BY DEF NoResponse, Responses, SubmitErrorCodes
    <3>4. TypeOK'
      BY <1>0, <3>1, <3>2, <3>3 DEF TypeOK
    <3>5. resp'[r].code # 200
      BY <1>0, <3>1, <3>3 DEF TypeOK, NoResponse
    <3>6. ShapeOf("done", k[r], validMessages[r], msgFailures[r], resp'[r], Sub(r), Msgs(r))
      BY <2>0, <3>5 DEF ShapeOf
    <3>7. Shape(r)'
      <4>1. /\ pc'[r] = "done" /\ k'[r] = k[r] /\ Msgs(r)' = Msgs(r)
            /\ validMessages'[r] = validMessages[r] /\ msgFailures'[r] = msgFailures[r]
            /\ Sub(r)' = Sub(r)
        BY <1>0, <3>2 DEF TypeOK, Msgs, Sub
      <4>. QED  BY <3>6, <4>1 DEF Shape
    <3>8. \A s \in Reqs \ {r} : Shape(s)'
      BY <1>0, <2>a, <3>1, <3>2 DEF TypeOK
    <3>. QED  BY <3>4, <3>7, <3>8 DEF IInv
  <2>8. CASE Respond(r)
    <3> DEFINE vm == validMessages[r]
    <3>0. /\ pc[r] = "submit" /\ k[r] > Len(vm)
          /\ resp' = [resp EXCEPT ![r] =
                        IF msgFailures[r] # {}
                           THEN [code |-> 400, failures |-> msgFailures[r]]
                           ELSE [NoResponse EXCEPT !.code = 200]]
          /\ pc' = [pc EXCEPT ![r] = "done"]
          /\ UNCHANGED <<body, k, validMessages, msgFailures, submitted>>
      BY <2>8 DEF Respond
    <3>1. /\ vm \in Seq(1..MaxBatch)
          /\ k[r] = Len(vm) + 1
          /\ Sub(r) = {vm[j] : j \in 1..(k[r] - 1)}
          /\ Rng(vm) \cup msgFailures[r] = 1..Len(Msgs(r))
      BY <1>0, <2>0, <3>0 DEF TypeOK, ShapeOf
    <3>2. Sub(r) = Rng(vm)
      BY <3>1 DEF Rng
    <3>3. resp'[r] \in Responses
      <4>1. CASE msgFailures[r] # {}
        BY <1>0, <3>0, <4>1 DEF TypeOK, Responses
      <4>2. CASE msgFailures[r] = {}
        <5>1. resp'[r] = [NoResponse EXCEPT !.code = 200]
          BY <1>0, <3>0, <4>2 DEF TypeOK
        <5>2. [NoResponse EXCEPT !.code = 200] = [code |-> 200, failures |-> {}]
          BY DEF NoResponse
        <5>3. [code |-> 200, failures |-> {}] \in Responses
          BY DEF Responses
        <5>. QED  BY <5>1, <5>2, <5>3
      <4>. QED  BY <4>1, <4>2
    <3>4. TypeOK'
      BY <1>0, <3>0, <3>3 DEF TypeOK
    <3>5. resp'[r].code = 200 => msgFailures[r] = {}
      BY <1>0, <3>0 DEF TypeOK, NoResponse
    <3>6. ShapeOf("done", k[r], vm, msgFailures[r], resp'[r], Sub(r), Msgs(r))
      <4>1. resp'[r].code = 200 => 1..Len(Msgs(r)) \subseteq Sub(r)
        BY <3>1, <3>2, <3>5
      <4>. QED  BY <2>0, <4>1 DEF ShapeOf
    <3>7. Shape(r)'
      <4>1. /\ pc'[r] = "done" /\ k'[r] = k[r] /\ Msgs(r)' = Msgs(r)
            /\ validMessages'[r] = vm /\ msgFailures'[r] = msgFailures[r]
            /\ Sub(r)' = Sub(r)
        BY <1>0, <3>0 DEF TypeOK, Msgs, Sub
      <4>. QED  BY <3>6, <4>1 DEF Shape
    <3>8. \A s \in Reqs \ {r} : Shape(s)'
      BY <1>0, <2>a, <3>0 DEF TypeOK
    <3>. QED  BY <3>4, <3>7, <3>8 DEF IInv
  <2>. QED  BY <1>2, <2>1, <2>2, <2>3, <2>4, <2>5, <2>6, <2>7, <2>8 DEF Handle
<1>. QED  BY <1>1, <1>2 DEF Next

(* IInv holds in every reachable state. *)
THEOREM IInvHolds == Spec => []IInv
BY InitIInv, NextIInv, PTL DEF Spec

(***************************************************************************)
(* For any number of requests and any batch bound, SubmitSyncMessage only  *)
(* ever receives messages whose ToConsensus succeeded.                     *)
(***************************************************************************)
THEOREM SubmittedOnlyConvertedHolds == Spec => []SubmittedOnlyConverted
<1>1. IInv => SubmittedOnlyConverted
  <2> SUFFICES ASSUME IInv, NEW r \in Reqs, NEW i \in 1..MaxBatch, <<r, i>> \in submitted
               PROVE  i \in DOMAIN Msgs(r) /\ Msgs(r)[i]
    BY DEF SubmittedOnlyConverted
  <2>1. i \in Sub(r) /\ Shape(r) /\ TypeOK
    BY DEF Sub, IInv
  <2>2. PICK j \in 1..Len(validMessages[r]) : i = validMessages[r][j]
    BY <2>1 DEF Shape, ShapeOf, Rng
  <2>3. i \in 1..Len(Msgs(r)) /\ Msgs(r)[i]
    BY <2>1, <2>2 DEF Shape, ShapeOf
  <2>4. DOMAIN Msgs(r) = 1..Len(Msgs(r))
    BY <2>1, MsgsType, LenProperties
  <2>. QED  BY <2>3, <2>4
<1>. QED  BY <1>1, IInvHolds, PTL

(***************************************************************************)
(* For any number of requests and any batch bound, a request answered 200  *)
(* had every message of its batch converted and handed to                  *)
(* SubmitSyncMessage.                                                      *)
(***************************************************************************)
THEOREM SuccessMeansAllSubmittedHolds == Spec => []SuccessMeansAllSubmitted
<1>1. IInv => SuccessMeansAllSubmitted
  <2> SUFFICES ASSUME IInv, NEW r \in Reqs, resp[r].code = 200, NEW i \in DOMAIN Msgs(r)
               PROVE  <<r, i>> \in submitted
    BY DEF SuccessMeansAllSubmitted
  <2>1. Shape(r) /\ TypeOK
    BY DEF IInv
  <2>2. pc[r] = "done"
    BY <2>1 DEF Shape, ShapeOf, NoResponse
  <2>3. DOMAIN Msgs(r) = 1..Len(Msgs(r))
    BY <2>1, MsgsType, LenProperties
  <2>4. i \in Sub(r)
    BY <2>1, <2>2, <2>3 DEF Shape, ShapeOf
  <2>. QED  BY <2>4 DEF Sub
<1>. QED  BY <1>1, IInvHolds, PTL

(* Every reachable state of the sync submission handler is well typed. *)
THEOREM TypeCorrect == Spec => []TypeOK
<1>1. IInv => TypeOK
  BY DEF IInv
<1>. QED  BY <1>1, IInvHolds, PTL
=============================================================================
