--------------------------- MODULE SingletonsProofs ---------------------------
(***************************************************************************)
(* Proofs about Singletons for every value of its constants: the exit and  *)
(* slashing handlers never announce or broadcast an operation that is not  *)
(* pooled, a failed broadcast leaves the operation pooled, and a           *)
(* submission answered 200 staged its operation.                           *)
(***************************************************************************)
EXTENDS Singletons, SequenceTheorems, TLAPS

(***************************************************************************)
(* What each request contributes to the invariant.  A request about to     *)
(* broadcast has already pooled its operation (the insert comes first in   *)
(* every handler), a request whose broadcast failed has ended, and a       *)
(* submission that ended with nothing written staged its operation.  The   *)
(* first two facts are what makes the three properties inductive: the      *)
(* Broadcast and BroadcastError steps only know that the request is at     *)
(* "broadcast", and its entry never changes after that.                   *)
(***************************************************************************)
ReqInv(r) ==
    /\ pc[r] = "broadcast" => EntryOf(r) \in pool
    /\ r \in bfailed => pc[r] = "done" /\ EntryOf(r) \in pool
    /\ (pc[r] = "done" /\ endpoint[r] \in SubmitEndpoints /\ written[r] = <<>>)
          => /\ EntryOf(r) \in pool
             /\ \/ EntryOf(r) \in broadcast
                \/ endpoint[r] # "exit" /\ DisableBroadcastSlashings

IInv == TypeOK /\ AnnouncedOnlyWhenStaged /\ \A r \in Reqs : ReqInv(r)

(* A step of request r leaves every other request's state alone. *)
Frame(r) ==
    \A s \in Reqs \ {r} :
        /\ pc'[s] = pc[s] /\ endpoint'[s] = endpoint[s] /\ op'[s] = op[s]
        /\ variant'[s] = variant[s] /\ written'[s] = written[s]
        /\ (s \in bfailed' <=> s \in bfailed)

-----------------------------------------------------------------------------
USE SingletonsAssumption

(* Every input a client may send is an exit or a slashing input. *)
LEMMA InputsType ==
    ASSUME NEW ep
    PROVE  InputsFor(ep) \subseteq ExitInputs \cup SlashingInputs
<1>1. NoInput \in SlashingInputs
  BY DEF NoInput, SlashingInputs
<1>. QED  BY <1>1 DEF InputsFor

(* A status code appended to a response log gives a non-empty log. *)
LEMMA AppendCode ==
    ASSUME NEW w \in Seq({200, 400, 500}), NEW c \in {200, 400, 500}
    PROVE  Append(w, c) \in Seq({200, 400, 500}) /\ Append(w, c) # <<>>
<1>1. Append(w, c) \in Seq({200, 400, 500}) /\ Len(Append(w, c)) = Len(w) + 1
  BY AppendProperties
<1>2. Len(w) \in Nat /\ Len(<<>>) = 0
  BY LenProperties, EmptySeq
<1>. QED  BY <1>1, <1>2

(* The other requests keep their part of the invariant across a step of r *)
(* that only adds to the pool and the broadcaster's record.                *)
LEMMA OthersKeep ==
    ASSUME NEW r \in Reqs, Frame(r),
           pool \subseteq pool', broadcast \subseteq broadcast',
           NEW s \in Reqs \ {r}, ReqInv(s)
    PROVE  ReqInv(s)'
<1>1. /\ pc'[s] = pc[s] /\ endpoint'[s] = endpoint[s] /\ written'[s] = written[s]
      /\ (s \in bfailed' <=> s \in bfailed)
  BY DEF Frame
<1>2. EntryOf(s)' = EntryOf(s)
  BY DEF Frame, EntryOf
<1>. QED  BY <1>1, <1>2 DEF ReqInv

(* A step that keeps the types, frames the other requests, only adds to   *)
(* the pool and the broadcaster's record, and keeps AnnouncedOnlyWhen-     *)
(* Staged and r's part of the invariant keeps IInv.                        *)
LEMMA StepIInv ==
    ASSUME IInv, NEW r \in Reqs,
           TypeOK', Frame(r),
           pool \subseteq pool', broadcast \subseteq broadcast',
           AnnouncedOnlyWhenStaged', ReqInv(r)'
    PROVE  IInv'
<1>1. \A s \in Reqs \ {r} : ReqInv(s)'
  BY OthersKeep DEF IInv
<1>. QED  BY <1>1 DEF IInv

(***************************************************************************)
(* A step of r that writes a non-empty response and ends the handler,      *)
(* touching nothing shared but the listing history: every error path, and  *)
(* a query's listing.                                                      *)
(***************************************************************************)
LEMMA FailStep ==
    ASSUME IInv, NEW r \in Reqs,
           pc[r] \in {"version", "decode", "verify", "list"},
           NEW w \in Seq({200, 400, 500}), w # <<>>,
           written' = [written EXCEPT ![r] = w],
           pc' = [pc EXCEPT ![r] = "done"],
           UNCHANGED <<endpoint, header, op, variant, head, pool, broadcast, notified,
                       bfailed>>,
           enumerated' \subseteq Reqs
    PROVE  IInv'
<1>0. TypeOK /\ ReqInv(r) /\ AnnouncedOnlyWhenStaged
  BY DEF IInv
<1>1. TypeOK'
  BY <1>0 DEF TypeOK
<1>2. Frame(r)
  BY DEF Frame
<1>3. r \notin bfailed
  BY <1>0 DEF ReqInv
<1>4. pc'[r] = "done" /\ written'[r] = w /\ EntryOf(r)' = EntryOf(r)
  BY <1>0 DEF TypeOK, EntryOf
<1>5. ReqInv(r)'
  BY <1>3, <1>4 DEF ReqInv
<1>6. AnnouncedOnlyWhenStaged'
  BY <1>0 DEF AnnouncedOnlyWhenStaged
<1>. QED  BY <1>1, <1>2, <1>5, <1>6, StepIInv

(* Every initial state (no request received, empty pools) satisfies IInv. *)
THEOREM InitIInv == Init => IInv
<1> SUFFICES ASSUME Init PROVE IInv
  OBVIOUS
<1>1. NoInput \in ExitInputs \cup SlashingInputs
  BY DEF NoInput, SlashingInputs
<1>2. <<>> \in Seq({200, 400, 500})
  BY EmptySeq
<1>3. TypeOK
  BY <1>1, <1>2 DEF Init, TypeOK
<1>4. \A r \in Reqs : ReqInv(r)
  BY DEF Init, ReqInv
<1>. QED  BY <1>3, <1>4 DEF IInv, AnnouncedOnlyWhenStaged, Init

(* A client sends r: only r's endpoint-specific fields change, and r is    *)
(* not at "broadcast" or "done" afterwards.                                *)
LEMMA ReceiveIInv ==
    ASSUME IInv, NEW r \in Reqs, Receive(r)
    PROVE  IInv'
<1>0. TypeOK /\ ReqInv(r) /\ AnnouncedOnlyWhenStaged
  BY DEF IInv
<1>1. PICK h \in HeaderValues \cup {NoHeader}, o \in InputsFor(endpoint[r]) :
        /\ header' = [header EXCEPT ![r] = IF endpoint[r] = "attV2" THEN h ELSE NoHeader]
        /\ op' = [op EXCEPT ![r] = o]
  BY DEF Receive
<1>2. /\ pc[r] = "idle"
      /\ pc' = [pc EXCEPT ![r] = CASE endpoint[r] = "attV2" -> "version"
                                   [] endpoint[r] \in SubmitEndpoints -> "decode"
                                   [] OTHER -> "list"]
      /\ UNCHANGED <<endpoint, variant, written, head, pool, broadcast, notified,
                     bfailed, enumerated>>
  BY DEF Receive
<1>3. pc'[r] \in {"version", "decode", "list"}
  BY <1>0, <1>2 DEF TypeOK
<1>4. o \in ExitInputs \cup SlashingInputs
  BY InputsType
<1>5. TypeOK'
  BY <1>0, <1>1, <1>2, <1>3, <1>4 DEF TypeOK
<1>6. Frame(r)
  BY <1>1, <1>2 DEF Frame
<1>7. r \notin bfailed
  BY <1>0, <1>2 DEF ReqInv
<1>8. ReqInv(r)'
  BY <1>2, <1>3, <1>7 DEF ReqInv
<1>. QED  BY <1>0, <1>2, <1>5, <1>6, <1>8, StepIInv DEF AnnouncedOnlyWhenStaged

(* The header names a known fork: the decode variant is chosen. *)
LEMMA VersionKnownIInv ==
    ASSUME IInv, NEW r \in Reqs, VersionKnown(r)
    PROVE  IInv'
<1>0. TypeOK /\ ReqInv(r) /\ AnnouncedOnlyWhenStaged
  BY DEF IInv
<1>1. /\ pc[r] = "version"
      /\ variant' = [variant EXCEPT ![r] = ForkOrdinal[header[r]] >= Electra]
      /\ pc' = [pc EXCEPT ![r] = "decode"]
      /\ UNCHANGED <<endpoint, header, op, written, head, pool, broadcast, notified,
                     bfailed, enumerated>>
  BY DEF VersionKnown
<1>2. TypeOK'
  BY <1>0, <1>1 DEF TypeOK
<1>3. Frame(r)
  BY <1>1 DEF Frame
<1>4. r \notin bfailed /\ pc'[r] = "decode"
  BY <1>0, <1>1 DEF ReqInv, TypeOK
<1>5. ReqInv(r)'
  BY <1>1, <1>4 DEF ReqInv
<1>. QED  BY <1>0, <1>1, <1>2, <1>3, <1>5, StepIInv DEF AnnouncedOnlyWhenStaged

(* The body decodes: on to verification. *)
LEMMA DecodedIInv ==
    ASSUME IInv, NEW r \in Reqs, Decoded(r)
    PROVE  IInv'
<1>0. TypeOK /\ ReqInv(r) /\ AnnouncedOnlyWhenStaged
  BY DEF IInv
<1>1. /\ pc[r] = "decode"
      /\ pc' = [pc EXCEPT ![r] = "verify"]
      /\ UNCHANGED <<endpoint, header, op, variant, written, head, pool, broadcast,
                     notified, bfailed, enumerated>>
  BY DEF Decoded
<1>2. TypeOK'
  BY <1>0, <1>1 DEF TypeOK
<1>3. Frame(r)
  BY <1>1 DEF Frame
<1>4. r \notin bfailed /\ pc'[r] = "verify"
  BY <1>0, <1>1 DEF ReqInv, TypeOK
<1>5. ReqInv(r)'
  BY <1>1, <1>4 DEF ReqInv, EntryOf
<1>. QED  BY <1>0, <1>1, <1>2, <1>3, <1>5, StepIInv DEF AnnouncedOnlyWhenStaged
(* Every error path, and a query's listing, is a FailStep. *)
LEMMA FailActionsIInv ==
    ASSUME IInv, NEW r \in Reqs,
           \/ VersionError(r) \/ DecodeError(r) \/ StateError(r)
           \/ ExitEpochOverflow(r) \/ ExitOutOfBounds(r) \/ Invalid(r)
           \/ SlashingInsertError(r) \/ ListError(r) \/ List(r)
    PROVE  IInv'
<1>0. TypeOK
  BY DEF IInv
<1>1. written[r] \in Seq({200, 400, 500})
  BY <1>0 DEF TypeOK
<1>2. CASE VersionError(r)
  <2> DEFINE w == (written[r] \o MissingHeaderWrites(header[r])) \o <<400>>
  <2>1. <<400>> \in Seq({200, 400, 500})
    <3>1. <<>> \in Seq({200, 400, 500})
      BY EmptySeq
    <3>2. Append(<<>>, 400) \in Seq({200, 400, 500})
      BY <3>1, AppendProperties
    <3>3. Append(<<>>, 400) = <<400>>
      BY <3>1, AppendIsConcat, ConcatEmptySeq
    <3>. QED  BY <3>2, <3>3
  <2>2. written[r] \o MissingHeaderWrites(header[r]) \in Seq({200, 400, 500})
    <3>1. MissingHeaderWrites(header[r]) \in Seq({200, 400, 500})
      BY <2>1, EmptySeq DEF MissingHeaderWrites
    <3>. QED  BY <1>1, <3>1, ConcatProperties
  <2>3. w \in Seq({200, 400, 500})
        /\ Len(w) = Len(written[r] \o MissingHeaderWrites(header[r])) + Len(<<400>>)
    BY <2>1, <2>2, ConcatProperties DEF w
  <2>4. w \in Seq({200, 400, 500}) /\ w # <<>>
    <3>1. Len(<<400>>) = 1 /\ Len(<<>>) = 0
      OBVIOUS
    <3>2. Len(written[r] \o MissingHeaderWrites(header[r])) \in Nat
      BY <2>2, LenProperties
    <3>. QED  BY <2>3, <3>1, <3>2
  <2>5. /\ pc[r] = "version"
        /\ written' = [written EXCEPT ![r] = w]
        /\ pc' = [pc EXCEPT ![r] = "done"]
        /\ UNCHANGED <<endpoint, header, op, variant, head, pool, broadcast, notified,
                       bfailed, enumerated>>
    BY <1>2 DEF VersionError
  <2>6. enumerated' \subseteq Reqs
    BY <1>0, <2>5 DEF TypeOK
  <2>. QED  BY <2>4, <2>5, <2>6, FailStep
<1>3. ASSUME NEW c \in {400, 500},
             pc[r] \in {"decode", "verify"},
             written' = [written EXCEPT ![r] = Append(@, c)],
             pc' = [pc EXCEPT ![r] = "done"],
             UNCHANGED <<endpoint, header, op, variant, head, pool, broadcast, notified,
                         bfailed, enumerated>>
      PROVE  IInv'
  <2>1. Append(written[r], c) \in Seq({200, 400, 500}) /\ Append(written[r], c) # <<>>
    BY <1>1, AppendCode
  <2>2. written' = [written EXCEPT ![r] = Append(written[r], c)]
    BY <1>3
  <2>3. enumerated' \subseteq Reqs
    BY <1>0, <1>3 DEF TypeOK
  <2>. QED  BY <1>3, <2>1, <2>2, <2>3, FailStep
<1>4. CASE DecodeError(r)
  BY <1>4, <1>3 DEF DecodeError, Fail
<1>5. CASE StateError(r) \/ ExitEpochOverflow(r) \/ ExitOutOfBounds(r) \/ Invalid(r)
          \/ SlashingInsertError(r)
  BY <1>5, <1>3 DEF StateError, ExitEpochOverflow, ExitOutOfBounds, Invalid,
                    SlashingInsertError, Fail
<1>6. ASSUME NEW c \in {500}, pc[r] = "list",
             written' = [written EXCEPT ![r] = Append(@, c)],
             pc' = [pc EXCEPT ![r] = "done"],
             UNCHANGED <<endpoint, header, op, variant, head, pool, broadcast, notified,
                         bfailed>>,
             enumerated' \subseteq Reqs
      PROVE  IInv'
  <2>1. Append(written[r], c) \in Seq({200, 400, 500}) /\ Append(written[r], c) # <<>>
    BY <1>1, AppendCode
  <2>. QED  BY <1>6, <2>1, FailStep
<1>7. CASE ListError(r)
  <2>1. enumerated' \subseteq Reqs
    BY <1>0, <1>7 DEF ListError, TypeOK
  <2>. QED  BY <1>7, <1>6, <2>1 DEF ListError, Fail
<1>8. CASE List(r)
  <2>1. PICK shown \in SUBSET {e \in pool : e.kind = KindOf(endpoint[r])} :
          written' = [written EXCEPT ![r] =
                        Append(@, IF \E e \in shown : e.electra # ListedElectra(r)
                                  THEN 500 ELSE 200)]
    BY <1>8 DEF List
  <2> DEFINE c == IF \E e \in shown : e.electra # ListedElectra(r) THEN 500 ELSE 200
  <2>2. c \in {200, 400, 500}
    OBVIOUS
  <2>3. Append(written[r], c) \in Seq({200, 400, 500}) /\ Append(written[r], c) # <<>>
    BY <1>1, <2>2, AppendCode
  <2>4. /\ pc[r] = "list" /\ pc' = [pc EXCEPT ![r] = "done"]
        /\ enumerated' = enumerated \cup {r}
        /\ UNCHANGED <<endpoint, header, op, variant, head, pool, broadcast, notified,
                       bfailed>>
    BY <1>8 DEF List
  <2>5. enumerated' \subseteq Reqs
    BY <1>0, <2>4 DEF TypeOK
  <2>6. PICK w : w = Append(written[r], c)
    OBVIOUS
  <2>7. /\ w \in Seq({200, 400, 500}) /\ w # <<>>
        /\ written' = [written EXCEPT ![r] = w]
    BY <2>1, <2>3, <2>6
  <2>. QED  BY <2>4, <2>5, <2>7, FailStep
<1>. QED  BY <1>2, <1>4, <1>5, <1>7, <1>8
(* SubmitVoluntaryExit pools the exit before it goes on to broadcast. *)
LEMMA ExitInsertIInv ==
    ASSUME IInv, NEW r \in Reqs, ExitInsert(r)
    PROVE  IInv'
<1>0. TypeOK /\ ReqInv(r) /\ AnnouncedOnlyWhenStaged
  BY DEF IInv
<1>1. /\ pc[r] = "verify" /\ endpoint[r] = "exit"
      /\ pool' = pool \cup {EntryOf(r)}
      /\ pc' = [pc EXCEPT ![r] = "broadcast"]
      /\ UNCHANGED <<endpoint, header, op, variant, written, head, broadcast, notified,
                     bfailed, enumerated>>
  BY DEF ExitInsert
<1>2. EntryOf(r) \in Entries /\ EntryOf(r)' = EntryOf(r)
  BY <1>0, <1>1 DEF TypeOK, EntryOf, Entries, KindOf, ExitInputs, SlashingInputs
<1>3. TypeOK'
  BY <1>0, <1>1, <1>2 DEF TypeOK
<1>4. Frame(r)
  BY <1>1 DEF Frame
<1>5. r \notin bfailed /\ pc'[r] = "broadcast"
  BY <1>0, <1>1 DEF ReqInv, TypeOK
<1>6. ReqInv(r)'
  BY <1>1, <1>2, <1>5 DEF ReqInv
<1>7. AnnouncedOnlyWhenStaged'
  BY <1>0, <1>1 DEF AnnouncedOnlyWhenStaged
<1>. QED  BY <1>1, <1>3, <1>4, <1>6, <1>7, StepIInv

(***************************************************************************)
(* A slashing is pooled and announced in one step, and the handler goes on *)
(* to broadcast, or returns with nothing written when slashing broadcasts  *)
(* are disabled.                                                           *)
(***************************************************************************)
LEMMA SlashingInsertIInv ==
    ASSUME IInv, NEW r \in Reqs, SlashingInsert(r)
    PROVE  IInv'
<1>0. TypeOK /\ ReqInv(r) /\ AnnouncedOnlyWhenStaged
  BY DEF IInv
<1>1. /\ pc[r] = "verify" /\ endpoint[r] \in {"attV1", "attV2", "proposer"}
      /\ pool' = pool \cup {EntryOf(r)}
      /\ notified' = notified \cup {EntryOf(r)}
      /\ pc' = [pc EXCEPT ![r] = IF DisableBroadcastSlashings THEN "done" ELSE "broadcast"]
      /\ UNCHANGED <<endpoint, header, op, variant, written, head, broadcast,
                     bfailed, enumerated>>
  BY DEF SlashingInsert
<1>2. EntryOf(r) \in Entries /\ EntryOf(r)' = EntryOf(r)
  BY <1>0, <1>1 DEF TypeOK, EntryOf, Entries, KindOf, ExitInputs, SlashingInputs
<1>3. TypeOK'
  BY <1>0, <1>1, <1>2 DEF TypeOK
<1>4. Frame(r)
  BY <1>1 DEF Frame
<1>5. /\ r \notin bfailed
      /\ pc'[r] = IF DisableBroadcastSlashings THEN "done" ELSE "broadcast"
  BY <1>0, <1>1 DEF ReqInv, TypeOK
<1>6. ReqInv(r)'
  BY <1>1, <1>2, <1>5 DEF ReqInv
<1>7. AnnouncedOnlyWhenStaged'
  BY <1>0, <1>1 DEF AnnouncedOnlyWhenStaged
<1>. QED  BY <1>1, <1>3, <1>4, <1>6, <1>7, StepIInv

(* Broadcast fails: 500, and the operation stays in the pool. *)
LEMMA BroadcastErrorIInv ==
    ASSUME IInv, NEW r \in Reqs, BroadcastError(r)
    PROVE  IInv'
<1>0. TypeOK /\ ReqInv(r) /\ AnnouncedOnlyWhenStaged
  BY DEF IInv
<1>1. /\ pc[r] = "broadcast"
      /\ written' = [written EXCEPT ![r] = Append(@, 500)]
      /\ pc' = [pc EXCEPT ![r] = "done"]
      /\ bfailed' = bfailed \cup {r}
      /\ UNCHANGED <<endpoint, header, op, variant, head, pool, broadcast, notified,
                     enumerated>>
  BY DEF BroadcastError, Fail
<1>2. Append(written[r], 500) \in Seq({200, 400, 500}) /\ Append(written[r], 500) # <<>>
  <2>1. written[r] \in Seq({200, 400, 500}) /\ 500 \in {200, 400, 500}
    BY <1>0 DEF TypeOK
  <2>. QED  BY <2>1, AppendCode
<1>3. TypeOK'
  BY <1>0, <1>1, <1>2 DEF TypeOK
<1>4. Frame(r)
  BY <1>1 DEF Frame
<1>5. /\ EntryOf(r) \in pool /\ EntryOf(r)' = EntryOf(r)
      /\ pc'[r] = "done" /\ written'[r] = Append(written[r], 500)
  BY <1>0, <1>1 DEF ReqInv, TypeOK, EntryOf
<1>6. ReqInv(r)'
  BY <1>1, <1>2, <1>5 DEF ReqInv
<1>7. AnnouncedOnlyWhenStaged'
  BY <1>0, <1>1 DEF AnnouncedOnlyWhenStaged
<1>. QED  BY <1>1, <1>3, <1>4, <1>6, <1>7, StepIInv

(* Broadcast succeeds: the broadcast entry is one already pooled. *)
LEMMA BroadcastIInv ==
    ASSUME IInv, NEW r \in Reqs, Broadcast(r)
    PROVE  IInv'
<1>0. TypeOK /\ ReqInv(r) /\ AnnouncedOnlyWhenStaged
  BY DEF IInv
<1>1. /\ pc[r] = "broadcast"
      /\ broadcast' = broadcast \cup {EntryOf(r)}
      /\ pc' = [pc EXCEPT ![r] = "done"]
      /\ UNCHANGED <<endpoint, header, op, variant, written, head, pool, notified,
                     bfailed, enumerated>>
  BY DEF Broadcast
<1>2. /\ EntryOf(r) \in pool /\ EntryOf(r)' = EntryOf(r)
      /\ pc'[r] = "done" /\ r \notin bfailed
  BY <1>0, <1>1 DEF ReqInv, TypeOK, EntryOf
<1>3. TypeOK'
  BY <1>0, <1>1, <1>2 DEF TypeOK
<1>4. Frame(r)
  BY <1>1 DEF Frame
<1>5. ReqInv(r)'
  BY <1>1, <1>2 DEF ReqInv
<1>6. AnnouncedOnlyWhenStaged'
  BY <1>0, <1>1, <1>2 DEF AnnouncedOnlyWhenStaged
<1>. QED  BY <1>1, <1>3, <1>4, <1>5, <1>6, StepIInv

(* The head moving on touches no request, pool or history. *)
LEMMA AdvanceForkIInv ==
    ASSUME IInv, AdvanceFork
    PROVE  IInv'
<1>1. /\ head < MaxFork /\ head' = head + 1
      /\ UNCHANGED <<reqVars, pool, broadcast, notified, bfailed, enumerated>>
  BY DEF AdvanceFork
<1>2. TypeOK'
  BY <1>1 DEF IInv, TypeOK, reqVars
<1>3. \A r \in Reqs : ReqInv(r)'
  BY <1>1 DEF IInv, ReqInv, EntryOf, reqVars
<1>. QED  BY <1>1, <1>2, <1>3 DEF IInv, AnnouncedOnlyWhenStaged

(* The inductive step: one lemma per action of Next. *)
THEOREM NextIInv == IInv /\ [Next]_vars => IInv'
<1> SUFFICES ASSUME IInv, [Next]_vars PROVE IInv'
  OBVIOUS
<1>1. CASE UNCHANGED vars
  BY <1>1 DEF IInv, TypeOK, AnnouncedOnlyWhenStaged, ReqInv, EntryOf, vars, reqVars
<1>2. CASE AdvanceFork
  BY <1>2, AdvanceForkIInv
<1>3. ASSUME NEW r \in Reqs, Handle(r) PROVE IInv'
  BY <1>3, ReceiveIInv, VersionKnownIInv, DecodedIInv, FailActionsIInv,
     ExitInsertIInv, SlashingInsertIInv, BroadcastErrorIInv, BroadcastIInv
  DEF Handle
<1>. QED  BY <1>1, <1>2, <1>3 DEF Next

(* IInv holds in every reachable state. *)
THEOREM IInvHolds == Spec => []IInv
BY InitIInv, NextIInv, PTL DEF Spec

(* Every reachable state of the singleton handlers is well typed. *)
THEOREM TypeCorrect == Spec => []TypeOK
<1>1. IInv => TypeOK
  BY DEF IInv
<1>. QED  BY <1>1, IInvHolds, PTL

(***************************************************************************)
(* For every value of the constants, no exit or slashing is broadcast or  *)
(* announced on the operation feed unless it is in its pool.              *)
(***************************************************************************)
THEOREM AnnouncedOnlyWhenStagedHolds == Spec => []AnnouncedOnlyWhenStaged
<1>1. IInv => AnnouncedOnlyWhenStaged
  BY DEF IInv
<1>. QED  BY <1>1, IInvHolds, PTL

(***************************************************************************)
(* For every value of the constants, a request whose Broadcast call failed *)
(* (answered 500) has its exit or slashing in the pool.                    *)
(***************************************************************************)
THEOREM BroadcastFailureStillPooledHolds == Spec => []BroadcastFailureStillPooled
<1>1. IInv => BroadcastFailureStillPooled
  BY DEF IInv, TypeOK, ReqInv, BroadcastFailureStillPooled
<1>. QED  BY <1>1, IInvHolds, PTL

(***************************************************************************)
(* For every value of the constants, a submission that ends with nothing   *)
(* written (200) pooled its operation and broadcast it, unless it is a     *)
(* slashing and slashing broadcasts are disabled.                          *)
(***************************************************************************)
THEOREM SuccessMeansStagedHolds == Spec => []SuccessMeansStaged
<1>1. IInv => SuccessMeansStaged
  BY DEF IInv, ReqInv, SuccessMeansStaged
<1>. QED  BY <1>1, IInvHolds, PTL
=============================================================================
