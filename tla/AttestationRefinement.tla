----------------------- MODULE AttestationRefinement -----------------------
(***************************************************************************)
(* The attestation pipeline implements its abstract specification          *)
(* AttestationAdmission under the identity mapping of pool, broadcast and  *)
(* notified, for every value of the constants.                             *)
(***************************************************************************)
EXTENDS AttestationSubmitProofs

USE AttestationSubmitAssumption

(***************************************************************************)
(* The item a Phase B iteration handles is a Phase A survivor: an entry    *)
(* whose check is "ok" and whose variant is the handler's.                 *)
(***************************************************************************)
LEMMA PhaseBEntry ==
    ASSUME IInv, NEW r \in Reqs, pc[r] = "phaseB", k[r] <= Len(valid[r])
    PROVE  LET e == EntryOf(r, valid[r][k[r]])
           IN  /\ e \in Entries
               /\ e.att.check = "ok"
               /\ e.electra = electra[r]
<1> DEFINE i == valid[r][k[r]]
<1>0. TypeOK /\ LoopShape(r)
  BY DEF IInv
<1>1. /\ Len(valid[r]) <= Len(Batch(r))
      /\ k[r] \in 1..Len(valid[r])
  BY <1>0, BatchType, LenProperties DEF TypeOK, LoopShape
<1>2. /\ i \in 1..Len(Batch(r))
      /\ Batch(r)[i].check = "ok"
      /\ Batch(r)[i] \in Items
  BY <1>0, <1>1, BatchType, ElementOfSeq DEF LoopShape
<1>. QED  BY <1>0, <1>2 DEF EntryOf, Entries, TypeOK

(* A step that leaves the pool, the broadcaster's record and the feed     *)
(* alone is a stuttering step of the abstract specification.             *)
LEMMA Stutter ==
    ASSUME UNCHANGED <<pool, broadcast, notified>>
    PROVE  [Admission!Next]_Admission!avars
BY DEF Admission!avars

(* Every step of the pipeline is a step or a stutter of AttestationAdmission. *)
THEOREM StepRefines == IInv /\ [Next]_vars => [Admission!Next]_Admission!avars
<1> SUFFICES ASSUME IInv, [Next]_vars PROVE [Admission!Next]_Admission!avars
  OBVIOUS
<1>1. CASE UNCHANGED vars
  BY <1>1, Stutter DEF vars
<1>2. ASSUME NEW r \in Reqs,
             \/ Receive(r) \/ Reject(r) \/ Accept(r) \/ PhaseA(r) \/ PhaseAEnd(r)
             \/ PhaseBEnd(r) \/ Respond(r)
      PROVE  [Admission!Next]_Admission!avars
  <2>1. UNCHANGED <<pool, broadcast, notified>>
    BY <1>2 DEF Receive, Reject, Accept, PhaseA, PhaseAEnd, PhaseBEnd, Respond
  <2>. QED  BY <2>1, Stutter
<1>3. ASSUME NEW r \in Reqs, PhaseB(r) PROVE [Admission!Next]_Admission!avars
  <2> DEFINE i == valid[r][k[r]]
             e == EntryOf(r, i)
  <2>0. /\ pc[r] = "phaseB" /\ k[r] <= Len(valid[r])
        /\ FeedEvent(r, e)
        /\ \/ NoValidators(r, i, e)
           \/ NoCommitteeIndex(r, i, e)
           \/ BroadcastFails(r, i, e)
           \/ Delivered(r, i, e)
    BY <1>3 DEF PhaseB
  <2>1. /\ e \in Entries
        /\ e.att.check = "ok"
        /\ e.electra = electra[r]
    BY <2>0, PhaseBEntry
  <2>2. notified' = IF e.att.agg THEN notified ELSE notified \cup {e}
    BY <2>0 DEF FeedEvent
  <2>3. CASE NoValidators(r, i, e) \/ NoCommitteeIndex(r, i, e) \/ BroadcastFails(r, i, e)
    <3>1. UNCHANGED <<pool, broadcast>>
      BY <2>3 DEF NoValidators, NoCommitteeIndex, BroadcastFails
    <3>2. CASE e.att.agg
      BY <2>2, <3>1, <3>2, Stutter
    <3>3. CASE ~e.att.agg
      <4>1. Admission!Announce(e)
        BY <2>1, <2>2, <3>1, <3>3 DEF Admission!Announce
      <4>. QED  BY <2>1, <4>1 DEF Admission!Next
    <3>. QED  BY <3>2, <3>3
  <2>4. CASE Delivered(r, i, e)
    <3>1. /\ ~electra[r] \/ e.att.single
          /\ broadcast' = broadcast \cup {e}
          /\ pool' \in {pool, pool \cup {e}}
      BY <2>4 DEF Delivered
    <3>2. Admission!Publish(e)
      BY <2>1, <2>2, <3>1 DEF Admission!Publish
    <3>. QED  BY <2>1, <3>2 DEF Admission!Next
  <2>. QED  BY <2>0, <2>3, <2>4
<1>. QED  BY <1>1, <1>2, <1>3 DEF Next, Handle

(***************************************************************************)
(* The pipeline implements AttestationAdmission: the initial pool,         *)
(* broadcaster record and feed are empty, and every step of the handlers   *)
(* is an Announce, a Publish or leaves the three alone.  Liveness is not   *)
(* part of the abstract specification.                                     *)
(***************************************************************************)
THEOREM Refinement == Spec => ImplementsAdmission
<1>1. Init => Admission!Init
  BY DEF Init, Admission!Init
<1>. QED  BY <1>1, IInvHolds, StepRefines, PTL DEF Spec, ImplementsAdmission, Admission!Spec
=============================================================================
