------------------------- MODULE AttestationAdmission -------------------------
(***************************************************************************)
(* What attestation submission promises the rest of the node, with the     *)
(* requests, batches and loops of AttestationSubmit abstracted away: an    *)
(* attestation that passed the per-item checks may be announced on the    *)
(* operation feed (if unaggregated), and may be published: handed to the   *)
(* broadcaster, announced, and then saved to the pool or not (a failed     *)
(* save is only logged).  An Electra attestation is published only with a  *)
(* single committee bit set.  Nothing else changes the pool, the           *)
(* broadcaster's record or the feed.                                       *)
(***************************************************************************)
CONSTANT Entries   \* attestations, as [att, electra] records

VARIABLES
    pool,       \* the attestations pool
    broadcast,  \* every attestation the broadcaster accepted
    notified    \* every attestation sent on the operation feed

avars == <<pool, broadcast, notified>>

Init ==
    /\ pool = {}
    /\ broadcast = {}
    /\ notified = {}

(* An unaggregated attestation that passed Phase A is announced and goes  *)
(* no further.                                                            *)
Announce(e) ==
    /\ e.att.check = "ok"
    /\ ~e.att.agg
    /\ notified' = notified \cup {e}
    /\ UNCHANGED <<pool, broadcast>>

(* An attestation that passed Phase A, and names one committee if it is  *)
(* an Electra one, is announced if unaggregated, broadcast, and perhaps    *)
(* saved.                                                                  *)
Publish(e) ==
    /\ e.att.check = "ok"
    /\ e.electra => e.att.single
    /\ notified' = IF e.att.agg THEN notified ELSE notified \cup {e}
    /\ broadcast' = broadcast \cup {e}
    /\ pool' \in {pool, pool \cup {e}}

Next == \E e \in Entries : Announce(e) \/ Publish(e)

Spec == Init /\ [][Next]_avars
=============================================================================
