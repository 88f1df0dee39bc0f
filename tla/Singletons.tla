------------------------------ MODULE Singletons ------------------------------
(***************************************************************************)
(* The single-operation handlers of the beacon pool API and the queries    *)
(* that read the pools they fill:                                          *)
(*   SubmitVoluntaryExit          POST /beacon/pool/voluntary_exits        *)
(*   SubmitAttesterSlashings      POST /beacon/pool/attester_slashings     *)
(*   SubmitAttesterSlashingsV2    POST .../attester_slashings/v2           *)
(*     (both through submitAttesterSlashing)                               *)
(*   SubmitProposerSlashing       POST /beacon/pool/proposer_slashings     *)
(*   ListVoluntaryExits, GetAttesterSlashings, GetAttesterSlashingsV2,     *)
(*   GetProposerSlashings         the matching GET endpoints.              *)
(*                                                                         *)
(* Every request is a process.  Its steps are the calls to collaborators   *)
(* that may fail or that touch shared state: the head state read (with     *)
(* the slot processing and validator lookup that work on the private copy  *)
(* it returns), the pool insert with the feed event that follows it, and   *)
(* the broadcast.  Collaborator failures are nondeterministic.  The head   *)
(* fork advances under the handlers; the pools and the histories of        *)
(* broadcast and feed events are shared by all requests.                   *)
(*                                                                         *)
(* written[r] is the sequence of status codes the handler writes with      *)
(* httputil.HandleError / WriteJson; a handler that writes nothing is      *)
(* answered 200 by net/http when it returns.                               *)
(***************************************************************************)
EXTENDS Naturals, Sequences, FiniteSets

CONSTANTS
    Reqs,          \* the HTTP requests (model values)
    Endpoints,     \* the endpoints clients call in this instance
    OpIds,         \* identities of exits and slashings (model values)
    HeaderValues,  \* Eth-Consensus-Version header values a client may send
    Epochs,        \* exit epochs a client may send
    SlotsPerEpoch, \* params.BeaconConfig().SlotsPerEpoch
    SlotBits,      \* width of primitives.Slot (64 in the code)
    MaxFork,       \* the last fork the head may reach in a run
    DisableBroadcastSlashings \* features.Get().DisableBroadcastSlashings

SubmitEndpoints == {"exit", "attV1", "attV2", "proposer"}
ListEndpoints == {"listExits", "getAttV1", "getAttV2", "getProposer"}

ASSUME SingletonsAssumption ==
    /\ IsFiniteSet(Reqs) /\ Reqs # {}
    /\ Endpoints \subseteq SubmitEndpoints \cup ListEndpoints
    /\ Endpoints # {}
    /\ OpIds # {}
    /\ HeaderValues \subseteq STRING
    /\ Epochs \subseteq Nat
    /\ SlotsPerEpoch \in Nat \ {0}
    /\ SlotBits \in Nat \ {0}
    /\ MaxFork \in Nat
    /\ DisableBroadcastSlashings \in BOOLEAN

(* runtime/version: fork names in canonical order; FromString fails on an  *)
(* unknown name, which is one outside DOMAIN ForkOrdinal.                  *)
ForkOrdinal == [s \in {"phase0", "altair", "bellatrix", "capella", "deneb", "electra"} |->
                  CASE s = "phase0" -> 0 [] s = "altair" -> 1 [] s = "bellatrix" -> 2
                    [] s = "capella" -> 3 [] s = "deneb" -> 4 [] s = "electra" -> 5]
Electra == 5

(* r.Header.Get of an absent Eth-Consensus-Version header. *)
NoHeader == ""

(***************************************************************************)
(* slots.EpochStart: epoch * SlotsPerEpoch, an error when the product does *)
(* not fit in a Slot (math.Mul64 overflow).                                *)
(***************************************************************************)
EpochStartOverflows(e) == e * SlotsPerEpoch >= 2^SlotBits

(***************************************************************************)
(* A submitted operation, abstracted to what the handlers branch on:       *)
(*   wire     - the body decodes and ToConsensus converts it;              *)
(*   valid    - VerifyExitAndSignature / VerifyAttesterSlashing /          *)
(*              VerifyProposerSlashing accept it against the head state;   *)
(*   epoch    - exit.Exit.Epoch (exits only);                              *)
(*   inBounds - ValidatorAtIndexReadOnly finds the validator (exits only). *)
(***************************************************************************)
ExitInputs == [id: OpIds, wire: BOOLEAN, valid: BOOLEAN, epoch: Epochs, inBounds: BOOLEAN]
SlashingInputs == [id: OpIds, wire: BOOLEAN, valid: BOOLEAN]
NoInput == [id |-> CHOOSE o \in OpIds : TRUE, wire |-> FALSE, valid |-> FALSE]

InputsFor(ep) ==
    CASE ep = "exit" -> ExitInputs
      [] ep \in {"attV1", "attV2", "proposer"} -> SlashingInputs
      [] OTHER -> {NoInput}

(* The operation kind each endpoint stages or lists. *)
KindOf(ep) ==
    CASE ep \in {"exit", "listExits"} -> "exit"
      [] ep \in {"attV1", "attV2", "getAttV1", "getAttV2"} -> "attester"
      [] OTHER -> "proposer"

(* What the pools hold and the broadcaster and feed carry.  electra is     *)
(* TRUE for an AttesterSlashingElectra; exits and proposer slashings have  *)
(* one variant.                                                            *)
Entries == [kind: {"exit", "attester", "proposer"}, id: OpIds, electra: BOOLEAN]

VARIABLES
    pc,        \* pc[r]: "idle", "version", "decode", "verify", "broadcast", "list", "done"
    endpoint,  \* endpoint[r]: the handler serving r
    header,    \* header[r]: the Eth-Consensus-Version header ("" if absent)
    op,        \* op[r]: the operation r submits
    variant,   \* variant[r]: the V2 handler decoded the Electra type
    written,   \* written[r]: the status codes written, in order
    head,      \* fork ordinal of the head state
    pool,      \* VoluntaryExitsPool and SlashingsPool contents
    broadcast, \* history: every entry the broadcaster accepted
    notified,  \* history: every entry sent on the operation feed
    bfailed,   \* history: the requests whose Broadcast call failed
    enumerated \* history: the listings that read the head state and the pool

reqVars == <<pc, endpoint, header, op, variant, written>>
vars == <<reqVars, head, pool, broadcast, notified, bfailed, enumerated>>

EntryOf(r) == [kind |-> KindOf(endpoint[r]), id |-> op[r].id, electra |-> variant[r]]

TypeOK ==
    /\ pc \in [Reqs -> {"idle", "version", "decode", "verify", "broadcast", "list", "done"}]
    /\ endpoint \in [Reqs -> Endpoints]
    /\ header \in [Reqs -> HeaderValues \cup {NoHeader}]
    /\ op \in [Reqs -> ExitInputs \cup SlashingInputs]
    /\ variant \in [Reqs -> BOOLEAN]
    /\ written \in [Reqs -> Seq({200, 400, 500})]
    /\ head \in 0..MaxFork
    /\ pool \subseteq Entries
    /\ broadcast \subseteq Entries
    /\ notified \subseteq Entries
    /\ bfailed \subseteq Reqs
    /\ enumerated \subseteq Reqs

Init ==
    /\ pc = [r \in Reqs |-> "idle"]
    /\ endpoint \in [Reqs -> Endpoints]
    /\ header = [r \in Reqs |-> NoHeader]
    /\ op = [r \in Reqs |-> NoInput]
    /\ variant = [r \in Reqs |-> FALSE]
    /\ written = [r \in Reqs |-> <<>>]
    /\ head \in 0..MaxFork
    /\ pool = {}
    /\ broadcast = {}
    /\ notified = {}
    /\ bfailed = {}
    /\ enumerated = {}

(* Write one status code and end the handler (HandleError; return). *)
Fail(r, code) ==
    /\ written' = [written EXCEPT ![r] = Append(@, code)]
    /\ pc' = [pc EXCEPT ![r] = "done"]

(***************************************************************************)
(* A client sends r: a V2 attester slashing goes to the header check, the  *)
(* other submissions to the body decode, the queries to the head read.     *)
(***************************************************************************)
Receive(r) ==
    /\ pc[r] = "idle"
    /\ \E h \in HeaderValues \cup {NoHeader}, o \in InputsFor(endpoint[r]) :
          /\ header' = [header EXCEPT ![r] = IF endpoint[r] = "attV2" THEN h ELSE NoHeader]
          /\ op' = [op EXCEPT ![r] = o]
    /\ pc' = [pc EXCEPT ![r] = CASE endpoint[r] = "attV2" -> "version"
                                 [] endpoint[r] \in SubmitEndpoints -> "decode"
                                 [] OTHER -> "list"]
    /\ UNCHANGED <<endpoint, variant, written, head, pool, broadcast, notified,
                   bfailed, enumerated>>

(***************************************************************************)
(* SubmitAttesterSlashingsV2, header check: an empty header is answered    *)
(* 400 and the handler does not return, so FromString("") fails next and   *)
(* writes a second 400; an unknown fork name is one 400.                   *)
(***************************************************************************)
MissingHeaderWrites(h) == IF h = NoHeader THEN <<400>> ELSE <<>>

VersionError(r) ==
    /\ pc[r] = "version"
    /\ header[r] \notin DOMAIN ForkOrdinal
    /\ written' = [written EXCEPT ![r] = (@ \o MissingHeaderWrites(header[r])) \o <<400>>]
    /\ pc' = [pc EXCEPT ![r] = "done"]
    /\ UNCHANGED <<endpoint, header, op, variant, head, pool, broadcast, notified,
                   bfailed, enumerated>>

(* v >= version.Electra picks AttesterSlashingElectra, else AttesterSlashing. *)
VersionKnown(r) ==
    /\ pc[r] = "version"
    /\ header[r] \in DOMAIN ForkOrdinal
    /\ variant' = [variant EXCEPT ![r] = ForkOrdinal[header[r]] >= Electra]
    /\ pc' = [pc EXCEPT ![r] = "decode"]
    /\ UNCHANGED <<endpoint, header, op, written, head, pool, broadcast, notified,
                   bfailed, enumerated>>

(* json Decode (io.EOF or a decode error) or ToConsensus fails: 400. *)
DecodeError(r) ==
    /\ pc[r] = "decode"
    /\ ~op[r].wire
    /\ Fail(r, 400)
    /\ UNCHANGED <<endpoint, header, op, variant, head, pool, broadcast, notified,
                   bfailed, enumerated>>

Decoded(r) ==
    /\ pc[r] = "decode"
    /\ op[r].wire
    /\ pc' = [pc EXCEPT ![r] = "verify"]
    /\ UNCHANGED <<endpoint, header, op, variant, written, head, pool, broadcast,
                   notified, bfailed, enumerated>>

(* Mutant: a head state failure answered 503. *)
StateErrorUnavailable(r) ==
    /\ pc[r] = "verify"
    /\ Fail(r, 503)
    /\ UNCHANGED <<endpoint, header, op, variant, head, pool, broadcast, notified,
                   bfailed, enumerated>>

(***************************************************************************)
(* The validation step.  HeadState or ProcessSlotsIfPossible fails, or     *)
(* (exits) the validator lookup fails with another error than              *)
(* ErrOutOfBounds: 500.                                                    *)
(***************************************************************************)
StateError(r) ==
    /\ pc[r] = "verify"
    /\ Fail(r, 500)
    /\ UNCHANGED <<endpoint, header, op, variant, head, pool, broadcast, notified,
                   bfailed, enumerated>>

(* SubmitVoluntaryExit: EpochStart of the exit epoch overflows: 500. *)
ExitEpochOverflow(r) ==
    /\ pc[r] = "verify"
    /\ endpoint[r] = "exit"
    /\ EpochStartOverflows(op[r].epoch)
    /\ Fail(r, 500)
    /\ UNCHANGED <<endpoint, header, op, variant, head, pool, broadcast, notified,
                   bfailed, enumerated>>

(* SubmitVoluntaryExit: ValidatorAtIndexReadOnly gives ErrOutOfBounds: 400. *)
ExitOutOfBounds(r) ==
    /\ pc[r] = "verify"
    /\ endpoint[r] = "exit"
    /\ ~EpochStartOverflows(op[r].epoch)
    /\ ~op[r].inBounds
    /\ Fail(r, 400)
    /\ UNCHANGED <<endpoint, header, op, variant, head, pool, broadcast, notified,
                   bfailed, enumerated>>

(* The checks before verification passed (only exits have any). *)
Reached(r) ==
    endpoint[r] = "exit" => ~EpochStartOverflows(op[r].epoch) /\ op[r].inBounds

(* VerifyExitAndSignature / VerifyAttesterSlashing / VerifyProposerSlashing *)
(* reject the operation: 400.                                               *)
Invalid(r) ==
    /\ pc[r] = "verify"
    /\ Reached(r)
    /\ ~op[r].valid
    /\ Fail(r, 400)
    /\ UNCHANGED <<endpoint, header, op, variant, head, pool, broadcast, notified,
                   bfailed, enumerated>>

(* SubmitVoluntaryExit: InsertVoluntaryExit (it cannot fail), then go on   *)
(* to Broadcast.                                                           *)
ExitInsert(r) ==
    /\ pc[r] = "verify"
    /\ endpoint[r] = "exit"
    /\ Reached(r) /\ op[r].valid
    /\ pool' = pool \cup {EntryOf(r)}
    /\ pc' = [pc EXCEPT ![r] = "broadcast"]
    /\ UNCHANGED <<endpoint, header, op, variant, written, head, broadcast, notified,
                   bfailed, enumerated>>

(* Mutant: the feed event is sent before the insert error is checked. *)
SlashingInsertErrorNotifies(r) ==
    /\ pc[r] = "verify"
    /\ endpoint[r] \in {"attV1", "attV2", "proposer"}
    /\ op[r].valid
    /\ Fail(r, 500)
    /\ notified' = notified \cup {EntryOf(r)}
    /\ UNCHANGED <<endpoint, header, op, variant, head, pool, broadcast,
                   bfailed, enumerated>>

(* InsertAttesterSlashing / InsertProposerSlashing fails: 500. *)
SlashingInsertError(r) ==
    /\ pc[r] = "verify"
    /\ endpoint[r] \in {"attV1", "attV2", "proposer"}
    /\ op[r].valid
    /\ Fail(r, 500)
    /\ UNCHANGED <<endpoint, header, op, variant, head, pool, broadcast, notified,
                   bfailed, enumerated>>

(***************************************************************************)
(* The slashing is inserted, the feed event is sent, and the handler       *)
(* broadcasts unless DisableBroadcastSlashings, in which case it returns   *)
(* with nothing written.                                                   *)
(***************************************************************************)
SlashingInsert(r) ==
    /\ pc[r] = "verify"
    /\ endpoint[r] \in {"attV1", "attV2", "proposer"}
    /\ op[r].valid
    /\ pool' = pool \cup {EntryOf(r)}
    /\ notified' = notified \cup {EntryOf(r)}
    /\ pc' = [pc EXCEPT ![r] = IF DisableBroadcastSlashings THEN "done" ELSE "broadcast"]
    /\ UNCHANGED <<endpoint, header, op, variant, written, head, broadcast,
                   bfailed, enumerated>>

(* Mutant: a broadcast error is only logged. *)
BroadcastErrorLogged(r) ==
    /\ pc[r] = "broadcast"
    /\ pc' = [pc EXCEPT ![r] = "done"]
    /\ bfailed' = bfailed \cup {r}
    /\ UNCHANGED <<endpoint, header, op, variant, written, head, pool, broadcast, notified,
                   enumerated>>

(* Mutant: a failed broadcast takes the operation back out of the pool. *)
BroadcastErrorRollsBack(r) ==
    /\ pc[r] = "broadcast"
    /\ Fail(r, 500)
    /\ bfailed' = bfailed \cup {r}
    /\ pool' = pool \ {EntryOf(r)}
    /\ UNCHANGED <<endpoint, header, op, variant, head, broadcast, notified,
                   enumerated>>

(* Broadcaster.Broadcast fails: 500, after the operation was pooled. *)
BroadcastError(r) ==
    /\ pc[r] = "broadcast"
    /\ Fail(r, 500)
    /\ bfailed' = bfailed \cup {r}
    /\ UNCHANGED <<endpoint, header, op, variant, head, pool, broadcast, notified,
                   enumerated>>

(* Broadcaster.Broadcast succeeds; the handler returns with nothing written. *)
Broadcast(r) ==
    /\ pc[r] = "broadcast"
    /\ broadcast' = broadcast \cup {EntryOf(r)}
    /\ pc' = [pc EXCEPT ![r] = "done"]
    /\ UNCHANGED <<endpoint, header, op, variant, written, head, pool, notified,
                   bfailed, enumerated>>

(* The head state read of a query fails (or, for ListVoluntaryExits,       *)
(* PendingExits fails): 500.                                               *)
ListError(r) ==
    /\ pc[r] = "list"
    /\ Fail(r, 500)
    /\ UNCHANGED <<endpoint, header, op, variant, head, pool, broadcast, notified,
                   bfailed, enumerated>>

(* The variant the query converts each entry to: the Electra type for      *)
(* GetAttesterSlashingsV2 on an Electra head, else the base type.          *)
ListedElectra(r) == endpoint[r] = "getAttV2" /\ head >= Electra

(***************************************************************************)
(* The query reads the head state and enumerates the pool.  The pool       *)
(* returns the pending entries of the kind it is asked for; for slashings  *)
(* it leaves out those whose validators are no longer slashable, hence any *)
(* subset.  A type assertion that fails on one entry answers the whole     *)
(* query 500; otherwise WriteJson answers 200.                             *)
(***************************************************************************)
List(r) ==
    /\ pc[r] = "list"
    /\ \E shown \in SUBSET {e \in pool : e.kind = KindOf(endpoint[r])} :
          written' = [written EXCEPT ![r] =
                        Append(@, IF \E e \in shown : e.electra # ListedElectra(r)
                                  THEN 500 ELSE 200)]
    /\ pc' = [pc EXCEPT ![r] = "done"]
    /\ enumerated' = enumerated \cup {r}
    /\ UNCHANGED <<endpoint, header, op, variant, head, pool, broadcast, notified,
                   bfailed>>

(* The chain: the head moves on to the next fork. *)
AdvanceFork ==
    /\ head < MaxFork
    /\ head' = head + 1
    /\ UNCHANGED <<reqVars, pool, broadcast, notified, bfailed, enumerated>>

Handle(r) ==
    \/ Receive(r)
    \/ VersionError(r) \/ VersionKnown(r)
    \/ DecodeError(r) \/ Decoded(r)
    \/ StateError(r) \/ ExitEpochOverflow(r) \/ ExitOutOfBounds(r) \/ Invalid(r)
    \/ ExitInsert(r) \/ SlashingInsertError(r) \/ SlashingInsert(r)
    \/ BroadcastError(r) \/ Broadcast(r)
    \/ ListError(r) \/ List(r)

Next == (\E r \in Reqs : Handle(r)) \/ AdvanceFork

(* Safety only: no fairness is assumed (see the README). *)
Spec == Init /\ [][Next]_vars

-----------------------------------------------------------------------------
(***************************************************************************)
(* Every entry broadcast or announced on the operation feed is in its      *)
(* pool: SubmitVoluntaryExit inserts before Broadcast, submitAttester-     *)
(* Slashing and SubmitProposerSlashing insert, and only after a successful *)
(* insert send the feed event and broadcast.                               *)
(***************************************************************************)
AnnouncedOnlyWhenStaged == broadcast \cup notified \subseteq pool

(***************************************************************************)
(* A request whose Broadcast call failed (answered 500) has its operation  *)
(* in the pool anyway, as the spec (7, BroadcastFailed) asks and unlike    *)
(* the attestation path.                                                   *)
(***************************************************************************)
BroadcastFailureStillPooled == \A r \in bfailed : EntryOf(r) \in pool

(***************************************************************************)
(* A submission that ends with nothing written (200) has its operation     *)
(* pooled, and broadcast unless slashing broadcasts are disabled.          *)
(***************************************************************************)
SuccessMeansStaged ==
    \A r \in Reqs :
        (pc[r] = "done" /\ endpoint[r] \in SubmitEndpoints /\ written[r] = <<>>)
           => /\ EntryOf(r) \in pool
              /\ \/ EntryOf(r) \in broadcast
                 \/ endpoint[r] # "exit" /\ DisableBroadcastSlashings

(***************************************************************************)
(* Every handler writes at most one response (status line and body).       *)
(***************************************************************************)
AtMostOneResponse == \A r \in Reqs : Len(written[r]) <= 1
=============================================================================
