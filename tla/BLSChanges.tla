------------------------------ MODULE BLSChanges ------------------------------
(***************************************************************************)
(* SubmitBLSToExecutionChanges and the goroutine it starts,                *)
(* broadcastBLSChanges / broadcastBLSBatch.                                *)
(*                                                                         *)
(* The handler reads one head state, validates every change of the batch   *)
(* against it, sends a feed event and inserts each valid change into the   *)
(* BLS-changes pool, keeps the valid ones for broadcast if the head fork   *)
(* is at least Capella, starts the goroutine with them and answers.  The   *)
(* goroutine sends at most RateLimit changes per batch, re-validating each *)
(* against a head state it reads at the start of the batch, and waits for  *)
(* a 500 ms tick between batches, leaving when its slice is empty or when  *)
(* its context is done.  The context it is given is the request's, which   *)
(* net/http cancels once the handler has returned.                         *)
(*                                                                         *)
(* The chain moves on meanwhile: the head fork advances, and a validator's *)
(* withdrawal credentials become execution credentials when a change for   *)
(* it is included in a block, after which ValidateBLSToExecutionChange     *)
(* rejects every change for that validator.                                *)
(***************************************************************************)
EXTENDS Naturals, Sequences, FiniteSets

CONSTANTS
    Reqs,        \* the HTTP requests (model values)
    Validators,  \* validator indices (model values)
    MaxBatch,    \* the longest batch a request carries
    RateLimit,   \* broadcastBLSChangesRateLimit (128 in the code)
    MaxFork      \* the last fork ordinal the head may reach

ASSUME BLSChangesAssumption ==
    /\ IsFiniteSet(Reqs) /\ Reqs # {}
    /\ Validators # {}
    /\ MaxBatch \in Nat \ {0}
    /\ RateLimit \in Nat \ {0}
    /\ MaxFork \in Nat

(* version.Capella, the fork from which changes are broadcast. *)
Capella == 3

(***************************************************************************)
(* A submitted change, abstracted to what the handler branches on:         *)
(*   validator - its validator index;                                      *)
(*   check     - "ok", or which check rejects it: "invalid" when          *)
(*               ToConsensus fails or a state-independent part of         *)
(*               ValidateBLSToExecutionChange does (from_bls_pubkey does  *)
(*               not hash to the credentials) - both record the position  *)
(*               and continue, and neither can pass later - or "sig"     *)
(*               (VerifyBLSChangeSignature).                              *)
(***************************************************************************)
Changes == [validator: Validators, check: {"ok", "invalid", "sig"}]

Bodies == [kind: {"eof", "malformed"}, changes: {<<>>}]
            \cup [kind: {"array"}, changes: UNION {[1..n -> Changes] : n \in 0..MaxBatch}]

(* A head state, as far as these handlers read it. *)
States == [fork: 0..MaxFork, executionCreds: SUBSET Validators]

(* blocks.ValidateBLSToExecutionChange against state st. *)
ValidInState(st, c) ==
    /\ c.check # "invalid"
    /\ c.validator \notin st.executionCreds

NoResponse == [code |-> 0, failures |-> {}]

VARIABLES
    head,        \* the chain's current head state
    pc,          \* pc[r]: "idle", "start", "loop", "done"
    body,        \* body[r]: the request body
    st,          \* st[r]: the head state the handler read
    k,           \* k[r]: position in the batch of the handler loop
    failures,    \* failures[r]: batch positions that failed
    toBroadcast, \* toBroadcast[r]: the changes kept for the goroutine
    resp,        \* resp[r]: the response written
    ctxDone,     \* ctxDone[r]: the request context is canceled
    gpc,         \* gpc[r]: the goroutine: "none", "batch", "send", "wait", "exit"
    changes,     \* changes[r]: the goroutine's slice
    limit,       \* limit[r]: size of the current batch
    gst,         \* gst[r]: the head state the current batch read
    pos,         \* pos[r]: position in the current batch
    attempts,    \* attempts[r]: Broadcast calls made in the current batch
    blsPool,     \* BLSChangesPool contents
    notified,    \* history: changes sent on the operation feed
    broadcast    \* history: changes the goroutines handed to Broadcast
                 \*   with the head fork at that moment: [change, fork]

handlerVars == <<pc, body, st, k, failures, toBroadcast, resp>>
loopVars == <<gpc, changes, limit, gst, pos, attempts>>
vars == <<head, handlerVars, ctxDone, loopVars, blsPool, notified, broadcast>>

Batch(r) == body[r].changes

TypeOK ==
    /\ head \in States
    /\ pc \in [Reqs -> {"idle", "start", "loop", "done"}]
    /\ body \in [Reqs -> Bodies]
    /\ st \in [Reqs -> States]
    /\ k \in [Reqs -> 1..(MaxBatch + 1)]
    /\ failures \in [Reqs -> SUBSET (1..MaxBatch)]
    /\ toBroadcast \in [Reqs -> Seq(Changes)]
    /\ resp \in [Reqs -> [code: {0, 200, 400, 500}, failures: SUBSET (1..MaxBatch)]]
    /\ ctxDone \in [Reqs -> BOOLEAN]
    /\ gpc \in [Reqs -> {"none", "batch", "send", "wait", "exit"}]
    /\ changes \in [Reqs -> Seq(Changes)]
    /\ limit \in [Reqs -> 0..MaxBatch]
    /\ gst \in [Reqs -> States]
    /\ pos \in [Reqs -> 1..(MaxBatch + 1)]
    /\ attempts \in [Reqs -> Nat]
    /\ blsPool \subseteq Changes
    /\ notified \subseteq Changes
    /\ broadcast \subseteq [change: Changes, fork: 0..MaxFork]

Init ==
    /\ head \in [fork: 0..MaxFork, executionCreds: {{}}]
    /\ pc = [r \in Reqs |-> "idle"]
    /\ body = [r \in Reqs |-> [kind |-> "eof", changes |-> <<>>]]
    /\ st = [r \in Reqs |-> head]
    /\ k = [r \in Reqs |-> 1]
    /\ failures = [r \in Reqs |-> {}]
    /\ toBroadcast = [r \in Reqs |-> <<>>]
    /\ resp = [r \in Reqs |-> NoResponse]
    /\ ctxDone = [r \in Reqs |-> FALSE]
    /\ gpc = [r \in Reqs |-> "none"]
    /\ changes = [r \in Reqs |-> <<>>]
    /\ limit = [r \in Reqs |-> 0]
    /\ gst = [r \in Reqs |-> head]
    /\ pos = [r \in Reqs |-> 1]
    /\ attempts = [r \in Reqs |-> 0]
    /\ blsPool = {}
    /\ notified = {}
    /\ broadcast = {}

-----------------------------------------------------------------------------
(* The handler *)

Receive(r) ==
    /\ pc[r] = "idle"
    /\ \E b \in Bodies : body' = [body EXCEPT ![r] = b]
    /\ pc' = [pc EXCEPT ![r] = "start"]
    /\ UNCHANGED <<head, st, k, failures, toBroadcast, resp, ctxDone, loopVars,
                   blsPool, notified, broadcast>>

(* HeadStateReadOnly fails: 500. *)
NoHeadState(r) ==
    /\ pc[r] = "start"
    /\ resp' = [resp EXCEPT ![r] = [NoResponse EXCEPT !.code = 500]]
    /\ pc' = [pc EXCEPT ![r] = "done"]
    /\ UNCHANGED <<head, body, st, k, failures, toBroadcast, ctxDone, loopVars,
                   blsPool, notified, broadcast>>

(* Variant: the loop index starts at 0. *)
StartFromZero(r) ==
    /\ pc[r] = "start"
    /\ st' = [st EXCEPT ![r] = head]
    /\ IF body[r].kind # "array" \/ Len(Batch(r)) = 0
          THEN /\ resp' = [resp EXCEPT ![r] = [NoResponse EXCEPT !.code = 400]]
               /\ pc' = [pc EXCEPT ![r] = "done"]
          ELSE /\ pc' = [pc EXCEPT ![r] = "loop"]
               /\ UNCHANGED resp
    /\ k' = [k EXCEPT ![r] = 0]
    /\ UNCHANGED <<head, body, failures, toBroadcast, ctxDone, loopVars,
                   blsPool, notified, broadcast>>

(* The head state is read, then the body decoded: EOF, undecodable JSON *)
(* or an empty array is a 400.                                          *)
Start(r) ==
    /\ pc[r] = "start"
    /\ st' = [st EXCEPT ![r] = head]
    /\ IF body[r].kind # "array" \/ Len(Batch(r)) = 0
          THEN /\ resp' = [resp EXCEPT ![r] = [NoResponse EXCEPT !.code = 400]]
               /\ pc' = [pc EXCEPT ![r] = "done"]
          ELSE /\ pc' = [pc EXCEPT ![r] = "loop"]
               /\ UNCHANGED resp
    /\ k' = [k EXCEPT ![r] = 1]
    /\ UNCHANGED <<head, body, failures, toBroadcast, ctxDone, loopVars,
                   blsPool, notified, broadcast>>

(* Variant: changes are kept for broadcast whatever the head fork. *)
ItemNoForkCheck(r) ==
    /\ pc[r] = "loop"
    /\ k[r] <= Len(Batch(r))
    /\ LET c == Batch(r)[k[r]] IN
         IF ValidInState(st[r], c) /\ c.check # "sig"
           THEN /\ notified' = notified \cup {c}
                /\ blsPool' = blsPool \cup {c}
                /\ toBroadcast' = [toBroadcast EXCEPT ![r] =
                                     Append(@, c)]
                /\ UNCHANGED failures
           ELSE /\ failures' = [failures EXCEPT ![r] = @ \cup {k[r]}]
                /\ UNCHANGED <<notified, blsPool, toBroadcast>>
    /\ k' = [k EXCEPT ![r] = @ + 1]
    /\ UNCHANGED <<head, pc, body, st, resp, ctxDone, loopVars, broadcast>>

(* Variant: VerifyBLSChangeSignature is not called. *)
ItemNoSigCheck(r) ==
    /\ pc[r] = "loop"
    /\ k[r] <= Len(Batch(r))
    /\ LET c == Batch(r)[k[r]] IN
         IF ValidInState(st[r], c)
           THEN /\ notified' = notified \cup {c}
                /\ blsPool' = blsPool \cup {c}
                /\ toBroadcast' = [toBroadcast EXCEPT ![r] =
                                     IF st[r].fork >= Capella THEN Append(@, c) ELSE @]
                /\ UNCHANGED failures
           ELSE /\ failures' = [failures EXCEPT ![r] = @ \cup {k[r]}]
                /\ UNCHANGED <<notified, blsPool, toBroadcast>>
    /\ k' = [k EXCEPT ![r] = @ + 1]
    /\ UNCHANGED <<head, pc, body, st, resp, ctxDone, loopVars, broadcast>>

(* One iteration over the batch: ToConsensus, ValidateBLSToExecutionChange *)
(* and VerifyBLSChangeSignature against st; a failure is recorded by       *)
(* position; a valid change is sent on the feed, inserted into the pool,   *)
(* and kept for broadcast if st is at Capella or later.                    *)
Item(r) ==
    /\ pc[r] = "loop"
    /\ k[r] <= Len(Batch(r))
    /\ LET c == Batch(r)[k[r]] IN
         IF ValidInState(st[r], c) /\ c.check # "sig"
           THEN /\ notified' = notified \cup {c}
                /\ blsPool' = blsPool \cup {c}
                /\ toBroadcast' = [toBroadcast EXCEPT ![r] =
                                     IF st[r].fork >= Capella THEN Append(@, c) ELSE @]
                /\ UNCHANGED failures
           ELSE /\ failures' = [failures EXCEPT ![r] = @ \cup {k[r]}]
                /\ UNCHANGED <<notified, blsPool, toBroadcast>>
    /\ k' = [k EXCEPT ![r] = @ + 1]
    /\ UNCHANGED <<head, pc, body, st, resp, ctxDone, loopVars, broadcast>>

(* go s.broadcastBLSChanges(ctx, toBroadcast), then the response: 400     *)
(* with the failures if any, else 200.                                     *)
Respond(r) ==
    /\ pc[r] = "loop"
    /\ k[r] > Len(Batch(r))
    /\ gpc' = [gpc EXCEPT ![r] = "batch"]
    /\ changes' = [changes EXCEPT ![r] = toBroadcast[r]]
    /\ resp' = [resp EXCEPT ![r] =
                  [code |-> IF failures[r] # {} THEN 400 ELSE 200,
                   failures |-> failures[r]]]
    /\ pc' = [pc EXCEPT ![r] = "done"]
    /\ UNCHANGED <<head, body, st, k, failures, toBroadcast, ctxDone, limit, gst,
                   pos, attempts, blsPool, notified, broadcast>>

(* net/http cancels the request context once the handler has returned. *)
CancelContext(r) ==
    /\ pc[r] = "done"
    /\ ~ctxDone[r]
    /\ ctxDone' = [ctxDone EXCEPT ![r] = TRUE]
    /\ UNCHANGED <<head, handlerVars, loopVars, blsPool, notified, broadcast>>

-----------------------------------------------------------------------------
(* The goroutine *)

(* Variant: the batch size is not capped by the rate limit. *)
BatchStartNoCap(r) ==
    /\ gpc[r] = "batch"
    /\ limit' = [limit EXCEPT ![r] = Len(changes[r])]
    /\ \/ /\ gst' = [gst EXCEPT ![r] = head]
          /\ pos' = [pos EXCEPT ![r] = 1]
          /\ attempts' = [attempts EXCEPT ![r] = 0]
          /\ gpc' = [gpc EXCEPT ![r] = "send"]
       \/ /\ gpc' = [gpc EXCEPT ![r] = IF changes[r] = <<>> THEN "exit" ELSE "wait"]
          /\ UNCHANGED <<gst, pos, attempts>>
    /\ UNCHANGED <<head, handlerVars, ctxDone, changes, blsPool, notified, broadcast>>

(* broadcastBLSBatch begins: limit = min(len, RateLimit), then            *)
(* HeadStateReadOnly.  If that fails the batch returns with the slice     *)
(* untouched, and broadcastBLSChanges leaves if it is empty or waits.     *)
BatchStart(r) ==
    /\ gpc[r] = "batch"
    /\ limit' = [limit EXCEPT ![r] =
                   IF Len(changes[r]) < RateLimit THEN Len(changes[r]) ELSE RateLimit]
    /\ \/ /\ gst' = [gst EXCEPT ![r] = head]
          /\ pos' = [pos EXCEPT ![r] = 1]
          /\ attempts' = [attempts EXCEPT ![r] = 0]
          /\ gpc' = [gpc EXCEPT ![r] = "send"]
       \/ /\ gpc' = [gpc EXCEPT ![r] = IF changes[r] = <<>> THEN "exit" ELSE "wait"]
          /\ UNCHANGED <<gst, pos, attempts>>
    /\ UNCHANGED <<head, handlerVars, ctxDone, changes, blsPool, notified, broadcast>>

(* One change of the batch: re-validated against the batch's head state, *)
(* and handed to Broadcast if still valid (a Broadcast error is logged).  *)
Send(r) ==
    /\ gpc[r] = "send"
    /\ pos[r] <= limit[r]
    /\ LET c == changes[r][pos[r]] IN
         IF ValidInState(gst[r], c)
           THEN /\ broadcast' = broadcast \cup {[change |-> c, fork |-> head.fork]}
                /\ attempts' = [attempts EXCEPT ![r] = @ + 1]
           ELSE UNCHANGED <<broadcast, attempts>>
    /\ pos' = [pos EXCEPT ![r] = @ + 1]
    /\ UNCHANGED <<head, handlerVars, ctxDone, gpc, changes, limit, gst,
                   blsPool, notified>>

(* The batch is cut from the slice ([limit:]); broadcastBLSChanges     *)
(* leaves on an empty slice,                                            *)
(* else waits for the ticker.                                            *)
BatchEnd(r) ==
    /\ gpc[r] = "send"
    /\ pos[r] > limit[r]
    /\ changes' = [changes EXCEPT ![r] = SubSeq(@, limit[r] + 1, Len(@))]
    /\ gpc' = [gpc EXCEPT ![r] =
                 IF Len(changes[r]) = limit[r] THEN "exit" ELSE "wait"]
    /\ UNCHANGED <<head, handlerVars, ctxDone, limit, gst, pos, attempts,
                   blsPool, notified, broadcast>>

(* select: the 500 ms ticker fires and the next batch begins ... *)
Tick(r) ==
    /\ gpc[r] = "wait"
    /\ gpc' = [gpc EXCEPT ![r] = "batch"]
    /\ UNCHANGED <<head, handlerVars, ctxDone, changes, limit, gst, pos, attempts,
                   blsPool, notified, broadcast>>

(* ... or ctx.Done() is ready and the goroutine returns.  When both are   *)
(* ready Go picks either.                                                 *)
Canceled(r) ==
    /\ gpc[r] = "wait"
    /\ ctxDone[r]
    /\ gpc' = [gpc EXCEPT ![r] = "exit"]
    /\ UNCHANGED <<head, handlerVars, ctxDone, changes, limit, gst, pos, attempts,
                   blsPool, notified, broadcast>>

-----------------------------------------------------------------------------
(* The chain, outside this code *)

(* The head moves to the next fork. *)
AdvanceFork ==
    /\ head.fork < MaxFork
    /\ head' = [head EXCEPT !.fork = @ + 1]
    /\ UNCHANGED <<handlerVars, ctxDone, loopVars, blsPool, notified, broadcast>>

(* A block changing v's withdrawal credentials becomes the head. *)
CredentialsChanged ==
    /\ \E v \in Validators \ head.executionCreds :
          head' = [head EXCEPT !.executionCreds = @ \cup {v}]
    /\ UNCHANGED <<handlerVars, ctxDone, loopVars, blsPool, notified, broadcast>>

Handler(r) == NoHeadState(r) \/ Start(r) \/ Item(r) \/ Respond(r) \/ CancelContext(r)
Loop(r) == BatchStart(r) \/ Send(r) \/ BatchEnd(r) \/ Tick(r) \/ Canceled(r)

Next ==
    \/ \E r \in Reqs : Receive(r) \/ Handler(r) \/ Loop(r)
    \/ AdvanceFork \/ CredentialsChanged

(* Safety only: no fairness is assumed (see the README). *)
Spec == Init /\ [][Next]_vars

-----------------------------------------------------------------------------
(***************************************************************************)
(* Rate limit (spec 8): between two ticks a goroutine makes at most        *)
(* RateLimit Broadcast calls for its submission.  A limit computed from    *)
(* the wrong length, or a slice cut at the wrong place, breaks it.         *)
(***************************************************************************)
RateLimitRespected == \A r \in Reqs : attempts[r] <= RateLimit

(***************************************************************************)
(* Fork gate (spec 8): a change is only ever handed to Broadcast while the *)
(* head is at Capella or later.                                            *)
(***************************************************************************)
ForkGate == \A b \in broadcast : b.fork >= Capella

(***************************************************************************)
(* What the goroutine broadcasts was admitted by the handler: it passed    *)
(* every check at submission, the signature check included (the loop      *)
(* never checks signatures again), and it is in the pool and was          *)
(* announced on the feed.                                                  *)
(***************************************************************************)
BroadcastWasAdmitted ==
    \A b \in broadcast :
        /\ b.change.check = "ok"
        /\ b.change \in blsPool
        /\ b.change \in notified

=============================================================================
