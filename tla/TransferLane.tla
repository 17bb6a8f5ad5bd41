--------------------------- MODULE TransferLane ---------------------------
(***************************************************************************)
(* The TigerBeetle lanes of the funds outbox worker: goroutines that each  *)
(* claim a batch of transfer rows under a lease, submit it to the ledger   *)
(* as one request, and finalize or give back every row of it.  Lanes of a  *)
(* process stop together when one of them fails; the process is restarted  *)
(* by its supervisor.  Composed with the transactions that initiate        *)
(* transfers (FundsStore) and with the administrators' authority over dead *)
(* letters (DeadLetterAuthority), which share the same rows.               *)
(*                                                                         *)
(* Definitions whose comment begins with "Mistake" are variants of the one *)
(* that follows them; no specification uses them, they show that the       *)
(* properties can fail.                                                    *)
(*                                                                         *)
(* Time is left out: a row that is due and a locked row that is skipped    *)
(* show as the freedom of Claim to take any claimable rows; a lease that   *)
(* runs out is LeaseExpires.                                               *)
(***************************************************************************)
EXTENDS DeadLetterAuthority

CONSTANTS
  Lanes,       \* dispatcher goroutines
  Processes,   \* outbox worker processes
  ProcessOf,   \* the process a lane runs in
  BatchMax,    \* largest batch a lane asks for
  MaxAttempts, \* maximumOutboxAttempts
  Unmapped,    \* transfers the ledger client cannot build a request for
  Refused,     \* transfers the ledger answers with an error status
  MaxFaults    \* bound: crashes, errors, lost answers, overrun leases

ASSUME LaneAssumption ==
  /\ ProcessOf \in [Lanes -> Processes]
  /\ BatchMax \in Nat \ {0}
  /\ MaxAttempts \in Nat \ {0}
  /\ Unmapped \subseteq Ids
  /\ Refused \subseteq Ids
  /\ MaxFaults \in Nat

VARIABLES
  phase,   \* where each lane is in dispatchTigerBeetleTransferBatchWithLedger
  held,    \* the claim token a lane holds for each row of its batch, else 0
  posted,  \* rows of the batch whose outcome carries no error
  stray,   \* requests given up without an answer that may still be applied
  audits,  \* rows in mojaloop_reconciliation_audits, by transfer
  faults   \* environment faults so far

laneVars == <<phase, held, posted, stray, audits, faults>>
vars == <<storeVars, authorityVars, laneVars>>

Phase == {"idle", "claimed", "sent", "settling", "down"}
NoClaims == [t \in Ids |-> 0]

TypeOK ==
  /\ StoreTypeOK
  /\ AuthorityTypeOK
  /\ phase \in [Lanes -> Phase]
  /\ held \in [Lanes -> [Ids -> Nat]]
  /\ posted \in [Lanes -> SUBSET Ids]
  /\ stray \subseteq Ids
  /\ audits \in [Ids -> Nat]
  /\ faults \in 0..MaxFaults

Init ==
  /\ StoreInit
  /\ AuthorityInit
  /\ phase = [w \in Lanes |-> "idle"]
  /\ held = [w \in Lanes |-> NoClaims]
  /\ posted = [w \in Lanes |-> {}]
  /\ stray = {}
  /\ audits = [t \in Ids |-> 0]
  /\ faults = 0

---------------------------------------------------------------------------
Batch(w) == {t \in Ids : held[w][t] # 0}

\* The row is still processing under the token w holds, and the lease is not
\* over.  A token is named by the attempt it was drawn for.
ActiveClaim(w, t) ==
  /\ row[t].status = "processing"
  /\ row[t].token = held[w][t]
  /\ row[t].live

\* No lane is working on the claim of row t any more.
Orphaned(t) == \A w \in Lanes : held[w][t] # row[t].token

\* Mistake: only rows that wait hold a stream back, not those being worked on.
PrecedesPendingOnly(e, c) ==
  /\ Visible(e)
  /\ SameStream(e, c)
  /\ row[e].id < row[c].id
  /\ row[e].status = "pending"

\* e stands before c in the debit stream and is not delivered.
Precedes(e, c) ==
  /\ Visible(e)
  /\ SameStream(e, c)
  /\ row[e].id < row[c].id
  /\ row[e].status # "delivered"

\* Mistake: expired claims are not taken over.
ClaimablePendingOnly(c) ==
  /\ row[c].status = "pending"
  /\ \A e \in Ids : Precedes(e, c) => ~PredecessorBlocks(e, c)

Claimable(c) ==
  /\ \/ row[c].status = "pending"
     \/ row[c].status = "processing" /\ ~row[c].live
  /\ \A e \in Ids : Precedes(e, c) => ~PredecessorBlocks(e, c)

\* Rows are settled in the order of the claim's ORDER BY id.
FirstOf(w, t) == t \in Batch(w) /\ \A s \in Batch(w) : row[t].id <= row[s].id

Fault == faults < MaxFaults /\ faults' = faults + 1

\* Mistake: an exhausted row gets a status of the older outbox.
ReleasedFailed(r, status) ==
  [r EXCEPT !.status = IF status = "dead_letter" THEN "failed" ELSE status,
            !.token = 0, !.live = FALSE]

Released(r, status) ==
  [r EXCEPT !.status = status, !.token = 0, !.live = FALSE]

---------------------------------------------------------------------------
\* Mistake: a takeover keeps the token of the expired claim.
ClaimSameToken(w, B) ==
  /\ phase[w] = "idle"
  /\ B # {}
  /\ Cardinality(B) <= BatchMax
  /\ \A t \in B : Claimable(t)
  /\ LET token(t) == IF row[t].token = 0 THEN row[t].attempts + 1 ELSE row[t].token IN
     /\ row' = [t \in Ids |-> IF t \in B
                  THEN [row[t] EXCEPT !.status = "processing", !.live = TRUE,
                          !.attempts = row[t].attempts + 1, !.token = token(t)]
                  ELSE row[t]]
     /\ held' = [held EXCEPT ![w] = [t \in Ids |-> IF t \in B THEN token(t) ELSE 0]]
  /\ phase' = [phase EXCEPT ![w] = "claimed"]
  /\ UNCHANGED <<state, lastId, ledger, overtaken, posted, stray, audits, faults>>

\* claimTigerBeetleTransferBatch.  An expired claim is taken over under a new
\* token, whatever the number of attempts.
Claim(w, B) ==
  /\ phase[w] = "idle"
  /\ B # {}
  /\ Cardinality(B) <= BatchMax
  /\ \A t \in B : Claimable(t)
  /\ row' = [t \in Ids |-> IF t \in B
               THEN [row[t] EXCEPT !.status = "processing", !.live = TRUE,
                       !.attempts = row[t].attempts + 1, !.token = row[t].attempts + 1]
               ELSE row[t]]
  /\ held' = [held EXCEPT ![w] = [t \in Ids |->
                                    IF t \in B THEN row[t].attempts + 1 ELSE 0]]
  /\ phase' = [phase EXCEPT ![w] = "claimed"]
  /\ UNCHANGED <<state, lastId, ledger, overtaken, posted, stray, audits, faults>>

\* ProcessMojaloopTransferBatch hands the whole batch to the ledger.
Submit(w) ==
  /\ phase[w] = "claimed"
  /\ Batch(w) \cap Unmapped = {}
  /\ phase' = [phase EXCEPT ![w] = "sent"]
  /\ UNCHANGED <<storeVars, held, posted, stray, audits, faults>>

\* One request that cannot be built fails the call before anything is sent.
BuildFails(w) ==
  /\ phase[w] = "claimed"
  /\ Batch(w) \cap Unmapped # {}
  /\ phase' = [phase EXCEPT ![w] = "settling"]
  /\ UNCHANGED <<storeVars, held, posted, stray, audits, faults>>

\* The ledger applies the batch and answers; a transfer it has already is a
\* success.
Answer(w) ==
  /\ phase[w] = "sent"
  /\ ledger' = ledger \cup (Batch(w) \ Refused)
  /\ stray' = stray \ Batch(w)
  /\ posted' = [posted EXCEPT ![w] = Batch(w) \ Refused]
  /\ phase' = [phase EXCEPT ![w] = "settling"]
  /\ UNCHANGED <<row, state, lastId, overtaken, held, audits, faults>>

\* The call returns an error although the request may yet be applied.
LoseAnswer(w) ==
  /\ phase[w] = "sent"
  /\ Fault
  /\ stray' = stray \cup (Batch(w) \ (ledger \cup Refused))
  /\ phase' = [phase EXCEPT ![w] = "settling"]
  /\ UNCHANGED <<storeVars, held, posted, audits>>

LandStray(t) ==
  /\ t \in stray
  /\ ledger' = ledger \cup {t}
  /\ stray' = stray \ {t}
  /\ UNCHANGED <<row, state, lastId, overtaken, phase, held, posted, audits, faults>>

\* Settling a row ends the lane's hold on it; the last one ends the batch.
Settled(w, t) ==
  /\ held' = [held EXCEPT ![w][t] = 0]
  /\ posted' = [posted EXCEPT ![w] = @ \ {t}]
  /\ phase' = [phase EXCEPT ![w] = IF Batch(w) = {t} THEN "idle" ELSE "settling"]

\* Mistake: the finalization does not ask for the claim.
FinalizeUnfenced(w, t) ==
  /\ phase[w] = "settling"
  /\ FirstOf(w, t)
  /\ t \in posted[w] \cap ledger
  /\ row' = [row EXCEPT ![t] = Released(row[t], "delivered")]
  /\ state' = [state EXCEPT ![t] = "COMMITTED"]
  /\ audits' = [audits EXCEPT ![t] = @ + 1]
  /\ Settled(w, t)
  /\ UNCHANGED <<lastId, ledger, overtaken, stray, faults>>

\* Mistake: any live claim on the row will do.
FinalizeAnyToken(w, t) ==
  /\ row[t].status = "processing"
  /\ row[t].live
  /\ FinalizeUnfenced(w, t)

\* finalizeTigerBeetleBatchRecordWithLedger: the reconciliation finds the
\* transfer in the ledger, then one transaction fenced by the claim token
\* commits the transfer, the audit and the delivery.
Finalize(w, t) ==
  /\ phase[w] = "settling"
  /\ FirstOf(w, t)
  /\ t \in posted[w] \cap ledger
  /\ ActiveClaim(w, t)
  /\ row' = [row EXCEPT ![t] = Released(row[t], "delivered")]
  /\ state' = [state EXCEPT ![t] = "COMMITTED"]
  /\ audits' = [audits EXCEPT ![t] = @ + 1]
  /\ Settled(w, t)
  /\ UNCHANGED <<lastId, ledger, overtaken, stray, faults>>

\* A row whose outcome is an error, or whose finalization failed.
Unfinished(w, t) ==
  \/ t \notin posted[w] \cap ledger /\ UNCHANGED faults
  \/ t \in posted[w] \cap ledger /\ Fault

\* Mistake: the claim is not asked for.
GiveBackUnfenced(w, t) ==
  /\ phase[w] = "settling"
  /\ FirstOf(w, t)
  /\ Unfinished(w, t)
  /\ row' = [row EXCEPT ![t] = Released(row[t],
               IF row[t].attempts >= MaxAttempts THEN "dead_letter" ELSE "pending")]
  /\ Settled(w, t)
  /\ UNCHANGED <<state, lastId, ledger, overtaken, stray, audits>>

\* Mistake: one attempt too many.
GiveBackLate(w, t) ==
  /\ phase[w] = "settling"
  /\ FirstOf(w, t)
  /\ ActiveClaim(w, t)
  /\ Unfinished(w, t)
  /\ row' = [row EXCEPT ![t] = Released(row[t],
               IF row[t].attempts > MaxAttempts THEN "dead_letter" ELSE "pending")]
  /\ Settled(w, t)
  /\ UNCHANGED <<state, lastId, ledger, overtaken, stray, audits>>

\* retryOrDeadLetterTigerBeetleBatchRecord, fenced by the claim token.
GiveBack(w, t) ==
  /\ phase[w] = "settling"
  /\ FirstOf(w, t)
  /\ ActiveClaim(w, t)
  /\ Unfinished(w, t)
  /\ row' = [row EXCEPT ![t] = Released(row[t],
               IF row[t].attempts >= MaxAttempts THEN "dead_letter" ELSE "pending")]
  /\ Settled(w, t)
  /\ UNCHANGED <<state, lastId, ledger, overtaken, stray, audits>>

\* The lane returns from its loop with an error: its batch is forgotten.
GoDown(w) ==
  /\ phase' = [phase EXCEPT ![w] = "down"]
  /\ held' = [held EXCEPT ![w] = NoClaims]
  /\ posted' = [posted EXCEPT ![w] = {}]
  /\ UNCHANGED <<storeVars, audits>>

\* Both fenced transactions find another claim on the row, or none.
RefuseStale(w, t) ==
  /\ phase[w] = "settling"
  /\ FirstOf(w, t)
  /\ ~ActiveClaim(w, t)
  /\ GoDown(w)
  /\ UNCHANGED <<stray, faults>>

\* A database error in a claim or in a give-back ends the lane.
LaneError(w) ==
  /\ phase[w] \in {"idle", "settling"}
  /\ Fault
  /\ GoDown(w)
  /\ UNCHANGED stray

\* A cancelled lane notices only when a claim came back empty.
StopIdle(w) ==
  /\ phase[w] = "idle"
  /\ \E v \in Lanes : ProcessOf[v] = ProcessOf[w] /\ phase[v] = "down"
  /\ GoDown(w)
  /\ UNCHANGED <<stray, faults>>

Crash(p) ==
  LET dying == {w \in Lanes : ProcessOf[w] = p} IN
  /\ \E w \in dying : phase[w] # "down"
  /\ Fault
  /\ phase' = [w \in Lanes |-> IF w \in dying THEN "down" ELSE phase[w]]
  /\ held' = [w \in Lanes |-> IF w \in dying THEN NoClaims ELSE held[w]]
  /\ posted' = [w \in Lanes |-> IF w \in dying THEN {} ELSE posted[w]]
  /\ stray' = stray \cup
       {t \in Ids \ (ledger \cup Refused) :
          \E w \in dying : phase[w] = "sent" /\ t \in Batch(w)}
  /\ UNCHANGED <<storeVars, audits>>

\* runDispatcherGroup returns when every lane has stopped; the process exits
\* and its supervisor starts it again.
Restart(p) ==
  LET stopped == {w \in Lanes : ProcessOf[w] = p} IN
  /\ stopped # {}
  /\ \A w \in stopped : phase[w] = "down"
  /\ phase' = [w \in Lanes |-> IF w \in stopped THEN "idle" ELSE phase[w]]
  /\ UNCHANGED <<storeVars, held, posted, stray, audits, faults>>

\* claim_expires_at passes: in the time a working lane was given (a fault), or
\* after the lane is gone.
LeaseExpires(t) ==
  /\ row[t].status = "processing"
  /\ row[t].live
  /\ IF Orphaned(t) THEN UNCHANGED faults ELSE Fault
  /\ row' = [row EXCEPT ![t].live = FALSE]
  /\ UNCHANGED <<state, lastId, ledger, overtaken, phase, held, posted, stray, audits>>

---------------------------------------------------------------------------
\* One pass of runTigerBeetleDispatcherLane, step by step.
Dispatch(w) ==
  \/ \E B \in SUBSET Ids : Claim(w, B)
  \/ Submit(w)
  \/ BuildFails(w)
  \/ Answer(w)
  \/ \E t \in Ids : Finalize(w, t) \/ GiveBack(w, t) \/ RefuseStale(w, t)

LaneStep ==
  \/ \E w \in Lanes : Dispatch(w) \/ LoseAnswer(w) \/ LaneError(w) \/ StopIdle(w)
  \/ \E p \in Processes : Crash(p) \/ Restart(p)
  \/ \E t \in Ids : LandStray(t) \/ LeaseExpires(t)

StoreStep ==
  \/ \E t \in Transfers : BeginInitiate(t) \/ CommitInitiate(t)
  \/ \E t \in Ids, outcome \in {"COMMITTED", "ABORTED"} : ReceiveCallback(t, outcome)

Next ==
  \/ StoreStep /\ UNCHANGED <<authorityVars, laneVars>>
  \/ AuthorityStep /\ UNCHANGED laneVars
  \/ LaneStep /\ UNCHANGED authorityVars

Spec == Init /\ [][Next]_vars

\* What the runtime owes the lanes: each goes on when it can, a stopped process
\* is restarted, the lease of an abandoned claim runs out.  Nothing is assumed
\* of clients, of administrators or of abandoned requests.
Fairness ==
  /\ \A w \in Lanes : WF_vars(Dispatch(w) /\ UNCHANGED authorityVars)
  /\ \A w \in Lanes : WF_vars(StopIdle(w) /\ UNCHANGED authorityVars)
  /\ \A p \in Processes : WF_vars(Restart(p) /\ UNCHANGED authorityVars)
  /\ \A t \in Ids : WF_vars(Orphaned(t) /\ LeaseExpires(t) /\ UNCHANGED authorityVars)

FairSpec == Spec /\ Fairness

---------------------------------------------------------------------------
\* A transfer is audited and delivered together and exactly once, and neither
\* before the ledger has posted it: takeovers, stale lanes, retries, crashes
\* between the ledger's answer and the finalization, and states reported from
\* outside at any time included (finalizeTigerBeetleBatchRecordWithLedger).
SettledOnce ==
  \A t \in Ids :
    /\ audits[t] = IF row[t].status = "delivered" THEN 1 ELSE 0
    /\ row[t].status = "delivered" => t \in ledger

\* e was overtaken, or c stands in the place of a superseded head before e, or
\* what was decided about the dead letter e lets c go.
Excused(e, c) ==
  \/ e \in overtaken
  \/ \E t \in Ids : Supersedes(c, t) /\ row[t].id < row[e].id
  \/ Remediation(e) = c
  \/ Remediation(e) \in ledger

\* One payer's debits are posted in the order of their rows ("Keep one payer/FSP
\* debit stream ordered", claimTigerBeetleTransferBatch), across lanes, retries,
\* answers that were lost and requests that land late.
StreamOrder ==
  \A e, c \in Ids :
    /\ Visible(e) /\ Visible(c) /\ SameStream(e, c) /\ row[e].id < row[c].id
    /\ c \in ledger
    => e \in ledger \/ Excused(e, c)

\* Two lanes never work one payer's stream at the same time.
OneInFlight ==
  \A e, c \in Ids :
    /\ row[e].status = "processing" /\ row[c].status = "processing"
    /\ SameStream(e, c) /\ row[e].id < row[c].id
    => e \in overtaken \/ \E t \in overtaken : Supersedes(c, t)

\* A claim token is in the hands of one lane: after a takeover the old holder
\* cannot pass for the new one.
OneHolder ==
  \A v, w \in Lanes : \A t \in Ids :
    held[v][t] # 0 /\ held[v][t] = held[w][t] => v = w

\* A row waiting for another attempt still has one, however often its claim was
\* taken over without counting against the limit
\* (retryOrDeadLetterTigerBeetleBatchRecord).
AttemptsLeft ==
  \A t \in Ids : row[t].status = "pending" => row[t].attempts < MaxAttempts

\* Delivered and dead-lettered rows never change again, whatever a stale lane or
\* an administrator does (a remediation "never requeues the terminal row",
\* financial-dead-letter-remediation.config.test.ts).
TerminalRowsStay ==
  [][\A t \in Ids : row[t].status \in {"delivered", "dead_letter"}
                      => row'[t] = row[t]]_vars

\* A row ceases to be processing only by the lane whose claim on it is active.
OnlyHolderSettles ==
  [][\A t \in Ids :
       row[t].status = "processing" /\ row'[t].status # "processing"
       => \E w \in Lanes : ActiveClaim(w, t) /\ held[w][t] # 0 /\ held'[w][t] = 0]_vars

\* A replacement is dispatched only for a dead letter, and only when its intent
\* and the release of the stream's head were each asked for by one administrator
\* and granted by another (migrations 0056 and 0071).
ReplacementAuthorised ==
  \A r \in Replacements :
    row[r].attempts > 0 =>
      \E t \in Ids :
        /\ Remediation(t) = r
        /\ row[t].status = "dead_letter"
        /\ head[t].state = "approved"
        /\ \A decision \in {kase[t], head[t]} :
             /\ {decision.requestedBy, decision.approvedBy} \subseteq Admins
             /\ decision.requestedBy # decision.approvedBy

\* A row that was let past another is never held back by it again: a claim made
\* under an authority cannot lose it (mojaloop_dead_letter_predecessor_blocks).
GateStaysOpen ==
  [][\A e, c \in Ids :
       Visible(e) /\ ~PredecessorBlocks(e, c) => ~PredecessorBlocks(e, c)']_vars

\* A dead letter before t holds its stream back.
HeldBack(t) ==
  \E e \in Ids : /\ Precedes(e, t)
                 /\ row[e].status = "dead_letter"
                 /\ PredecessorBlocks(e, t)

\* A visible transfer is decided in the end, delivered or dead-lettered, unless
\* its stream waits for an administrator: no lane keeps it for ever, whoever
\* crashed with it or was cancelled with it.
EventuallyDecided ==
  \A t \in Ids :
    row[t].status = "pending" ~>
      row[t].status \in {"delivered", "dead_letter"} \/ HeldBack(t)

---------------------------------------------------------------------------
\* What the status of its row says has become of a transfer.
LifeIn(status) ==
  CASE status \in {"absent", "uncommitted"} -> "unknown"
    [] status \in {"pending", "processing"} -> "waiting"
    [] status = "delivered" -> "settled"
    [] status = "dead_letter" -> "given_up"

Promise == INSTANCE LedgerSettlement WITH
  Payments <- Ids,
  life <- [t \in Ids |-> LifeIn(row[t].status)],
  posted <- ledger,
  audits <- audits

\* Claims, leases, tokens, lanes and lost answers implement the settlement of
\* single transfers that LedgerSettlement promises: every step of the system is
\* one of its steps or leaves what it speaks of alone (runTigerBeetleDispatcherLane
\* with the transactions that insert and approve rows).
SettlesTransfers == Promise!Spec

---------------------------------------------------------------------------
(* What the repository's comments and tests say and the code does not do:  *)
(* each is checked by a run of its own, which TLC refutes.                 *)

\* Every payer's debits are posted in the order of the outbox ids, with no
\* exception for ids drawn in one order and committed in another ("Keep one
\* payer/FSP debit stream ordered", tigerbeetle_batch_outbox.go).
IdOrder ==
  \A e, c \in Ids :
    /\ Visible(e) /\ Visible(c) /\ SameStream(e, c) /\ row[e].id < row[c].id
    /\ c \in ledger
    => e \in ledger

\* The transfers of a batch do not depend on each other: one the ledger would
\* take is not given up because of another ("multiple independent deterministic
\* transfers ... Each outcome maps to the input at the same index",
\* ProcessMojaloopTransferBatch).  Meant for instances without faults.
BatchIndependent ==
  \A t \in Ids \ (Unmapped \cup Refused) : row[t].status # "dead_letter"

\* The authority over a head releases the original or its replacement, not both:
\* no replacement is dispatched for an original confirmed committed ("only
\* releases an approved original or its governed replacement",
\* financial-dead-letter-remediation.config.test.ts).
ReleasedOnce ==
  \A t \in Ids :
    /\ head[t].state = "approved"
    /\ head[t].disposition = "committed_resolved"
    /\ Remediation(t) # NoTransfer
    => row[Remediation(t)].attempts = 0

\* An approved replacement waits only for an unresolved row before the head it
\* replaces ("it can never pass an unresolved row that predates the original",
\* mojaloop_dead_letter_predecessor_blocks).
HeldOnlyByUnresolved ==
  \A r, t, e \in Ids :
    /\ Supersedes(r, t)
    /\ Precedes(e, r)
    /\ PredecessorBlocks(e, r)
    => head[e].state # "approved"
===========================================================================
