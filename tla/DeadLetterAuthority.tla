------------------------ MODULE DeadLetterAuthority ------------------------
(***************************************************************************)
(* What financial administrators may do about a transfer whose ledger      *)
(* dispatch was given up: the stored procedures of migrations 0056 (a case *)
(* per dead-letter row and a replacement intent) and 0071 (an authority    *)
(* over the head of the debit stream), each a transaction of its own, and  *)
(* the predecessor gate the dispatcher's claim consults.                   *)
(*                                                                         *)
(* Reasons, digests and idempotency keys are left out: a repeated call     *)
(* with the same key returns what is stored and changes nothing.  An       *)
(* administrator's statement about the ledger is evidence from outside the *)
(* program; it is taken to be true when it is made (LedgerEvidence).       *)
(***************************************************************************)
EXTENDS FundsStore

CONSTANTS
  Admins,    \* users that mojaloop_is_financial_administrator accepts
  NoOne,     \* a NULL user id
  NoTransfer \* a NULL replacement

ASSUME AuthorityAssumption == NoOne \notin Admins /\ NoTransfer \notin Ids

VARIABLES
  kase,  \* mojaloop_dead_letter_case, by the transfer of its outbox row
  head   \* mojaloop_dead_letter_head_resolution, likewise

authorityVars == <<kase, head>>

CaseState == {"none", "open", "approval_pending", "rejected",
              "replacement_intent_created"}
HeadState == {"none", "approval_pending", "approved", "rejected"}
Disposition == {"committed_resolved", "not_committed_superseded"}

Case == [state: CaseState, requestedBy: Admins \cup {NoOne},
         approvedBy: Admins \cup {NoOne},
         replacement: Replacements \cup {NoTransfer}]
Resolution == [state: HeadState, disposition: Disposition \cup {"none"},
         requestedBy: Admins \cup {NoOne}, approvedBy: Admins \cup {NoOne}]

NoCase == [state |-> "none", requestedBy |-> NoOne, approvedBy |-> NoOne,
           replacement |-> NoTransfer]
NoHead == [state |-> "none", disposition |-> "none", requestedBy |-> NoOne,
           approvedBy |-> NoOne]

AuthorityTypeOK == kase \in [Ids -> Case] /\ head \in [Ids -> Resolution]

AuthorityInit ==
  /\ kase = [t \in Ids |-> NoCase]
  /\ head = [t \in Ids |-> NoHead]

---------------------------------------------------------------------------
\* remediation_outbox_id of t's case: set when the replacement is approved.
Remediation(t) ==
  IF kase[t].state = "replacement_intent_created"
    THEN kase[t].replacement ELSE NoTransfer

\* r is the approved replacement of the approved, superseded head t.
Supersedes(r, t) ==
  /\ head[t].state = "approved"
  /\ head[t].disposition = "not_committed_superseded"
  /\ Remediation(t) = r

\* Mistake: a replacement passes every row of its stream.
ReplacementPassesAll(e, c) ==
  /\ ~ \E t \in Ids : Supersedes(c, t)
  /\ \/ head[e].state # "approved"
     \/ /\ head[e].disposition = "not_committed_superseded"
        /\ Remediation(e) # c
        /\ Remediation(e) = NoTransfer \/ row[Remediation(e)].status # "delivered"

\* mojaloop_dead_letter_predecessor_blocks: does the undelivered row of e keep
\* the later row of c in the same stream from being claimed?
PredecessorBlocks(e, c) ==
  /\ ~ \E t \in Ids : Supersedes(c, t) /\ row[e].id > row[t].id
  /\ \/ head[e].state # "approved"
     \/ /\ head[e].disposition = "not_committed_superseded"
        /\ Remediation(e) # c
        /\ Remediation(e) = NoTransfer \/ row[Remediation(e)].status # "delivered"

\* The reconciliation an administrator cites, true at the time it is cited.
LedgerEvidence(t, disposition) ==
  IF disposition = "committed_resolved" THEN t \in ledger ELSE t \notin ledger

---------------------------------------------------------------------------
\* mojaloop_open_dead_letter_case.
OpenCase(t) ==
  /\ row[t].status = "dead_letter"
  /\ kase[t].state = "none"
  /\ kase' = [kase EXCEPT ![t].state = "open"]
  /\ UNCHANGED <<storeVars, head>>

\* mojaloop_request_dead_letter_remediation: only for a transfer confirmed not
\* committed, only with an identity no transfer and no other case has.
RequestRemediation(a, t, r) ==
  /\ kase[t].state \in {"open", "rejected"}
  /\ row[t].status = "dead_letter"
  /\ LedgerEvidence(t, "not_committed_superseded")
  /\ state[r] = "absent"
  /\ \A s \in Ids \ {t} : kase[s].replacement # r
  /\ kase' = [kase EXCEPT ![t] = [state |-> "approval_pending", requestedBy |-> a,
                                  approvedBy |-> NoOne, replacement |-> r]]
  /\ UNCHANGED <<storeVars, head>>

\* mojaloop_approve_dead_letter_remediation: the replacement transfer and its
\* outbox row appear with the approval, in the payer stream of the original.
ApproveRemediation(a, t) ==
  LET r == kase[t].replacement IN
  /\ kase[t].state = "approval_pending"
  /\ kase[t].requestedBy # a
  /\ row[t].status = "dead_letter"
  /\ state[t] # "COMMITTED"
  /\ state[r] = "absent"
  /\ row[r].status = "absent"
  /\ row' = [row EXCEPT ![r] = NewRow("pending", row[t].fsp)]
  /\ lastId' = lastId + 1
  /\ state' = [state EXCEPT ![r] = "PENDING"]
  /\ overtaken' = overtaken \cup {s \in OpenTransactions : SameStream(s, t)}
  /\ kase' = [kase EXCEPT ![t].state = "replacement_intent_created",
                          ![t].approvedBy = a]
  /\ UNCHANGED <<ledger, head>>

\* mojaloop_reject_dead_letter_remediation.
RejectRemediation(a, t) ==
  /\ kase[t].state = "approval_pending"
  /\ kase[t].requestedBy # a
  /\ kase' = [kase EXCEPT ![t].state = "rejected"]
  /\ UNCHANGED <<storeVars, head>>

\* Mistake: an approved resolution can be asked for again.
RequestHeadAgain(a, t, d) ==
  /\ kase[t].state # "none"
  /\ row[t].status = "dead_letter"
  /\ d = "not_committed_superseded" => Remediation(t) # NoTransfer
  /\ d = "committed_resolved" => LedgerEvidence(t, d)
  /\ head' = [head EXCEPT ![t] = [state |-> "approval_pending", disposition |-> d,
                                  requestedBy |-> a, approvedBy |-> NoOne]]
  /\ UNCHANGED <<storeVars, kase>>

\* mojaloop_request_dead_letter_head_resolution.  A rejected resolution is
\* overwritten by the new request; an approved one is final.
RequestHeadResolution(a, t, d) ==
  /\ kase[t].state # "none"
  /\ row[t].status = "dead_letter"
  /\ d = "not_committed_superseded" => Remediation(t) # NoTransfer
  /\ d = "committed_resolved" => LedgerEvidence(t, d)
  /\ head[t].state \in {"none", "rejected"}
  /\ head' = [head EXCEPT ![t] = [state |-> "approval_pending", disposition |-> d,
                                  requestedBy |-> a, approvedBy |-> NoOne]]
  /\ UNCHANGED <<storeVars, kase>>

\* Mistake: the requester may approve.
ApproveOwnHead(a, t) ==
  /\ head[t].state = "approval_pending"
  /\ row[t].status = "dead_letter"
  /\ head[t].disposition = "not_committed_superseded" => Remediation(t) # NoTransfer
  /\ head' = [head EXCEPT ![t].state = "approved", ![t].approvedBy = a]
  /\ UNCHANGED <<storeVars, kase>>

\* mojaloop_approve_dead_letter_head_resolution.
ApproveHeadResolution(a, t) ==
  /\ head[t].state = "approval_pending"
  /\ head[t].requestedBy # a
  /\ row[t].status = "dead_letter"
  /\ head[t].disposition = "not_committed_superseded" => Remediation(t) # NoTransfer
  /\ head' = [head EXCEPT ![t].state = "approved", ![t].approvedBy = a]
  /\ UNCHANGED <<storeVars, kase>>

\* mojaloop_reject_dead_letter_head_resolution.
RejectHeadResolution(a, t) ==
  /\ head[t].state = "approval_pending"
  /\ head[t].requestedBy # a
  /\ head' = [head EXCEPT ![t].state = "rejected"]
  /\ UNCHANGED <<storeVars, kase>>

AuthorityStep ==
  \E t \in Ids :
    \/ OpenCase(t)
    \/ \E a \in Admins :
         \/ \E r \in Replacements : RequestRemediation(a, t, r)
         \/ ApproveRemediation(a, t)
         \/ RejectRemediation(a, t)
         \/ \E d \in Disposition : RequestHeadResolution(a, t, d)
         \/ ApproveHeadResolution(a, t)
         \/ RejectHeadResolution(a, t)
===========================================================================
