-------------------------- MODULE LedgerSettlement --------------------------
(***************************************************************************)
(* What settling a transfer promises, whoever does it and however often it *)
(* is tried: a transfer on file is posted by the ledger at most once, and  *)
(* is settled once, with one audit, after it was posted, or given up for   *)
(* an administrator to decide.  Both are final.  Giving a transfer up does *)
(* not keep the ledger from posting it: a request may still be under way.  *)
(***************************************************************************)
EXTENDS Naturals

CONSTANT Payments  \* the identities transfers may have

VARIABLES
  life,    \* what is known of each transfer
  posted,  \* transfers the ledger has posted
  audits   \* reconciliation audits written for each transfer

promiseVars == <<life, posted, audits>>

Life == {"unknown", "waiting", "settled", "given_up"}

Init ==
  /\ life = [t \in Payments |-> "unknown"]
  /\ posted = {}
  /\ audits = [t \in Payments |-> 0]

Accept(t) ==
  /\ life[t] = "unknown"
  /\ life' = [life EXCEPT ![t] = "waiting"]
  /\ UNCHANGED <<posted, audits>>

\* The ledger posts some transfers on file, together.
Post(T) ==
  /\ \A t \in T : life[t] # "unknown"
  /\ posted' = posted \cup T
  /\ UNCHANGED <<life, audits>>

Settle(t) ==
  /\ life[t] = "waiting"
  /\ t \in posted
  /\ life' = [life EXCEPT ![t] = "settled"]
  /\ audits' = [audits EXCEPT ![t] = @ + 1]
  /\ UNCHANGED posted

GiveUp(t) ==
  /\ life[t] = "waiting"
  /\ life' = [life EXCEPT ![t] = "given_up"]
  /\ UNCHANGED <<posted, audits>>

Next ==
  \/ \E t \in Payments : Accept(t) \/ Settle(t) \/ GiveUp(t)
  \/ \E T \in SUBSET Payments : Post(T)

Spec == Init /\ [][Next]_promiseVars
=============================================================================
