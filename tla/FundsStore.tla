---------------------------- MODULE FundsStore ----------------------------
(***************************************************************************)
(* The PostgreSQL tables the funds service settles transfers from, and the *)
(* transaction that writes them: mojaloop_transfers and the TigerBeetle    *)
(* rows of mojaloop_funds_outbox.  One outbox row per transfer is enough:  *)
(* its key is (destination, idempotency_key) and the service writes one    *)
(* ledger intent per transfer identity, so a row is named by its transfer. *)
(* Amounts, ILP packets, payload text and the workflow journal are left    *)
(* out; the rows of the other destinations belong to the generic lane.     *)
(***************************************************************************)
EXTENDS Naturals, FiniteSets

CONSTANTS
  Transfers,     \* transfer identities clients may initiate
  Replacements,  \* fresh identities an administrator may propose
  Fsps,          \* payer FSPs: one debit stream each
  NoFsp,         \* ledger_debit_fsp of a row that does not exist
  PayerOf,       \* the payer FSP of each initiated transfer
  Reported,      \* bound: identities whose state is reported from outside
  OpenTxLimit    \* bound: insert transactions open at the same time

ASSUME StoreAssumption ==
  /\ Transfers \cap Replacements = {}
  /\ NoFsp \notin Fsps
  /\ PayerOf \in [Transfers -> Fsps]
  /\ Reported \subseteq Transfers \cup Replacements
  /\ OpenTxLimit \in Nat \ {0}

Ids == Transfers \cup Replacements

VARIABLES
  row,        \* mojaloop_funds_outbox, destination tigerbeetle
  state,      \* mojaloop_transfers.state
  lastId,     \* the BIGSERIAL sequence behind mojaloop_funds_outbox.id
  ledger,     \* transfer identities TigerBeetle has posted
  overtaken   \* history: rows still uncommitted when a later row of their
              \* stream became visible

storeVars == <<row, state, lastId, ledger, overtaken>>

\* "uncommitted" is a row whose transaction has drawn its id and not committed.
RowStatus == {"absent", "uncommitted", "pending", "processing", "delivered",
              "dead_letter"}
TransferState == {"absent", "RESERVED", "PENDING", "COMMITTED", "ABORTED"}

\* token is 0 for NULL; live says claim_expires_at > NOW().
Row == [status: RowStatus, id: Nat, fsp: Fsps \cup {NoFsp},
        attempts: Nat, token: Nat, live: BOOLEAN]

NoRow == [status |-> "absent", id |-> 0, fsp |-> NoFsp,
          attempts |-> 0, token |-> 0, live |-> FALSE]

NewRow(status, fsp) ==
  [NoRow EXCEPT !.status = status, !.id = lastId + 1, !.fsp = fsp]

Visible(t) == row[t].status \notin {"absent", "uncommitted"}
OpenTransactions == {t \in Ids : row[t].status = "uncommitted"}
SameStream(s, t) == row[s].fsp = row[t].fsp

StoreTypeOK ==
  /\ row \in [Ids -> Row]
  /\ state \in [Ids -> TransferState]
  /\ lastId \in Nat
  /\ ledger \subseteq Ids
  /\ overtaken \subseteq Ids

StoreInit ==
  /\ row = [t \in Ids |-> NoRow]
  /\ state = [t \in Ids |-> "absent"]
  /\ lastId = 0
  /\ ledger = {}
  /\ overtaken = {}

---------------------------------------------------------------------------
\* storeTransferAndWorkflow up to its COMMIT: the INSERT draws the id while
\* the row is still invisible to every other session.  An initiation that
\* finds the transfer already there writes nothing.  A transaction that rolls
\* back looks to everyone else like one that never commits.
BeginInitiate(t) ==
  /\ row[t].status = "absent"
  /\ Cardinality(OpenTransactions) < OpenTxLimit
  /\ row' = [row EXCEPT ![t] = NewRow("uncommitted", PayerOf[t])]
  /\ lastId' = lastId + 1
  /\ UNCHANGED <<state, ledger, overtaken>>

\* The COMMIT makes the transfer, its workflow and its outbox row visible at
\* once.  Sessions commit in any order.  A state that was reported before stays:
\* the insert that meets the transfer touches nothing but its time.
CommitInitiate(t) ==
  /\ row[t].status = "uncommitted"
  /\ row' = [row EXCEPT ![t].status = "pending"]
  /\ state' = [state EXCEPT ![t] = IF @ = "absent" THEN "RESERVED" ELSE @]
  /\ overtaken' = overtaken \cup
       {s \in OpenTransactions : SameStream(s, t) /\ row[s].id < row[t].id}
  /\ UNCHANGED <<lastId, ledger>>

\* handleTransferCallback: storeTransfer inserts the reported state, or writes it
\* over whatever is stored, whatever has become of the outbox row: before the
\* initiation, while the row waits, is worked on or was given up, and for an
\* identity a case has proposed.  Only the transaction that initiates t makes it
\* wait.  (A COMMITTED report shows a fulfilment, and a report that would rewrite
\* a party or an amount is refused by the trigger of migration 0018; the workflow
\* event that goes with it fails for want of a payer and is dropped.)
ReceiveCallback(t, outcome) ==
  /\ t \in Reported
  /\ row[t].status # "uncommitted"
  /\ state' = [state EXCEPT ![t] = outcome]
  /\ UNCHANGED <<row, lastId, ledger, overtaken>>
===========================================================================
