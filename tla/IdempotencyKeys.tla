-------------------------- MODULE IdempotencyKeys --------------------------
(***************************************************************************)
(* platform_idempotency_keys: the table that makes a retried operation of  *)
(* the API server answer as it did the first time.  A key is a (scope,     *)
(* key) pair.  An operation that runs in a transaction claims its key in   *)
(* it: nobody else sees the row until the transaction commits, and another *)
(* insert of the key waits.  An operation without a transaction commits    *)
(* its claim at once.  Payload hashes are left out: a row with another     *)
(* hash makes the call throw, which runs nothing either.                   *)
(***************************************************************************)
EXTENDS Integers, FiniteSets

CONSTANTS
  Keys,      \* keys of every scope
  Sessions,  \* database sessions that run an operation in a transaction
  NoKey      \* a session without an open claim

ASSUME KeyAssumption == NoKey \notin Keys

VARIABLES
  keyRow,  \* the status of the committed row of each key
  claim    \* the key an open transaction of a session has inserted

keyVars == <<keyRow, claim>>

KeyStatus == {"none", "in_progress", "completed", "failed"}

KeysTypeOK ==
  /\ keyRow \in [Keys -> KeyStatus]
  /\ claim \in [Sessions -> Keys \cup {NoKey}]

KeysInit ==
  /\ keyRow = [k \in Keys |-> "none"]
  /\ claim = [s \in Sessions |-> NoKey]

\* Mistake: the insert does not see the claim of an open transaction.
FreshUnlocked(k) == keyRow[k] = "none"

\* Mistake: only a completed key stops the operation.
FreshUnlessCompleted(k) ==
  /\ \A s \in Sessions : claim[s] # k
  /\ keyRow[k] # "completed"

\* INSERT ... ON CONFLICT DO NOTHING waits for the open transaction that has
\* inserted the same key.  It then takes a key without a row; on a completed row
\* the call replays the stored response, and on any other, a failed one included,
\* it throws: in both cases the operation does not run.
Fresh(k) ==
  /\ \A s \in Sessions : claim[s] # k
  /\ keyRow[k] = "none"

\* The UPDATE of a finalization writes whichever committed row has the key, and
\* nothing when there is none.
Finalized(k, status) ==
  IF keyRow[k] = "none" THEN keyRow ELSE [keyRow EXCEPT ![k] = status]
============================================================================
