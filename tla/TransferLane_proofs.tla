------------------------ MODULE TransferLane_proofs ------------------------
(***************************************************************************)
(* Proofs about TransferLane, for any set of transfers, payers, lanes,     *)
(* processes and administrators and for any bounds.                        *)
(***************************************************************************)
EXTENDS TransferLane, TLAPS

---------------------------------------------------------------------------
(* The rows each operation writes are rows.                                *)

\* An inserted row, initiated or proposed by an administrator.
LEMMA NewRowIsRow ==
  ASSUME NEW status \in RowStatus, NEW fsp \in Fsps \cup {NoFsp}, lastId \in Nat
  PROVE  NewRow(status, fsp) \in Row
<1>1. ASSUME NEW n \in Nat
      PROVE  [NoRow EXCEPT !.status = status, !.id = n, !.fsp = fsp] \in Row
  <2>1. NoRow \in Row
    BY DEF NoRow, Row, RowStatus
  <2> QED BY <2>1 DEF Row
<1>2. lastId + 1 \in Nat
  OBVIOUS
<1> QED BY <1>1, <1>2 DEF NewRow

\* The row a claim leaves.
ClaimedRow(r) ==
  [r EXCEPT !.status = "processing", !.live = TRUE,
            !.attempts = r.attempts + 1, !.token = r.attempts + 1]

LEMMA ClaimedRowIsRow ==
  ASSUME NEW r \in Row
  PROVE  ClaimedRow(r) \in Row /\ r.attempts + 1 \in Nat
<1>1. ASSUME NEW n \in Nat
      PROVE  [r EXCEPT !.status = "processing", !.live = TRUE,
                       !.attempts = n, !.token = n] \in Row
  BY DEF Row, RowStatus
<1>2. r.attempts + 1 \in Nat
  BY DEF Row
<1> QED BY <1>1, <1>2 DEF ClaimedRow

\* A row that is committed, given back, settled or whose lease runs out.
LEMMA ChangedRowIsRow ==
  ASSUME NEW r \in Row, NEW status \in RowStatus
  PROVE  /\ [r EXCEPT !.status = status] \in Row
         /\ [r EXCEPT !.live = FALSE] \in Row
         /\ Released(r, status) \in Row
BY DEF Row, Released

---------------------------------------------------------------------------
(* Type correctness.                                                       *)

LEMMA TypeInit == Init => TypeOK
<1> SUFFICES ASSUME Init PROVE TypeOK
  OBVIOUS
<1>1. StoreTypeOK
  BY DEF Init, StoreInit, StoreTypeOK, Row, NoRow, RowStatus, TransferState
<1>2. AuthorityTypeOK
  BY DEF Init, AuthorityInit, AuthorityTypeOK, Case, Resolution, NoCase, NoHead,
         CaseState, HeadState
<1> QED BY <1>1, <1>2, LaneAssumption DEF Init, TypeOK, Phase, NoClaims

LEMMA TypeStore ==
  TypeOK /\ StoreStep /\ UNCHANGED <<authorityVars, laneVars>> => TypeOK'
<1> SUFFICES ASSUME TypeOK, StoreStep, UNCHANGED <<authorityVars, laneVars>>
             PROVE  TypeOK'
  OBVIOUS
<1>1. ASSUME NEW t \in Transfers
      PROVE  /\ t \in Ids /\ row[t] \in Row
             /\ PayerOf[t] \in Fsps \cup {NoFsp}
  BY StoreAssumption DEF Ids, TypeOK, StoreTypeOK
<1>2. ASSUME NEW t \in Transfers, BeginInitiate(t)
      PROVE  TypeOK'
  <2>1. NewRow("uncommitted", PayerOf[t]) \in Row
    BY <1>1, NewRowIsRow DEF RowStatus, TypeOK, StoreTypeOK
  <2> QED BY <1>1, <1>2, <2>1
          DEF BeginInitiate, TypeOK, StoreTypeOK, AuthorityTypeOK, authorityVars, laneVars
<1>3. ASSUME NEW t \in Transfers, CommitInitiate(t)
      PROVE  TypeOK'
  <2>1. [row[t] EXCEPT !.status = "pending"] \in Row
    BY <1>1, ChangedRowIsRow DEF RowStatus
  <2>2. StoreTypeOK'
    BY <1>1, <1>3, <2>1
       DEF CommitInitiate, TypeOK, StoreTypeOK, OpenTransactions, TransferState
  <2> QED BY <2>2 DEF TypeOK, AuthorityTypeOK, authorityVars, laneVars
<1>4. ASSUME NEW t \in Ids, NEW outcome \in {"COMMITTED", "ABORTED"},
             ReceiveCallback(t, outcome)
      PROVE  TypeOK'
  BY <1>1, <1>4 DEF TransferState, ReceiveCallback, TypeOK, StoreTypeOK, AuthorityTypeOK, authorityVars, laneVars
<1> QED BY <1>2, <1>3, <1>4 DEF StoreStep

LEMMA TypeAuthority ==
  TypeOK /\ AuthorityStep /\ UNCHANGED laneVars => TypeOK'
<1> SUFFICES ASSUME TypeOK, AuthorityStep, UNCHANGED laneVars
             PROVE  TypeOK'
  OBVIOUS
<1> USE DEF TypeOK, laneVars
<1>1. PICK t \in Ids :
        \/ OpenCase(t)
        \/ \E a \in Admins :
             \/ \E r \in Replacements : RequestRemediation(a, t, r)
             \/ ApproveRemediation(a, t)
             \/ RejectRemediation(a, t)
             \/ \E d \in Disposition : RequestHeadResolution(a, t, d)
             \/ ApproveHeadResolution(a, t)
             \/ RejectHeadResolution(a, t)
  BY DEF AuthorityStep
<1>2. CASE OpenCase(t)
  BY <1>2 DEF OpenCase, AuthorityTypeOK, StoreTypeOK, storeVars, Case, CaseState
<1>3. ASSUME NEW a \in Admins, NEW r \in Replacements, RequestRemediation(a, t, r)
      PROVE  TypeOK'
  BY <1>3 DEF RequestRemediation, AuthorityTypeOK, StoreTypeOK, storeVars, Case, CaseState
<1>4. ASSUME NEW a \in Admins, ApproveRemediation(a, t)
      PROVE  TypeOK'
  <2>1. row[t] \in Row /\ kase[t] \in Case
    BY DEF StoreTypeOK, AuthorityTypeOK
  <2>2. NewRow("pending", row[t].fsp) \in Row
    <3>1. row[t].fsp \in Fsps \cup {NoFsp} /\ "pending" \in RowStatus
      BY <2>1 DEF Row, RowStatus
    <3> QED BY <3>1, NewRowIsRow DEF StoreTypeOK
  <2>3. AuthorityTypeOK'
    <3>1. [kase[t] EXCEPT !.state = "replacement_intent_created", !.approvedBy = a] \in Case
      BY <2>1 DEF Case, CaseState
    <3>2. kase' = [kase EXCEPT ![t] = [kase[t] EXCEPT
                     !.state = "replacement_intent_created", !.approvedBy = a]]
      BY <1>4 DEF ApproveRemediation, AuthorityTypeOK
    <3> QED BY <1>4, <3>1, <3>2 DEF ApproveRemediation, AuthorityTypeOK
  <2>4. StoreTypeOK'
    <3>1. kase[t].replacement \in Ids => row' \in [Ids -> Row] /\ state' \in [Ids -> TransferState]
      BY <1>4, <2>2 DEF ApproveRemediation, StoreTypeOK, TransferState
    <3>2. kase[t].replacement \notin Ids => row' \in [Ids -> Row] /\ state' \in [Ids -> TransferState]
      BY <1>4 DEF ApproveRemediation, StoreTypeOK
    <3> QED BY <1>4, <3>1, <3>2 DEF ApproveRemediation, StoreTypeOK, OpenTransactions
  <2> QED BY <2>3, <2>4
<1>5. ASSUME NEW a \in Admins, RejectRemediation(a, t)
      PROVE  TypeOK'
  BY <1>5 DEF RejectRemediation, AuthorityTypeOK, StoreTypeOK, storeVars, Case, CaseState
<1>6. ASSUME NEW a \in Admins, NEW d \in Disposition, RequestHeadResolution(a, t, d)
      PROVE  TypeOK'
  BY <1>6 DEF RequestHeadResolution, AuthorityTypeOK, StoreTypeOK, storeVars,
              Resolution, HeadState
<1>7. ASSUME NEW a \in Admins, ApproveHeadResolution(a, t)
      PROVE  TypeOK'
  BY <1>7 DEF ApproveHeadResolution, AuthorityTypeOK, StoreTypeOK, storeVars,
              Resolution, HeadState
<1>8. ASSUME NEW a \in Admins, RejectHeadResolution(a, t)
      PROVE  TypeOK'
  BY <1>8 DEF RejectHeadResolution, AuthorityTypeOK, StoreTypeOK, storeVars,
              Resolution, HeadState
<1> QED BY <1>1, <1>2, <1>3, <1>4, <1>5, <1>6, <1>7, <1>8

LEMMA TypeLane ==
  TypeOK /\ LaneStep /\ UNCHANGED authorityVars => TypeOK'
<1> SUFFICES ASSUME TypeOK, LaneStep, UNCHANGED authorityVars
             PROVE  TypeOK'
  OBVIOUS
<1> USE LaneAssumption DEF TypeOK, authorityVars, AuthorityTypeOK
<1>1. ASSUME NEW w \in Lanes, NEW B \in SUBSET Ids, Claim(w, B)
      PROVE  TypeOK'
  <2>1. \A t \in Ids : ClaimedRow(row[t]) \in Row /\ row[t].attempts + 1 \in Nat
    BY ClaimedRowIsRow DEF StoreTypeOK
  <2>2. row' = [t \in Ids |-> IF t \in B THEN ClaimedRow(row[t]) ELSE row[t]]
    BY <1>1 DEF Claim, ClaimedRow
  <2>3. StoreTypeOK'
    <3>1. row' \in [Ids -> Row]
      BY <2>1, <2>2 DEF StoreTypeOK
    <3> QED BY <1>1, <3>1 DEF Claim, StoreTypeOK
  <2>4. [t \in Ids |-> IF t \in B THEN row[t].attempts + 1 ELSE 0] \in [Ids -> Nat]
    BY <2>1
  <2> QED BY <1>1, <2>3, <2>4 DEF Claim, Phase
<1>2. ASSUME NEW w \in Lanes, Submit(w) \/ BuildFails(w)
      PROVE  TypeOK'
  BY <1>2 DEF Submit, BuildFails, Phase, StoreTypeOK, storeVars
<1>3. ASSUME NEW w \in Lanes, Answer(w)
      PROVE  TypeOK'
  BY <1>3 DEF Answer, Batch, Phase, StoreTypeOK
<1>4. ASSUME NEW w \in Lanes, LoseAnswer(w)
      PROVE  TypeOK'
  BY <1>4 DEF LoseAnswer, Fault, Batch, Phase, StoreTypeOK, storeVars
<1>5. ASSUME NEW w \in Lanes, NEW t \in Ids, Finalize(w, t)
      PROVE  TypeOK'
  <2>1. Released(row[t], "delivered") \in Row
    BY ChangedRowIsRow DEF StoreTypeOK, RowStatus
  <2> QED BY <1>5, <2>1 DEF Finalize, Settled, Phase, StoreTypeOK, TransferState
<1>6. ASSUME NEW w \in Lanes, NEW t \in Ids, GiveBack(w, t)
      PROVE  TypeOK'
  <2>1. \A status \in {"pending", "dead_letter"} : Released(row[t], status) \in Row
    BY ChangedRowIsRow DEF StoreTypeOK, RowStatus
  <2> QED BY <1>6, <2>1
          DEF GiveBack, Unfinished, Fault, Settled, Phase, StoreTypeOK
<1>7. ASSUME NEW w \in Lanes, GoDown(w), stray' = stray,
             faults' = faults \/ Fault
      PROVE  TypeOK'
  BY <1>7 DEF GoDown, Fault, Phase, NoClaims, StoreTypeOK, storeVars
<1>8. ASSUME NEW p \in Processes, Crash(p)
      PROVE  TypeOK'
  BY <1>8 DEF Crash, Fault, Phase, NoClaims, StoreTypeOK, storeVars
<1>9. ASSUME NEW p \in Processes, Restart(p)
      PROVE  TypeOK'
  BY <1>9 DEF Restart, Phase, StoreTypeOK, storeVars
<1>10. ASSUME NEW t \in Ids, LandStray(t)
       PROVE  TypeOK'
  BY <1>10 DEF LandStray, StoreTypeOK
<1>11. ASSUME NEW t \in Ids, LeaseExpires(t)
       PROVE  TypeOK'
  <2>1. [row[t] EXCEPT !.live = FALSE] \in Row
    BY ChangedRowIsRow DEF StoreTypeOK, RowStatus
  <2> QED BY <1>11, <2>1 DEF LeaseExpires, Fault, StoreTypeOK
<1> QED
  BY <1>1, <1>2, <1>3, <1>4, <1>5, <1>6, <1>7, <1>8, <1>9, <1>10, <1>11
     DEF LaneStep, Dispatch, RefuseStale, LaneError, StopIdle

LEMMA TypeStep == TypeOK /\ [Next]_vars => TypeOK'
<1>1. TypeOK /\ UNCHANGED vars => TypeOK'
  BY DEF TypeOK, StoreTypeOK, AuthorityTypeOK, vars, storeVars, authorityVars, laneVars
<1> QED BY <1>1, TypeStore, TypeAuthority, TypeLane DEF Next

\* Every reachable state is well typed, whatever administrators, clients, the
\* ledger and the lanes do.
THEOREM TypeCorrect == Spec => []TypeOK
BY TypeInit, TypeStep, PTL DEF Spec

---------------------------------------------------------------------------
(* The life of a row: what one step of the whole system, whoever takes it, *)
(* may do to one transfer.  The proofs below argue from these seven cases. *)

Kept(t) == row'[t] = row[t] /\ audits'[t] = audits[t]

Inserted(t) ==
  /\ row[t].status = "absent"
  /\ \E status \in {"uncommitted", "pending"}, fsp \in Fsps \cup {NoFsp} :
       row'[t] = NewRow(status, fsp)
  /\ lastId' = lastId + 1
  /\ audits'[t] = audits[t]

Committed(t) ==
  /\ row[t].status = "uncommitted"
  /\ row'[t] = [row[t] EXCEPT !.status = "pending"]
  /\ audits'[t] = audits[t]

Claimed(t) ==
  /\ Claimable(t)
  /\ row'[t] = ClaimedRow(row[t])
  /\ audits'[t] = audits[t]

GivenBack(t) ==
  /\ row[t].status = "processing"
  /\ \E status \in {"pending", "dead_letter"} :
       /\ row'[t] = Released(row[t], status)
       /\ status = "pending" => row[t].attempts < MaxAttempts
  /\ audits'[t] = audits[t]

Delivered(t) ==
  /\ row[t].status = "processing"
  /\ row'[t] = Released(row[t], "delivered")
  /\ audits'[t] = audits[t] + 1
  /\ t \in ledger

Expired(t) ==
  /\ row[t].status = "processing"
  /\ row'[t] = [row[t] EXCEPT !.live = FALSE]
  /\ audits'[t] = audits[t]

RowLife(t) ==
  \/ Kept(t) \/ Inserted(t) \/ Committed(t) \/ Claimed(t)
  \/ GivenBack(t) \/ Delivered(t) \/ Expired(t)

LEMMA RowLifeStore ==
  TypeOK /\ StoreStep /\ UNCHANGED <<authorityVars, laneVars>>
    => \A s \in Ids : RowLife(s)
<1> SUFFICES ASSUME TypeOK, StoreStep, UNCHANGED <<authorityVars, laneVars>>, NEW s \in Ids
             PROVE  RowLife(s)
  OBVIOUS
<1>1. audits' = audits
  BY DEF laneVars
<1>2. ASSUME NEW t \in Transfers
      PROVE  t \in Ids /\ PayerOf[t] \in Fsps \cup {NoFsp}
  BY StoreAssumption DEF Ids
<1>3. ASSUME NEW t \in Transfers, BeginInitiate(t)
      PROVE  RowLife(s)
  <2>1. CASE s = t
    BY <1>1, <1>2, <1>3, <2>1 DEF BeginInitiate, RowLife, Inserted, TypeOK, StoreTypeOK
  <2>2. CASE s # t
    BY <1>1, <1>2, <1>3, <2>2 DEF BeginInitiate, RowLife, Kept, TypeOK, StoreTypeOK
  <2> QED BY <2>1, <2>2
<1>4. ASSUME NEW t \in Transfers, CommitInitiate(t)
      PROVE  RowLife(s)
  <2>1. CASE s = t
    BY <1>1, <1>2, <1>4, <2>1 DEF CommitInitiate, RowLife, Committed, TypeOK, StoreTypeOK
  <2>2. CASE s # t
    BY <1>1, <1>2, <1>4, <2>2 DEF CommitInitiate, RowLife, Kept, TypeOK, StoreTypeOK
  <2> QED BY <2>1, <2>2
<1>5. ASSUME NEW t \in Ids, NEW outcome \in {"COMMITTED", "ABORTED"},
             ReceiveCallback(t, outcome)
      PROVE  RowLife(s)
  BY <1>1, <1>5 DEF ReceiveCallback, RowLife, Kept
<1> QED BY <1>3, <1>4, <1>5 DEF StoreStep

LEMMA RowLifeAuthority ==
  TypeOK /\ AuthorityStep /\ UNCHANGED laneVars => \A s \in Ids : RowLife(s)
<1> SUFFICES ASSUME TypeOK, AuthorityStep, UNCHANGED laneVars, NEW s \in Ids
             PROVE  RowLife(s)
  OBVIOUS
<1>1. CASE \E t \in Ids, a \in Admins : ApproveRemediation(a, t)
  <2>1. PICK t \in Ids, a \in Admins : ApproveRemediation(a, t)
    BY <1>1
  <2>2. row[t].fsp \in Fsps \cup {NoFsp}
    BY DEF TypeOK, StoreTypeOK, Row
  <2>3. CASE s = kase[t].replacement
    BY <2>1, <2>2, <2>3
       DEF ApproveRemediation, RowLife, Inserted, TypeOK, StoreTypeOK, laneVars
  <2>4. CASE s # kase[t].replacement
    BY <2>1, <2>4 DEF ApproveRemediation, RowLife, Kept, TypeOK, StoreTypeOK, laneVars
  <2> QED BY <2>3, <2>4
<1>2. CASE UNCHANGED storeVars
  BY <1>2 DEF storeVars, laneVars, RowLife, Kept
<1> QED
  BY <1>1, <1>2
     DEF AuthorityStep, OpenCase, RequestRemediation, RejectRemediation,
         RequestHeadResolution, ApproveHeadResolution, RejectHeadResolution

LEMMA RowLifeLane ==
  TypeOK /\ LaneStep /\ UNCHANGED authorityVars => \A s \in Ids : RowLife(s)
<1> SUFFICES ASSUME TypeOK, LaneStep, UNCHANGED authorityVars, NEW s \in Ids
             PROVE  RowLife(s)
  OBVIOUS
<1>1. ASSUME NEW w \in Lanes, NEW B \in SUBSET Ids, Claim(w, B)
      PROVE  RowLife(s)
  <2>1. row'[s] = IF s \in B THEN ClaimedRow(row[s]) ELSE row[s]
    BY <1>1 DEF Claim, ClaimedRow
  <2> QED BY <1>1, <2>1 DEF Claim, RowLife, Claimed, Kept
<1>2. ASSUME NEW w \in Lanes, NEW t \in Ids, Finalize(w, t)
      PROVE  RowLife(s)
  <2>1. CASE s = t
    BY <1>2, <2>1
       DEF Finalize, ActiveClaim, RowLife, Delivered, TypeOK, StoreTypeOK
  <2>2. CASE s # t
    BY <1>2, <2>2 DEF Finalize, RowLife, Kept, TypeOK, StoreTypeOK
  <2> QED BY <2>1, <2>2
<1>3. ASSUME NEW w \in Lanes, NEW t \in Ids, GiveBack(w, t)
      PROVE  RowLife(s)
  <2>1. CASE s = t
    <3>1. row[t] \in Row /\ row[t].attempts \in Nat
      BY DEF TypeOK, StoreTypeOK, Row
    <3>2. ~(row[t].attempts >= MaxAttempts) => row[t].attempts < MaxAttempts
      BY <3>1, LaneAssumption
    <3> QED BY <1>3, <2>1, <3>2
            DEF GiveBack, ActiveClaim, RowLife, GivenBack, TypeOK, StoreTypeOK
  <2>2. CASE s # t
    BY <1>3, <2>2 DEF GiveBack, RowLife, Kept, TypeOK, StoreTypeOK
  <2> QED BY <2>1, <2>2
<1>4. ASSUME NEW t \in Ids, LeaseExpires(t)
      PROVE  RowLife(s)
  <2>1. CASE s = t
    BY <1>4, <2>1 DEF LeaseExpires, RowLife, Expired, TypeOK, StoreTypeOK
  <2>2. CASE s # t
    BY <1>4, <2>2 DEF LeaseExpires, RowLife, Kept, TypeOK, StoreTypeOK
  <2> QED BY <2>1, <2>2
<1>5. CASE UNCHANGED <<row, state, audits>>
  BY <1>5 DEF RowLife, Kept
<1> QED
  BY <1>1, <1>2, <1>3, <1>4, <1>5
     DEF LaneStep, Dispatch, Submit, BuildFails, Answer, LoseAnswer, GoDown, RefuseStale,
         LaneError, StopIdle, Crash, Restart, LandStray, storeVars

LEMMA RowLifeStep == TypeOK /\ [Next]_vars => \A s \in Ids : RowLife(s)
<1>1. UNCHANGED vars => \A s \in Ids : RowLife(s)
  BY DEF vars, storeVars, laneVars, RowLife, Kept
<1> QED BY <1>1, RowLifeStore, RowLifeAuthority, RowLifeLane DEF Next

\* The ledger forgets nothing.
LEMMA LedgerGrows == [Next]_vars => ledger \subseteq ledger'
<1>1. StoreStep => ledger' = ledger
  BY DEF StoreStep, BeginInitiate, CommitInitiate, ReceiveCallback
<1>2. AuthorityStep => ledger' = ledger
  BY DEF AuthorityStep, OpenCase, RequestRemediation, ApproveRemediation,
         RejectRemediation, RequestHeadResolution, ApproveHeadResolution,
         RejectHeadResolution, storeVars
<1>3. LaneStep => ledger \subseteq ledger'
  BY DEF LaneStep, Dispatch, Claim, Submit, BuildFails, Answer, LoseAnswer, Finalize,
         GiveBack, GoDown, RefuseStale, LaneError, StopIdle, Crash, Restart,
         LandStray, LeaseExpires, storeVars
<1>4. UNCHANGED vars => ledger' = ledger
  BY DEF vars, storeVars
<1> QED BY <1>1, <1>2, <1>3, <1>4 DEF Next

---------------------------------------------------------------------------
(* Settlement.                                                             *)

LEMMA SettledOnceStep ==
  TypeOK /\ SettledOnce /\ [Next]_vars => SettledOnce'
<1> SUFFICES ASSUME TypeOK, SettledOnce, [Next]_vars, NEW t \in Ids
             PROVE  /\ audits'[t] = IF row'[t].status = "delivered" THEN 1 ELSE 0
                    /\ row'[t].status = "delivered" => t \in ledger'
  BY DEF SettledOnce
<1>1. RowLife(t) /\ ledger \subseteq ledger' /\ row[t] \in Row
  BY RowLifeStep, LedgerGrows DEF TypeOK, StoreTypeOK
<1>2. /\ audits[t] = IF row[t].status = "delivered" THEN 1 ELSE 0
      /\ row[t].status = "delivered" => t \in ledger
  BY DEF SettledOnce
<1>3. CASE Kept(t)
  BY <1>1, <1>2, <1>3 DEF Kept
<1>4. CASE Inserted(t)
  <2>1. row'[t].status \in {"uncommitted", "pending"}
    BY <1>4 DEF Inserted, NewRow, NoRow
  <2> QED BY <1>2, <1>4, <2>1 DEF Inserted
<1>5. CASE Committed(t)
  <2>1. row'[t].status = "pending"
    BY <1>1, <1>5 DEF Committed, Row
  <2> QED BY <1>2, <1>5, <2>1 DEF Committed
<1>6. CASE Claimed(t)
  <2>1. row'[t].status = "processing"
    BY <1>1, <1>6 DEF Claimed, ClaimedRow, Row
  <2> QED BY <1>2, <1>6, <2>1 DEF Claimed, Claimable
<1>7. CASE GivenBack(t)
  <2>1. row'[t].status \in {"pending", "dead_letter"}
    BY <1>1, <1>7 DEF GivenBack, Released, Row
  <2> QED BY <1>2, <1>7, <2>1 DEF GivenBack
<1>8. CASE Delivered(t)
  <2>1. row'[t].status = "delivered"
    BY <1>1, <1>8 DEF Delivered, Released, Row
  <2> QED BY <1>1, <1>2, <1>8, <2>1 DEF Delivered
<1>9. CASE Expired(t)
  <2>1. row'[t].status = "processing"
    BY <1>1, <1>9 DEF Expired, Row
  <2> QED BY <1>2, <1>9, <2>1 DEF Expired
<1> QED BY <1>1, <1>3, <1>4, <1>5, <1>6, <1>7, <1>8, <1>9 DEF RowLife

\* No transfer is settled twice, or before the ledger has posted it, however many
\* lanes take its row over and whatever answers they lose.
THEOREM Settlement == Spec => []SettledOnce
<1>1. Init => SettledOnce
  BY DEF Init, StoreInit, SettledOnce, NoRow
<1>2. TypeOK /\ SettledOnce /\ [Next]_vars => SettledOnce'
  BY SettledOnceStep
<1> QED BY <1>1, <1>2, TypeCorrect, PTL DEF Spec

\* A settled or dead-lettered row is final.
THEOREM TerminalRows == Spec => TerminalRowsStay
<1>1. TypeOK /\ [Next]_vars =>
        [\A t \in Ids : row[t].status \in {"delivered", "dead_letter"}
                         => row'[t] = row[t]]_vars
  <2> SUFFICES ASSUME TypeOK, [Next]_vars, NEW t \in Ids,
                      row[t].status \in {"delivered", "dead_letter"}
               PROVE  row'[t] = row[t]
    OBVIOUS
  <2>1. RowLife(t)
    BY RowLifeStep
  <2> QED BY <2>1 DEF RowLife, Kept, Inserted, Committed, Claimed, Claimable,
                      GivenBack, Delivered, Expired
<1> QED BY <1>1, TypeCorrect, PTL DEF Spec, TerminalRowsStay

---------------------------------------------------------------------------
(* Claims.  A token is the number of the attempt it was drawn for, and no  *)
(* token in any lane's hands is later than the row's last attempt: that is *)
(* what makes a new token new.                                             *)

TokensDrawn ==
  \A t \in Ids :
    /\ row[t].status \in {"absent", "uncommitted"} => row[t].attempts = 0
    /\ \A w \in Lanes : held[w][t] <= row[t].attempts

ClaimsInv == TokensDrawn /\ OneHolder /\ AttemptsLeft

\* What a step may do to the lanes' holds on one row: drop some, or give one lane
\* the token of the attempt it begins.
HoldLife(t) ==
  \/ \A w \in Lanes : held'[w][t] \in {held[w][t], 0}
  \/ \E w \in Lanes :
       /\ row'[t] = ClaimedRow(row[t])
       /\ held'[w][t] = row[t].attempts + 1
       /\ \A v \in Lanes \ {w} : held'[v][t] = held[v][t]

LEMMA HoldLifeStep == TypeOK /\ [Next]_vars => \A t \in Ids : HoldLife(t)
<1> SUFFICES ASSUME TypeOK, [Next]_vars, NEW t \in Ids
             PROVE  HoldLife(t)
  OBVIOUS
<1> USE DEF TypeOK
<1>1. CASE UNCHANGED held
  BY <1>1 DEF HoldLife
<1>2. ASSUME NEW w \in Lanes, NEW B \in SUBSET Ids, Claim(w, B)
      PROVE  HoldLife(t)
  <2>1. row'[t] = IF t \in B THEN ClaimedRow(row[t]) ELSE row[t]
    BY <1>2 DEF Claim, ClaimedRow
  <2>2. /\ held'[w][t] = IF t \in B THEN row[t].attempts + 1 ELSE 0
        /\ \A v \in Lanes \ {w} : held'[v][t] = held[v][t]
    BY <1>2 DEF Claim
  <2> QED BY <2>1, <2>2 DEF HoldLife
<1>3. ASSUME NEW w \in Lanes, NEW s \in Ids, Settled(w, s)
      PROVE  HoldLife(t)
  BY <1>3 DEF Settled, HoldLife
<1>4. ASSUME NEW w \in Lanes, GoDown(w)
      PROVE  HoldLife(t)
  BY <1>4 DEF GoDown, HoldLife, NoClaims
<1>5. ASSUME NEW p \in Processes, Crash(p)
      PROVE  HoldLife(t)
  BY <1>5 DEF Crash, HoldLife, NoClaims
<1> QED
  <2>1. CASE UNCHANGED vars
    BY <1>1, <2>1 DEF vars, laneVars
  <2>2. CASE StoreStep /\ UNCHANGED <<authorityVars, laneVars>>
    BY <1>1, <2>2 DEF laneVars
  <2>3. CASE AuthorityStep /\ UNCHANGED laneVars
    BY <1>1, <2>3 DEF laneVars
  <2>4. CASE LaneStep
    BY <1>1, <1>2, <1>3, <1>4, <1>5, <2>4
       DEF LaneStep, Dispatch, Submit, BuildFails, Answer, LoseAnswer, Finalize, GiveBack,
           RefuseStale, LaneError, StopIdle, Restart, LandStray, LeaseExpires
  <2> QED BY <2>1, <2>2, <2>3, <2>4 DEF Next

\* What each case of a row's life means for its attempts.
LEMMA AttemptsStep ==
  ASSUME TypeOK, ClaimsInv, NEW t \in Ids, RowLife(t)
  PROVE  /\ row'[t].attempts >= row[t].attempts
         /\ row'[t].status \in {"absent", "uncommitted"} => row'[t].attempts = 0
         /\ row'[t].status = "pending" => row'[t].attempts < MaxAttempts
<1>1. row[t] \in Row /\ row[t].attempts \in Nat /\ MaxAttempts \in Nat \ {0}
  BY LaneAssumption DEF TypeOK, StoreTypeOK, Row
<1>2. /\ row[t].status \in {"absent", "uncommitted"} => row[t].attempts = 0
      /\ row[t].status = "pending" => row[t].attempts < MaxAttempts
  BY DEF ClaimsInv, TokensDrawn, AttemptsLeft
<1>3. CASE Kept(t)
  BY <1>1, <1>2, <1>3 DEF Kept
<1>4. CASE Inserted(t)
  <2>1. row'[t].attempts = 0
    BY <1>4 DEF Inserted, NewRow, NoRow
  <2> QED BY <1>1, <1>2, <1>4, <2>1 DEF Inserted
<1>5. CASE Committed(t)
  <2>1. row'[t].attempts = row[t].attempts /\ row'[t].status = "pending"
    BY <1>1, <1>5 DEF Committed, Row
  <2> QED BY <1>1, <1>2, <1>5, <2>1 DEF Committed
<1>6. CASE Claimed(t)
  <2>1. row'[t].attempts = row[t].attempts + 1 /\ row'[t].status = "processing"
    BY <1>1, <1>6 DEF Claimed, ClaimedRow, Row
  <2> QED BY <1>1, <2>1
<1>7. CASE GivenBack(t)
  <2>1. PICK status \in {"pending", "dead_letter"} :
          /\ row'[t] = Released(row[t], status)
          /\ status = "pending" => row[t].attempts < MaxAttempts
    BY <1>7 DEF GivenBack
  <2>2. row'[t].attempts = row[t].attempts /\ row'[t].status = status
    BY <1>1, <2>1 DEF Released, Row
  <2> QED BY <1>1, <2>1, <2>2
<1>8. CASE Delivered(t)
  <2>1. row'[t].attempts = row[t].attempts /\ row'[t].status = "delivered"
    BY <1>1, <1>8 DEF Delivered, Released, Row
  <2> QED BY <1>1, <2>1
<1>9. CASE Expired(t)
  <2>1. row'[t].attempts = row[t].attempts /\ row'[t].status = "processing"
    BY <1>1, <1>9 DEF Expired, Row
  <2> QED BY <1>1, <2>1
<1> QED BY <1>3, <1>4, <1>5, <1>6, <1>7, <1>8, <1>9 DEF RowLife

LEMMA ClaimsStep == TypeOK /\ ClaimsInv /\ [Next]_vars => ClaimsInv'
<1> SUFFICES ASSUME TypeOK, ClaimsInv, [Next]_vars
             PROVE  ClaimsInv'
  OBVIOUS
<1>1. ASSUME NEW t \in Ids
      PROVE  /\ row'[t].attempts >= row[t].attempts
             /\ row'[t].status \in {"absent", "uncommitted"} => row'[t].attempts = 0
             /\ row'[t].status = "pending" => row'[t].attempts < MaxAttempts
  BY RowLifeStep, AttemptsStep
<1>2. ASSUME NEW t \in Ids
      PROVE  HoldLife(t) /\ row[t].attempts \in Nat /\ row'[t].attempts \in Nat
  <2>1. row[t] \in Row
    BY DEF TypeOK, StoreTypeOK
  <2>2. row'[t] \in Row
    BY TypeStep DEF TypeOK, StoreTypeOK
  <2> QED BY <2>1, <2>2, HoldLifeStep DEF Row
<1>3. ASSUME NEW t \in Ids, NEW w \in Lanes
      PROVE  held[w][t] \in Nat /\ held[w][t] <= row[t].attempts
  BY DEF TypeOK, ClaimsInv, TokensDrawn
<1>4. ASSUME NEW t \in Ids, NEW w \in Lanes, row'[t] = ClaimedRow(row[t]),
             held'[w][t] = row[t].attempts + 1
      PROVE  row'[t].attempts = held'[w][t]
  <2>1. row[t] \in Row
    BY DEF TypeOK, StoreTypeOK
  <2> QED BY <1>4, <2>1 DEF ClaimedRow, Row
<1>5. TokensDrawn'
  <2> SUFFICES ASSUME NEW t \in Ids, NEW w \in Lanes
               PROVE  held'[w][t] <= row'[t].attempts
    BY <1>1 DEF TokensDrawn
  <2>1. CASE \A v \in Lanes : held'[v][t] \in {held[v][t], 0}
    BY <1>1, <1>2, <1>3, <2>1
  <2>2. ASSUME NEW x \in Lanes, row'[t] = ClaimedRow(row[t]),
               held'[x][t] = row[t].attempts + 1,
               \A v \in Lanes \ {x} : held'[v][t] = held[v][t]
        PROVE  held'[w][t] <= row'[t].attempts
    BY <1>1, <1>2, <1>3, <1>4, <2>2
  <2> QED BY <1>2, <2>1, <2>2 DEF HoldLife
<1>6. OneHolder'
  <2> SUFFICES ASSUME NEW v \in Lanes, NEW w \in Lanes, NEW t \in Ids,
                      held'[v][t] # 0, held'[v][t] = held'[w][t]
               PROVE  v = w
    BY DEF OneHolder
  <2>1. held[v][t] # 0 /\ held[v][t] = held[w][t] => v = w
    BY DEF ClaimsInv, OneHolder
  <2>2. CASE \A x \in Lanes : held'[x][t] \in {held[x][t], 0}
    BY <2>1, <2>2
  <2>3. ASSUME NEW x \in Lanes, held'[x][t] = row[t].attempts + 1,
               \A u \in Lanes \ {x} : held'[u][t] = held[u][t]
        PROVE  v = w
    BY <1>2, <1>3, <2>1, <2>3
  <2> QED BY <1>2, <2>2, <2>3 DEF HoldLife
<1>7. AttemptsLeft'
  BY <1>1 DEF AttemptsLeft
<1> QED BY <1>5, <1>6, <1>7 DEF ClaimsInv

LEMMA ClaimsAlways == Spec => []ClaimsInv
<1>1. Init => ClaimsInv
  BY LaneAssumption
     DEF Init, StoreInit, ClaimsInv, TokensDrawn, OneHolder, AttemptsLeft, NoRow, NoClaims
<1> QED BY <1>1, ClaimsStep, TypeCorrect, PTL DEF Spec

\* No two lanes ever hold the same claim, however often claims expire and are
\* taken over, processes crash and lanes come back.
THEOREM ClaimsAreExclusive == Spec => []OneHolder
BY ClaimsAlways, PTL DEF ClaimsInv

\* A row that waits for another attempt has one left, for any limit: takeovers,
\* which the limit does not stop, never leave an exhausted row waiting.
THEOREM RetriesAreBounded == Spec => []AttemptsLeft
BY ClaimsAlways, PTL DEF ClaimsInv

\* Only the lane whose claim is active ends a row's processing.
THEOREM OnlyHolders == Spec => OnlyHolderSettles
<1>1. TypeOK /\ [Next]_vars =>
        [\A t \in Ids :
           row[t].status = "processing" /\ row'[t].status # "processing"
           => \E w \in Lanes : ActiveClaim(w, t) /\ held[w][t] # 0 /\ held'[w][t] = 0]_vars
  <2> SUFFICES ASSUME TypeOK, [Next]_vars, NEW t \in Ids,
                      row[t].status = "processing", row'[t].status # "processing"
               PROVE  \E w \in Lanes : ActiveClaim(w, t) /\ held[w][t] # 0 /\ held'[w][t] = 0
    OBVIOUS
  <2>1. row[t] \in Row /\ row \in [Ids -> Row] /\ held \in [Lanes -> [Ids -> Nat]]
    BY DEF TypeOK, StoreTypeOK
  <2>2. ASSUME NEW w \in Lanes, NEW s \in Ids, Finalize(w, s) \/ GiveBack(w, s)
        PROVE  \E v \in Lanes : ActiveClaim(v, t) /\ held[v][t] # 0 /\ held'[v][t] = 0
    <3>1. s = t
      <4>1. CASE s # t
        BY <2>1, <2>2, <4>1 DEF Finalize, GiveBack
      <4> QED BY <4>1
    <3>2. ActiveClaim(w, t) /\ held[w][t] # 0 /\ held'[w][t] = 0
      BY <2>1, <2>2, <3>1 DEF Finalize, GiveBack, FirstOf, Batch, Settled
    <3> QED BY <3>2
  <2>3. CASE UNCHANGED row
    BY <2>3
  <2>4. ASSUME NEW w \in Lanes, NEW B \in SUBSET Ids, Claim(w, B)
        PROVE  FALSE
    <3>1. row'[t] = IF t \in B THEN ClaimedRow(row[t]) ELSE row[t]
      BY <2>4 DEF Claim, ClaimedRow
    <3> QED BY <2>1, <3>1 DEF ClaimedRow, Row
  <2>5. ASSUME NEW s \in Ids, LeaseExpires(s)
        PROVE  FALSE
    <3>1. row'[t] = row[t] \/ row'[t] = [row[t] EXCEPT !.live = FALSE]
      BY <2>1, <2>5 DEF LeaseExpires
    <3> QED BY <2>1, <3>1 DEF Row
  <2>6. CASE StoreStep
    BY <2>1, <2>6
       DEF StoreStep, BeginInitiate, CommitInitiate, ReceiveCallback
  <2>7. CASE AuthorityStep
    BY <2>1, <2>3, <2>7
       DEF AuthorityStep, OpenCase, RequestRemediation, ApproveRemediation,
           RejectRemediation, RequestHeadResolution, ApproveHeadResolution,
           RejectHeadResolution, storeVars
  <2>8. CASE LaneStep
    BY <2>2, <2>3, <2>4, <2>5, <2>8
       DEF LaneStep, Dispatch, Submit, BuildFails, Answer, LoseAnswer, GoDown, RefuseStale,
           LaneError, StopIdle, Crash, Restart, LandStray, storeVars
  <2> QED BY <2>3, <2>6, <2>7, <2>8 DEF Next, vars, storeVars
<1> QED BY <1>1, TypeCorrect, PTL DEF Spec, OnlyHolderSettles

---------------------------------------------------------------------------
(* That the dispatcher lanes, the initiating transactions and the          *)
(* administrators together implement LedgerSettlement.  The ledger may post *)
(* only what is on file, which is not seen from its own steps: a lane      *)
(* submits from memory and an abandoned request lands long after the lane  *)
(* is gone.  OnFile carries that through: what the ledger has, or may still *)
(* get, is on file.                                                        *)

OnFile == \A t \in ledger \cup stray : Visible(t)

LEMMA VisibleStays ==
  TypeOK /\ [Next]_vars => \A t \in Ids : Visible(t) => Visible(t)'
<1> SUFFICES ASSUME TypeOK, [Next]_vars, NEW t \in Ids, Visible(t)
             PROVE  Visible(t)'
  OBVIOUS
<1>1. RowLife(t) /\ row[t] \in Row
  BY RowLifeStep DEF TypeOK, StoreTypeOK
<1>2. CASE Kept(t) \/ Inserted(t)
  BY <1>2 DEF Kept, Inserted, Visible
<1>3. CASE Committed(t) \/ Claimed(t) \/ Expired(t)
  BY <1>1, <1>3 DEF Committed, Claimed, ClaimedRow, Expired, Visible, Row
<1>4. CASE GivenBack(t)
  BY <1>1, <1>4 DEF GivenBack, Released, Visible, Row
<1>5. CASE Delivered(t)
  BY <1>1, <1>5 DEF Delivered, Released, Visible, Row
<1> QED BY <1>1, <1>2, <1>3, <1>4, <1>5 DEF RowLife

\* A lane holds a claim only on rows on file.
LEMMA BatchVisible ==
  ASSUME TypeOK, TokensDrawn, NEW w \in Lanes, NEW t \in Batch(w)
  PROVE  t \in Ids /\ Visible(t)
<1>1. t \in Ids /\ held[w][t] # 0
  BY DEF Batch
<1>2. held[w][t] \in Nat /\ held[w][t] <= row[t].attempts
  BY <1>1 DEF TypeOK, TokensDrawn
<1>3. row[t].attempts # 0
  BY <1>1, <1>2
<1> QED BY <1>1, <1>3 DEF TokensDrawn, Visible

\* What reaches the ledger, or is left to reach it, was there or in some batch.
LEMMA FromBatches ==
  ASSUME [Next]_vars, NEW t \in ledger' \cup stray'
  PROVE  t \in ledger \cup stray \/ \E w \in Lanes : t \in Batch(w)
<1>1. CASE UNCHANGED <<ledger, stray>>
  BY <1>1
<1>2. ASSUME NEW w \in Lanes, Answer(w) \/ LoseAnswer(w)
      PROVE  t \in ledger \cup stray \/ t \in Batch(w)
  BY <1>2 DEF Answer, LoseAnswer, storeVars
<1>3. ASSUME NEW p \in Processes, Crash(p)
      PROVE  t \in ledger \cup stray \/ \E w \in Lanes : t \in Batch(w)
  BY <1>3 DEF Crash, storeVars
<1>4. ASSUME NEW s \in Ids, LandStray(s)
      PROVE  t \in ledger \cup stray
  BY <1>4 DEF LandStray
<1> QED
  <2>1. CASE UNCHANGED vars
    BY <1>1, <2>1 DEF vars, storeVars, laneVars
  <2>2. CASE StoreStep /\ UNCHANGED <<authorityVars, laneVars>>
    BY <1>1, <2>2 DEF StoreStep, BeginInitiate, CommitInitiate, ReceiveCallback, laneVars
  <2>3. CASE AuthorityStep /\ UNCHANGED laneVars
    BY <1>1, <2>3
       DEF AuthorityStep, OpenCase, RequestRemediation, ApproveRemediation,
           RejectRemediation, RequestHeadResolution, ApproveHeadResolution,
           RejectHeadResolution, storeVars, laneVars
  <2>4. CASE LaneStep
    BY <1>1, <1>2, <1>3, <1>4, <2>4
       DEF LaneStep, Dispatch, Claim, Submit, BuildFails, Finalize, GiveBack, GoDown,
           RefuseStale, LaneError, StopIdle, Restart, LeaseExpires, storeVars
  <2> QED BY <2>1, <2>2, <2>3, <2>4 DEF Next

LEMMA OnFileStep ==
  TypeOK /\ ClaimsInv /\ OnFile /\ [Next]_vars => OnFile'
<1> SUFFICES ASSUME TypeOK, ClaimsInv, OnFile, [Next]_vars, NEW t \in ledger' \cup stray'
             PROVE  Visible(t)'
  BY DEF OnFile
<1>1. t \in Ids /\ Visible(t)
  BY FromBatches, BatchVisible DEF OnFile, TypeOK, StoreTypeOK, ClaimsInv
<1> QED BY <1>1, VisibleStays

LEMMA OnFileAlways == Spec => []OnFile
<1>1. Init => OnFile
  BY DEF Init, StoreInit, OnFile
<1> QED BY <1>1, OnFileStep, TypeCorrect, ClaimsAlways, PTL DEF Spec

---------------------------------------------------------------------------
(* The refinement.                                                         *)

Lives == [t \in Ids |-> LifeIn(row[t].status)]

LEMMA PromiseInit == Init => Promise!Init
BY DEF Init, StoreInit, NoRow, LifeIn, Promise!Init

\* A step that changes the row of t alone changes the life of t alone.
LEMMA OneLifeChanges ==
  ASSUME TypeOK, NEW t \in Ids, NEW r \in Row, row' = [row EXCEPT ![t] = r]
  PROVE  Lives' = [Lives EXCEPT ![t] = LifeIn(r.status)]
BY DEF Lives, TypeOK, StoreTypeOK

\* The status of a row as Released, committed or expired leaves it.
LEMMA NewStatus ==
  ASSUME NEW r \in Row, NEW status \in RowStatus
  PROVE  /\ Released(r, status).status = status
         /\ [r EXCEPT !.status = status].status = status
         /\ [r EXCEPT !.live = FALSE].status = r.status
BY DEF Row, Released

LEMMA LivesKept ==
  ASSUME TypeOK, NEW t \in Ids, NEW r \in Row, row' = [row EXCEPT ![t] = r],
         LifeIn(r.status) = LifeIn(row[t].status)
  PROVE  Lives' = Lives
BY OneLifeChanges DEF Lives

\* What the promise speaks of.
LEMMA PromiseKept ==
  ASSUME Lives' = Lives, ledger' = ledger, audits' = audits
  PROVE  UNCHANGED Promise!promiseVars
BY DEF Lives, Promise!promiseVars

LEMMA PromiseAccept ==
  ASSUME NEW t \in Ids, LifeIn(row[t].status) = "unknown",
         Lives' = [Lives EXCEPT ![t] = "waiting"], ledger' = ledger, audits' = audits
  PROVE  Promise!Next
BY DEF Lives, Promise!Next, Promise!Accept

LEMMA PromiseStore ==
  TypeOK /\ StoreStep /\ UNCHANGED <<authorityVars, laneVars>>
    => [Promise!Next]_(Promise!promiseVars)
<1> SUFFICES ASSUME TypeOK, StoreStep, UNCHANGED <<authorityVars, laneVars>>
             PROVE  [Promise!Next]_(Promise!promiseVars)
  OBVIOUS
<1>1. audits' = audits
  BY DEF laneVars
<1>2. ASSUME NEW t \in Transfers
      PROVE  t \in Ids /\ row[t] \in Row /\ PayerOf[t] \in Fsps \cup {NoFsp}
  BY StoreAssumption DEF Ids, TypeOK, StoreTypeOK
<1>3. ASSUME NEW t \in Transfers, BeginInitiate(t)
      PROVE  UNCHANGED Promise!promiseVars
  <2> DEFINE new == NewRow("uncommitted", PayerOf[t])
  <2>1. new \in Row /\ new.status = "uncommitted"
    BY <1>2, NewRowIsRow DEF RowStatus, TypeOK, StoreTypeOK, NewRow, NoRow
  <2>2. row' = [row EXCEPT ![t] = new] /\ row[t].status = "absent" /\ ledger' = ledger
    BY <1>3 DEF BeginInitiate
  <2> HIDE DEF new
  <2>3. LifeIn(new.status) = LifeIn(row[t].status)
    BY <2>1, <2>2 DEF LifeIn
  <2>4. Lives' = Lives
    BY <1>2, <2>1, <2>2, <2>3, LivesKept
  <2> QED BY <1>1, <2>2, <2>4, PromiseKept
<1>4. ASSUME NEW t \in Transfers, CommitInitiate(t)
      PROVE  Promise!Next
  <2> DEFINE new == [row[t] EXCEPT !.status = "pending"]
  <2>1. new \in Row /\ new.status = "pending"
    <3>1. row[t] \in Row /\ "pending" \in RowStatus
      BY <1>2 DEF RowStatus
    <3> QED BY <3>1, ChangedRowIsRow, NewStatus
  <2>2. row' = [row EXCEPT ![t] = new] /\ row[t].status = "uncommitted" /\ ledger' = ledger
    BY <1>4 DEF CommitInitiate
  <2> HIDE DEF new
  <2>3. LifeIn(row[t].status) = "unknown" /\ LifeIn(new.status) = "waiting"
    BY <2>1, <2>2 DEF LifeIn
  <2>4. Lives' = [Lives EXCEPT ![t] = "waiting"]
    <3>1. t \in Ids
      BY <1>2
    <3> QED BY <2>1, <2>2, <2>3, <3>1, OneLifeChanges
  <2> QED BY <1>1, <1>2, <2>2, <2>3, <2>4, PromiseAccept
<1>5. ASSUME NEW t \in Ids, NEW outcome \in {"COMMITTED", "ABORTED"},
             ReceiveCallback(t, outcome)
      PROVE  UNCHANGED Promise!promiseVars
  BY <1>1, <1>5 DEF ReceiveCallback, Promise!promiseVars
<1> QED BY <1>3, <1>4, <1>5 DEF StoreStep

LEMMA PromiseAuthority ==
  TypeOK /\ AuthorityStep /\ UNCHANGED laneVars
    => [Promise!Next]_(Promise!promiseVars)
<1> SUFFICES ASSUME TypeOK, AuthorityStep, UNCHANGED laneVars
             PROVE  [Promise!Next]_(Promise!promiseVars)
  OBVIOUS
<1>1. CASE UNCHANGED storeVars
  BY <1>1 DEF storeVars, laneVars, Promise!promiseVars
<1>2. ASSUME NEW a \in Admins, NEW t \in Ids, ApproveRemediation(a, t)
      PROVE  [Promise!Next]_(Promise!promiseVars)
  <2> DEFINE r == kase[t].replacement
             new == NewRow("pending", row[t].fsp)
  <2>1. /\ row' = [row EXCEPT ![r] = new]
        /\ row[r].status = "absent"
        /\ ledger' = ledger /\ audits' = audits
    BY <1>2 DEF ApproveRemediation, laneVars
  <2>2. CASE r \in Ids
    <3>1. new \in Row /\ new.status = "pending"
      <4>1. row[t].fsp \in Fsps \cup {NoFsp} /\ "pending" \in RowStatus /\ lastId \in Nat
        BY DEF TypeOK, StoreTypeOK, Row, RowStatus
      <4> QED BY <4>1, NewRowIsRow DEF NewRow, NoRow
    <3> HIDE DEF new
    <3>2. LifeIn(row[r].status) = "unknown" /\ LifeIn(new.status) = "waiting"
      BY <2>1, <3>1 DEF LifeIn
    <3>3. Lives' = [Lives EXCEPT ![r] = "waiting"]
      BY <2>1, <2>2, <3>1, <3>2, OneLifeChanges
    <3> HIDE DEF r
    <3> QED BY <2>1, <2>2, <3>2, <3>3, PromiseAccept
  <2>3. CASE r \notin Ids
    <3>1. row' = row
      BY <2>1, <2>3 DEF TypeOK, StoreTypeOK
    <3> QED BY <2>1, <3>1 DEF Promise!promiseVars
  <2> QED BY <2>2, <2>3
<1> QED
  BY <1>1, <1>2
     DEF AuthorityStep, OpenCase, RequestRemediation, RejectRemediation,
         RequestHeadResolution, ApproveHeadResolution, RejectHeadResolution

LEMMA PromiseLane ==
  TypeOK /\ ClaimsInv /\ OnFile /\ LaneStep /\ UNCHANGED authorityVars
    => [Promise!Next]_(Promise!promiseVars)
<1> SUFFICES ASSUME TypeOK, ClaimsInv, OnFile, LaneStep, UNCHANGED authorityVars
             PROVE  [Promise!Next]_(Promise!promiseVars)
  OBVIOUS
<1>1. CASE UNCHANGED <<row, ledger, audits>>
  BY <1>1 DEF Promise!promiseVars
<1>2. ASSUME NEW t \in Ids
      PROVE  row[t] \in Row
  BY DEF TypeOK, StoreTypeOK
<1>3. ASSUME NEW w \in Lanes, NEW B \in SUBSET Ids, Claim(w, B)
      PROVE  UNCHANGED Promise!promiseVars
  <2>1. ASSUME NEW t \in Ids
        PROVE  LifeIn(row'[t].status) = LifeIn(row[t].status)
    <3>1. row'[t] = IF t \in B THEN ClaimedRow(row[t]) ELSE row[t]
      BY <1>3 DEF Claim, ClaimedRow
    <3>2. CASE t \in B
      <4>1. row[t].status \in {"pending", "processing"}
        BY <1>3, <3>2 DEF Claim, Claimable
      <4>2. row'[t].status = "processing"
        BY <1>2, <3>1, <3>2 DEF ClaimedRow, Row
      <4> QED BY <4>1, <4>2 DEF LifeIn
    <3> QED BY <3>1, <3>2
  <2>2. Lives' = Lives
    BY <2>1 DEF Lives
  <2> QED BY <1>3, <2>2, PromiseKept DEF Claim
<1>4. ASSUME UNCHANGED <<row, audits>>, ledger \subseteq ledger', OnFile', TypeOK'
      PROVE  [Promise!Next]_(Promise!promiseVars)
  <2> DEFINE T == ledger' \ ledger
  <2>1. T \in SUBSET Ids /\ ledger' = ledger \cup T
    BY <1>4 DEF TypeOK, StoreTypeOK
  <2>2. \A t \in T : LifeIn(row[t].status) # "unknown"
    <3> SUFFICES ASSUME NEW t \in T
                 PROVE  LifeIn(row[t].status) # "unknown"
      OBVIOUS
    <3>1. row[t] \in Row /\ row[t].status \notin {"absent", "uncommitted"}
      BY <1>2, <1>4, <2>1 DEF OnFile, Visible
    <3>2. row[t].status \in RowStatus
      BY <3>1 DEF Row
    <3> QED BY <3>1, <3>2 DEF LifeIn, RowStatus
  <2>3. Promise!Post(T)
    BY <1>4, <2>1, <2>2 DEF Promise!Post
  <2> QED BY <2>1, <2>3 DEF Promise!Next
<1>5. ASSUME NEW w \in Lanes, NEW t \in Ids, Finalize(w, t)
      PROVE  Promise!Next
  <2> DEFINE new == Released(row[t], "delivered")
  <2>1. new \in Row /\ new.status = "delivered"
    BY <1>2, ChangedRowIsRow, NewStatus DEF RowStatus
  <2>2. /\ row' = [row EXCEPT ![t] = new]
        /\ row[t].status = "processing"
        /\ t \in ledger /\ ledger' = ledger
        /\ audits' = [audits EXCEPT ![t] = @ + 1]
    BY <1>5 DEF Finalize, ActiveClaim
  <2> HIDE DEF new
  <2>3. LifeIn(row[t].status) = "waiting" /\ LifeIn(new.status) = "settled"
    BY <2>1, <2>2 DEF LifeIn
  <2>4. Lives' = [Lives EXCEPT ![t] = "settled"]
    BY <2>1, <2>2, <2>3, OneLifeChanges
  <2>5. Promise!Settle(t)
    BY <2>2, <2>3, <2>4 DEF Lives, Promise!Settle
  <2> QED BY <2>5 DEF Promise!Next
<1>6. ASSUME NEW w \in Lanes, NEW t \in Ids, GiveBack(w, t)
      PROVE  [Promise!Next]_(Promise!promiseVars)
  <2>1. /\ row[t].status = "processing"
        /\ ledger' = ledger /\ audits' = audits
    BY <1>6 DEF GiveBack, ActiveClaim
  <2>2. PICK status \in {"pending", "dead_letter"} :
          row' = [row EXCEPT ![t] = Released(row[t], status)]
    BY <1>6 DEF GiveBack
  <2> DEFINE new == Released(row[t], status)
  <2>3. new \in Row /\ new.status = status
    <3>1. row[t] \in Row /\ status \in RowStatus
      BY <1>2 DEF RowStatus
    <3> QED BY <3>1, ChangedRowIsRow, NewStatus
  <2>4. row' = [row EXCEPT ![t] = new]
    BY <2>2
  <2> HIDE DEF new
  <2>5. LifeIn(row[t].status) = "waiting"
    BY <2>1 DEF LifeIn
  <2>6. CASE status = "pending"
    <3>1. LifeIn(new.status) = "waiting"
      BY <2>3, <2>6 DEF LifeIn
    <3>2. Lives' = Lives
      BY <2>3, <2>4, <2>5, <3>1, LivesKept
    <3> QED BY <2>1, <3>2, PromiseKept
  <2>7. CASE status = "dead_letter"
    <3>1. LifeIn(new.status) = "given_up"
      BY <2>3, <2>7 DEF LifeIn
    <3>2. Lives' = [Lives EXCEPT ![t] = "given_up"]
      BY <2>3, <2>4, <3>1, OneLifeChanges
    <3>3. Promise!GiveUp(t)
      BY <2>1, <2>5, <3>2 DEF Lives, Promise!GiveUp
    <3> QED BY <3>3 DEF Promise!Next
  <2> QED BY <2>6, <2>7
<1>7. ASSUME NEW t \in Ids, LeaseExpires(t)
      PROVE  UNCHANGED Promise!promiseVars
  <2> DEFINE new == [row[t] EXCEPT !.live = FALSE]
  <2>1. new \in Row /\ new.status = row[t].status
    BY <1>2, ChangedRowIsRow, NewStatus DEF RowStatus
  <2>2. row' = [row EXCEPT ![t] = new] /\ ledger' = ledger /\ audits' = audits
    BY <1>7 DEF LeaseExpires
  <2> HIDE DEF new
  <2>3. Lives' = Lives
    BY <2>1, <2>2, LivesKept
  <2> QED BY <2>2, <2>3, PromiseKept
<1>8. OnFile' /\ TypeOK' /\ ledger \subseteq ledger'
  BY OnFileStep, TypeStep, LedgerGrows DEF Next
<1> QED
  BY <1>1, <1>3, <1>4, <1>5, <1>6, <1>7, <1>8
     DEF LaneStep, Dispatch, Submit, BuildFails, Answer, LoseAnswer, GoDown, RefuseStale,
         LaneError, StopIdle, Crash, Restart, LandStray, storeVars

\* The lanes implement the settlement of single transfers: nothing a client, an
\* administrator, a lane or the network does shows as anything but a transfer
\* accepted, posted, settled or given up.
THEOREM Refinement == Spec => SettlesTransfers
<1>1. TypeOK /\ ClaimsInv /\ OnFile /\ [Next]_vars => [Promise!Next]_(Promise!promiseVars)
  <2>1. UNCHANGED vars => UNCHANGED Promise!promiseVars
    BY DEF vars, storeVars, laneVars, Promise!promiseVars
  <2> QED BY <2>1, PromiseStore, PromiseAuthority, PromiseLane DEF Next
<1> QED
  BY <1>1, PromiseInit, TypeCorrect, ClaimsAlways, OnFileAlways, PTL
     DEF Spec, SettlesTransfers, Promise!Spec
============================================================================
