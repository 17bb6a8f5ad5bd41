--------------------- MODULE DeadLetterAuthority_proofs ---------------------
(***************************************************************************)
(* Proofs about the administrators' authority over dead letters in the     *)
(* composed system of TransferLane: the gate it opens stays open, and a    *)
(* replacement is dispatched only under the authority of two               *)
(* administrators, given twice.  With that gate, the order in which the    *)
(* debits of one payer are worked on and posted.                           *)
(***************************************************************************)
EXTENDS TransferLane_proofs

---------------------------------------------------------------------------
(* The life of a case and of a head resolution: what one step of the whole *)
(* system may do to the decisions about one dead letter.                   *)

CaseOpened(t) ==
  /\ kase[t].state = "none"
  /\ row[t].status = "dead_letter"
  /\ kase'[t] = [kase[t] EXCEPT !.state = "open"]

CaseRequested(t) ==
  /\ kase[t].state \in {"open", "rejected"}
  /\ \E a \in Admins, r \in Replacements :
       /\ kase'[t] = [state |-> "approval_pending", requestedBy |-> a,
                      approvedBy |-> NoOne, replacement |-> r]
       /\ \A s \in Ids \ {t} : kase[s].replacement # r /\ kase'[s] = kase[s]

CaseApproved(t) ==
  /\ kase[t].state = "approval_pending"
  /\ \E a \in Admins :
       /\ kase[t].requestedBy # a
       /\ kase'[t] = [kase[t] EXCEPT !.state = "replacement_intent_created",
                                     !.approvedBy = a]
  /\ LET r == kase[t].replacement IN
       r \in Ids => /\ row[r].status = "absent"
                    /\ row'[r] = NewRow("pending", row[t].fsp)

CaseRejected(t) ==
  /\ kase[t].state = "approval_pending"
  /\ kase'[t] = [kase[t] EXCEPT !.state = "rejected"]

CaseLife(t) ==
  kase'[t] = kase[t] \/ CaseOpened(t) \/ CaseRequested(t) \/ CaseApproved(t)
                     \/ CaseRejected(t)

HeadRequested(t) ==
  /\ head[t].state \in {"none", "rejected"}
  /\ row[t].status = "dead_letter"
  /\ \E a \in Admins, d \in Disposition :
       /\ head'[t] = [state |-> "approval_pending", disposition |-> d,
                      requestedBy |-> a, approvedBy |-> NoOne]
       /\ d = "committed_resolved" => t \in ledger

HeadApproved(t) ==
  /\ head[t].state = "approval_pending"
  /\ \E a \in Admins :
       /\ head[t].requestedBy # a
       /\ head'[t] = [head[t] EXCEPT !.state = "approved", !.approvedBy = a]

HeadRejected(t) ==
  /\ head[t].state = "approval_pending"
  /\ head'[t] = [head[t] EXCEPT !.state = "rejected"]

HeadLife(t) ==
  head'[t] = head[t] \/ HeadRequested(t) \/ HeadApproved(t) \/ HeadRejected(t)

LEMMA DecisionLifeStep ==
  TypeOK /\ [Next]_vars => \A t \in Ids : CaseLife(t) /\ HeadLife(t)
<1> SUFFICES ASSUME TypeOK, [Next]_vars, NEW t \in Ids
             PROVE  CaseLife(t) /\ HeadLife(t)
  OBVIOUS
<1> USE DEF TypeOK, AuthorityTypeOK
<1>1. CASE UNCHANGED authorityVars
  BY <1>1 DEF authorityVars, CaseLife, HeadLife
<1>2. CASE AuthorityStep
  <2>1. ASSUME NEW s \in Ids, OpenCase(s)
        PROVE  CaseLife(t) /\ HeadLife(t)
    BY <2>1 DEF OpenCase, CaseLife, CaseOpened, HeadLife
  <2>2. ASSUME NEW s \in Ids, NEW a \in Admins, NEW r \in Replacements,
               RequestRemediation(a, s, r)
        PROVE  CaseLife(t) /\ HeadLife(t)
    BY <2>2 DEF RequestRemediation, CaseLife, CaseRequested, HeadLife
  <2>3. ASSUME NEW s \in Ids, NEW a \in Admins, ApproveRemediation(a, s)
        PROVE  CaseLife(t) /\ HeadLife(t)
    <3>1. CASE s # t
      BY <2>3, <3>1 DEF ApproveRemediation, CaseLife, HeadLife
    <3>2. CASE s = t
      <4>1. kase'[t] = [kase[t] EXCEPT !.state = "replacement_intent_created",
                                       !.approvedBy = a]
        BY <2>3, <3>2 DEF ApproveRemediation
      <4>2. kase[t].replacement \in Ids =>
              row'[kase[t].replacement] = NewRow("pending", row[t].fsp)
        BY <2>3, <3>2 DEF ApproveRemediation, StoreTypeOK
      <4> QED BY <2>3, <3>2, <4>1, <4>2
              DEF ApproveRemediation, CaseLife, CaseApproved, HeadLife
    <3> QED BY <3>1, <3>2
  <2>4. ASSUME NEW s \in Ids, NEW a \in Admins, RejectRemediation(a, s)
        PROVE  CaseLife(t) /\ HeadLife(t)
    BY <2>4 DEF RejectRemediation, CaseLife, CaseRejected, HeadLife
  <2>5. ASSUME NEW s \in Ids, NEW a \in Admins, NEW d \in Disposition,
               RequestHeadResolution(a, s, d)
        PROVE  CaseLife(t) /\ HeadLife(t)
    BY <2>5 DEF RequestHeadResolution, LedgerEvidence, CaseLife, HeadLife, HeadRequested
  <2>6. ASSUME NEW s \in Ids, NEW a \in Admins, ApproveHeadResolution(a, s)
        PROVE  CaseLife(t) /\ HeadLife(t)
    <3>1. CASE s # t
      BY <2>6, <3>1 DEF ApproveHeadResolution, CaseLife, HeadLife
    <3>2. CASE s = t
      <4>1. head'[t] = [head[t] EXCEPT !.state = "approved", !.approvedBy = a]
        BY <2>6, <3>2 DEF ApproveHeadResolution
      <4> QED BY <2>6, <3>2, <4>1 DEF ApproveHeadResolution, CaseLife, HeadLife, HeadApproved
    <3> QED BY <3>1, <3>2
  <2>7. ASSUME NEW s \in Ids, NEW a \in Admins, RejectHeadResolution(a, s)
        PROVE  CaseLife(t) /\ HeadLife(t)
    BY <2>7 DEF RejectHeadResolution, CaseLife, HeadLife, HeadRejected
  <2> QED BY <1>2, <2>1, <2>2, <2>3, <2>4, <2>5, <2>6, <2>7 DEF AuthorityStep
<1> QED BY <1>1, <1>2 DEF Next, vars

\* What is granted stays granted.
LEMMA GrantsStay ==
  ASSUME TypeOK, [Next]_vars, NEW t \in Ids
  PROVE  /\ head[t].state = "approved" => head'[t] = head[t]
         /\ kase[t].state = "replacement_intent_created" => kase'[t] = kase[t]
         /\ Remediation(t) # NoTransfer => Remediation(t)' = Remediation(t)
<1>1. CaseLife(t) /\ HeadLife(t)
  BY DecisionLifeStep
<1>2. head[t].state = "approved" => head'[t] = head[t]
  BY <1>1 DEF HeadLife, HeadRequested, HeadApproved, HeadRejected
<1>3. kase[t].state = "replacement_intent_created" => kase'[t] = kase[t]
  BY <1>1 DEF CaseLife, CaseOpened, CaseRequested, CaseApproved, CaseRejected
<1> QED BY <1>2, <1>3 DEF Remediation

\* A visible row keeps its place in its stream.
LEMMA PlaceStays ==
  ASSUME TypeOK, [Next]_vars, NEW t \in Ids, row[t].status # "absent"
  PROVE  /\ row'[t].id = row[t].id
         /\ row'[t].fsp = row[t].fsp
         /\ row'[t].status # "absent"
         /\ Visible(t) => Visible(t)'
         /\ row[t].status \in {"delivered", "dead_letter"} => row'[t] = row[t]
<1>1. row[t] \in Row /\ RowLife(t)
  BY RowLifeStep DEF TypeOK, StoreTypeOK
<1>2. CASE Kept(t)
  BY <1>2 DEF Kept, Visible
<1>3. CASE Inserted(t)
  BY <1>3 DEF Inserted
<1>4. CASE Committed(t)
  BY <1>1, <1>4 DEF Committed, Row, Visible
<1>5. CASE Claimed(t)
  BY <1>1, <1>5 DEF Claimed, ClaimedRow, Claimable, Row, Visible
<1>6. CASE GivenBack(t)
  BY <1>1, <1>6 DEF GivenBack, Released, Row, Visible
<1>7. CASE Delivered(t)
  BY <1>1, <1>7 DEF Delivered, Released, Row, Visible
<1>8. CASE Expired(t)
  BY <1>1, <1>8 DEF Expired, Row, Visible
<1> QED BY <1>1, <1>2, <1>3, <1>4, <1>5, <1>6, <1>7, <1>8 DEF RowLife

---------------------------------------------------------------------------
(* The gate stays open.                                                    *)

\* Only dead letters are decided about.
HeadsOfDeadLetters ==
  \A t \in Ids : head[t].state # "none" => row[t].status = "dead_letter"

LEMMA HeadsStep ==
  TypeOK /\ HeadsOfDeadLetters /\ [Next]_vars => HeadsOfDeadLetters'
<1> SUFFICES ASSUME TypeOK, HeadsOfDeadLetters, [Next]_vars, NEW t \in Ids,
                    head'[t].state # "none"
             PROVE  row'[t].status = "dead_letter"
  BY DEF HeadsOfDeadLetters
<1>1. HeadLife(t)
  BY DecisionLifeStep
<1>2. row[t].status = "dead_letter"
  BY <1>1 DEF HeadsOfDeadLetters, HeadLife, HeadRequested, HeadApproved, HeadRejected
<1> QED BY <1>2, PlaceStays

LEMMA HeadsAlways == Spec => []HeadsOfDeadLetters
<1>1. Init => HeadsOfDeadLetters
  BY DEF Init, AuthorityInit, HeadsOfDeadLetters, NoHead
<1> QED BY <1>1, HeadsStep, TypeCorrect, PTL DEF Spec

LEMMA GateStep ==
  ASSUME TypeOK, HeadsOfDeadLetters, [Next]_vars, NEW e \in Ids, NEW c \in Ids,
         Visible(e), ~PredecessorBlocks(e, c)
  PROVE  ~PredecessorBlocks(e, c)'
<1>1. NoTransfer \notin Ids
  BY AuthorityAssumption
<1>2. CASE \E t \in Ids : Supersedes(c, t) /\ row[e].id > row[t].id
  <2>1. PICK t \in Ids : Supersedes(c, t) /\ row[e].id > row[t].id
    BY <1>2
  <2>2. head'[t] = head[t] /\ Remediation(t)' = Remediation(t) /\ Remediation(t) = c
    BY <1>1, <2>1, GrantsStay DEF Supersedes
  <2>3. Supersedes(c, t)'
    BY <2>1, <2>2 DEF Supersedes
  <2>4. row'[t].id = row[t].id /\ row'[e].id = row[e].id
    <3>1. row[t].status = "dead_letter"
      BY <2>1 DEF Supersedes, HeadsOfDeadLetters
    <3> QED BY <3>1, PlaceStays DEF Visible
  <2> QED BY <2>1, <2>3, <2>4 DEF PredecessorBlocks
<1>3. CASE head[e].state = "approved" /\ head[e].disposition # "not_committed_superseded"
  <2>1. head'[e] = head[e]
    BY <1>3, GrantsStay
  <2> QED BY <1>3, <2>1 DEF PredecessorBlocks
<1>4. CASE head[e].state = "approved" /\ Remediation(e) = c
  <2>1. head'[e] = head[e] /\ Remediation(e)' = c
    BY <1>1, <1>4, GrantsStay
  <2> QED BY <1>4, <2>1 DEF PredecessorBlocks
<1>5. CASE /\ head[e].state = "approved"
           /\ Remediation(e) # NoTransfer
           /\ row[Remediation(e)].status = "delivered"
  <2> DEFINE r == Remediation(e)
  <2>1. r \in Ids
    <3>1. kase[e] \in Case
      BY DEF TypeOK, AuthorityTypeOK
    <3> QED BY <1>5, <3>1 DEF Remediation, Case, Ids
  <2>2. head'[e] = head[e] /\ r' = r
    BY <1>5, GrantsStay
  <2>3. row'[r].status = "delivered"
    BY <1>5, <2>1, PlaceStays
  <2> QED BY <1>5, <2>2, <2>3 DEF PredecessorBlocks
<1> QED BY <1>2, <1>3, <1>4, <1>5 DEF PredecessorBlocks

\* A row that was let past another is never held back by it again: no decision
\* of an administrator and no other step withdraws an authority a claim was made
\* under.
THEOREM GateOpens == Spec => GateStaysOpen
<1>1. TypeOK /\ HeadsOfDeadLetters /\ [Next]_vars =>
        [\A e, c \in Ids :
           Visible(e) /\ ~PredecessorBlocks(e, c) => ~PredecessorBlocks(e, c)']_vars
  BY GateStep
<1> QED BY <1>1, TypeCorrect, HeadsAlways, PTL DEF Spec, GateStaysOpen

---------------------------------------------------------------------------
(* A replacement is authorised.                                            *)

\* A request names its administrator, a grant two different ones.
DecidedByTwo(decision, requested, granted) ==
  /\ decision.state \in {requested, granted} => decision.requestedBy \in Admins
  /\ decision.state = granted =>
       decision.approvedBy \in Admins /\ decision.requestedBy # decision.approvedBy

FourEyes ==
  \A t \in Ids :
    /\ DecidedByTwo(kase[t], "approval_pending", "replacement_intent_created")
    /\ DecidedByTwo(head[t], "approval_pending", "approved")

\* Every id was drawn from the sequence.
IdsDrawn == \A t \in Ids : row[t].id <= lastId

\* An approved replacement stands behind its dead letter in the same stream.
ReplacementPlaced ==
  \A t, r \in Ids :
    Remediation(t) = r =>
      row[r].status # "absent" /\ row[t].status = "dead_letter"
        /\ SameStream(t, r) /\ row[t].id < row[r].id

\* A replacement's row comes with an approved case, and only dead letters have one.
CasesOfDeadLetters ==
  /\ \A t \in Ids : kase[t].state # "none" => row[t].status = "dead_letter"
  /\ \A r \in Replacements :
       row[r].status # "absent" => \E t \in Ids : Remediation(t) = r

AuthorityInv ==
  /\ HeadsOfDeadLetters
  /\ FourEyes
  /\ IdsDrawn
  /\ CasesOfDeadLetters
  /\ ReplacementPlaced
  /\ ReplacementAuthorised

LEMMA FourEyesStep == TypeOK /\ FourEyes /\ [Next]_vars => FourEyes'
<1> SUFFICES ASSUME TypeOK, FourEyes, [Next]_vars, NEW t \in Ids
             PROVE  /\ DecidedByTwo(kase'[t], "approval_pending",
                                    "replacement_intent_created")
                    /\ DecidedByTwo(head'[t], "approval_pending", "approved")
  BY DEF FourEyes, DecidedByTwo
<1> USE DEF DecidedByTwo
<1>1. /\ kase[t] \in Case /\ head[t] \in Resolution
      /\ CaseLife(t) /\ HeadLife(t)
      /\ DecidedByTwo(kase[t], "approval_pending", "replacement_intent_created")
      /\ DecidedByTwo(head[t], "approval_pending", "approved")
  BY DecisionLifeStep DEF TypeOK, AuthorityTypeOK, FourEyes
<1>2. DecidedByTwo(kase'[t], "approval_pending", "replacement_intent_created")
  <2>1. CASE kase'[t] = kase[t]
    BY <1>1, <2>1
  <2>2. CASE CaseOpened(t)
    <3>1. kase'[t].state = "open"
      BY <1>1, <2>2 DEF CaseOpened, Case
    <3> QED BY <3>1
  <2>3. CASE CaseRequested(t)
    BY <2>3 DEF CaseRequested
  <2>4. CASE CaseApproved(t)
    <3>1. PICK a \in Admins :
            /\ kase[t].requestedBy # a
            /\ kase'[t] = [kase[t] EXCEPT !.state = "replacement_intent_created",
                                          !.approvedBy = a]
      BY <2>4 DEF CaseApproved
    <3>2. kase'[t].requestedBy = kase[t].requestedBy /\ kase'[t].approvedBy = a
      BY <1>1, <3>1 DEF Case
    <3>3. kase[t].requestedBy \in Admins
      BY <1>1, <2>4 DEF CaseApproved
    <3> QED BY <3>1, <3>2, <3>3
  <2>5. CASE CaseRejected(t)
    <3>1. kase'[t].state = "rejected"
      BY <1>1, <2>5 DEF CaseRejected, Case
    <3> QED BY <3>1
  <2> QED BY <1>1, <2>1, <2>2, <2>3, <2>4, <2>5 DEF CaseLife
<1>3. DecidedByTwo(head'[t], "approval_pending", "approved")
  <2>1. CASE head'[t] = head[t]
    BY <1>1, <2>1
  <2>2. CASE HeadRequested(t)
    BY <2>2 DEF HeadRequested
  <2>3. CASE HeadApproved(t)
    <3>1. PICK a \in Admins :
            /\ head[t].requestedBy # a
            /\ head'[t] = [head[t] EXCEPT !.state = "approved", !.approvedBy = a]
      BY <2>3 DEF HeadApproved
    <3>2. head'[t].requestedBy = head[t].requestedBy /\ head'[t].approvedBy = a
      BY <1>1, <3>1 DEF Resolution
    <3>3. head[t].requestedBy \in Admins
      BY <1>1, <2>3 DEF HeadApproved
    <3> QED BY <3>1, <3>2, <3>3
  <2>4. CASE HeadRejected(t)
    <3>1. head'[t].state = "rejected"
      BY <1>1, <2>4 DEF HeadRejected, Resolution
    <3> QED BY <3>1
  <2> QED BY <1>1, <2>1, <2>2, <2>3, <2>4 DEF HeadLife
<1> QED BY <1>2, <1>3

\* The sequence never falls behind an id it gave out.
LEMMA SequenceGrows == TypeOK /\ [Next]_vars => lastId' \in {lastId, lastId + 1}
<1>1. CASE StoreStep /\ UNCHANGED <<authorityVars, laneVars>>
  BY <1>1 DEF StoreStep, BeginInitiate, CommitInitiate, ReceiveCallback
<1>2. CASE AuthorityStep /\ UNCHANGED laneVars
  BY <1>2 DEF AuthorityStep, OpenCase, RequestRemediation, ApproveRemediation,
              RejectRemediation, RequestHeadResolution, ApproveHeadResolution,
              RejectHeadResolution, storeVars
<1>3. CASE LaneStep /\ UNCHANGED authorityVars
  BY <1>3 DEF LaneStep, Dispatch, Claim, Submit, BuildFails, Answer, LoseAnswer, Finalize,
              GiveBack, GoDown, RefuseStale, LaneError, StopIdle, Crash, Restart, LandStray,
              LeaseExpires, storeVars
<1> QED BY <1>1, <1>2, <1>3 DEF Next, vars, storeVars

LEMMA IdsStep == TypeOK /\ IdsDrawn /\ [Next]_vars => IdsDrawn'
<1> SUFFICES ASSUME TypeOK, IdsDrawn, [Next]_vars, NEW t \in Ids
             PROVE  row'[t].id <= lastId'
  BY DEF IdsDrawn
<1>1. /\ lastId \in Nat /\ row[t].id \in Nat /\ row[t].id <= lastId
      /\ lastId' \in {lastId, lastId + 1}
  BY SequenceGrows DEF TypeOK, StoreTypeOK, Row, IdsDrawn
<1>2. CASE row[t].status # "absent"
  BY <1>1, <1>2, PlaceStays
<1>3. CASE row[t].status = "absent"
  <2>1. Kept(t) \/ Inserted(t)
    BY <1>3, RowLifeStep
       DEF RowLife, Committed, Claimed, Claimable, GivenBack, Delivered, Expired
  <2>2. CASE Kept(t)
    BY <1>1, <2>2 DEF Kept
  <2>3. CASE Inserted(t)
    <3>1. row'[t].id = lastId + 1
      BY <2>3 DEF Inserted, NewRow, NoRow
    <3> QED BY <1>1, <2>3, <3>1 DEF Inserted
  <2> QED BY <2>1, <2>2, <2>3
<1> QED BY <1>2, <1>3

\* The lanes do not touch a row that they cannot see.
LEMMA LanesSeeVisible ==
  ASSUME TypeOK, LaneStep, UNCHANGED authorityVars, NEW r \in Ids, ~Visible(r)
  PROVE  row'[r] = row[r]
<1> USE DEF Visible
<1>1. ASSUME NEW w \in Lanes, NEW B \in SUBSET Ids, Claim(w, B)
      PROVE  row'[r] = row[r]
  <2>1. r \notin B
    BY <1>1 DEF Claim, Claimable
  <2> QED BY <1>1, <2>1 DEF Claim
<1>2. ASSUME NEW w \in Lanes, NEW s \in Ids, Finalize(w, s) \/ GiveBack(w, s)
      PROVE  row'[r] = row[r]
  <2>1. s # r
    BY <1>2 DEF Finalize, GiveBack, ActiveClaim
  <2> QED BY <1>2, <2>1 DEF Finalize, GiveBack, TypeOK, StoreTypeOK
<1>3. ASSUME NEW s \in Ids, LeaseExpires(s)
      PROVE  row'[r] = row[r]
  <2>1. s # r
    BY <1>3 DEF LeaseExpires
  <2> QED BY <1>3, <2>1 DEF LeaseExpires, TypeOK, StoreTypeOK
<1>4. CASE UNCHANGED row
  BY <1>4
<1> QED BY <1>1, <1>2, <1>3, <1>4
        DEF LaneStep, Dispatch, Submit, BuildFails, Answer, LoseAnswer, GoDown,
            RefuseStale, LaneError, StopIdle, Crash, Restart, LandStray, storeVars

\* Only the approval of its case inserts a replacement.
LEMMA ReplacementInserted ==
  ASSUME TypeOK, [Next]_vars, NEW r \in Replacements,
         row[r].status = "absent", row'[r].status # "absent"
  PROVE  \E t \in Ids : Remediation(t)' = r
<1>1. r \in Ids /\ r \notin Transfers
  BY StoreAssumption DEF Ids
<1>2. ASSUME NEW t \in Ids, NEW a \in Admins, ApproveRemediation(a, t)
      PROVE  Remediation(t)' = r
  <2>1. kase[t].replacement = r
    BY <1>1, <1>2 DEF ApproveRemediation, TypeOK, StoreTypeOK
  <2>2. /\ kase'[t].replacement = kase[t].replacement
        /\ kase'[t].state = "replacement_intent_created"
    BY <1>2 DEF ApproveRemediation, TypeOK, AuthorityTypeOK, Case
  <2> QED BY <2>1, <2>2 DEF Remediation
<1>3. ASSUME NEW t \in Transfers, BeginInitiate(t) \/ CommitInitiate(t)
      PROVE  FALSE
  <2>1. t \in Ids /\ t # r
    BY <1>1 DEF Ids
  <2> QED BY <1>1, <1>3, <2>1 DEF BeginInitiate, CommitInitiate, TypeOK, StoreTypeOK
<1>4. CASE UNCHANGED row
  BY <1>4
<1>5. CASE LaneStep /\ UNCHANGED authorityVars
  BY <1>1, <1>5, LanesSeeVisible DEF Visible
<1> QED
  BY <1>2, <1>3, <1>4, <1>5
     DEF Next, vars, storeVars, StoreStep, ReceiveCallback, AuthorityStep, OpenCase,
         RequestRemediation, RejectRemediation, RequestHeadResolution,
         ApproveHeadResolution, RejectHeadResolution

LEMMA CasesStep == TypeOK /\ CasesOfDeadLetters /\ [Next]_vars => CasesOfDeadLetters'
<1> SUFFICES ASSUME TypeOK, CasesOfDeadLetters, [Next]_vars
             PROVE  CasesOfDeadLetters'
  OBVIOUS
<1>1. ASSUME NEW t \in Ids, kase'[t].state # "none"
      PROVE  row'[t].status = "dead_letter"
  <2>1. CaseLife(t) /\ (kase[t].state # "none" => row[t].status = "dead_letter")
    BY DecisionLifeStep DEF CasesOfDeadLetters
  <2>2. row[t].status = "dead_letter"
    BY <1>1, <2>1
       DEF CaseLife, CaseOpened, CaseRequested, CaseApproved, CaseRejected
  <2> QED BY <2>2, PlaceStays
<1>2. ASSUME NEW r \in Replacements, row'[r].status # "absent"
      PROVE  \E t \in Ids : Remediation(t)' = r
  <2>1. CASE row[r].status = "absent"
    BY <1>2, <2>1, ReplacementInserted
  <2>2. CASE row[r].status # "absent"
    <3>1. PICK t \in Ids : Remediation(t) = r
      BY <2>2 DEF CasesOfDeadLetters
    <3>2. Remediation(t) # NoTransfer
      BY <3>1, AuthorityAssumption DEF Ids
    <3> QED BY <3>1, <3>2, GrantsStay
  <2> QED BY <2>1, <2>2
<1> QED BY <1>1, <1>2 DEF CasesOfDeadLetters

LEMMA RemediationIsApproved ==
  ASSUME NEW t \in Ids, CaseLife(t), kase[t] \in Case,
         kase[t].state # "replacement_intent_created",
         kase'[t].state = "replacement_intent_created"
  PROVE  CaseApproved(t)
<1>1. CaseOpened(t) => kase'[t].state = "open"
  BY DEF CaseOpened, Case
<1>2. CaseRequested(t) => kase'[t].state = "approval_pending"
  BY DEF CaseRequested
<1>3. CaseRejected(t) => kase'[t].state = "rejected"
  BY DEF CaseRejected, Case
<1> QED BY <1>1, <1>2, <1>3 DEF CaseLife

LEMMA PlacedStep ==
  TypeOK /\ IdsDrawn /\ CasesOfDeadLetters /\ ReplacementPlaced /\ [Next]_vars
    => ReplacementPlaced'
<1> SUFFICES ASSUME TypeOK, IdsDrawn, CasesOfDeadLetters, ReplacementPlaced, [Next]_vars,
                    NEW t \in Ids, NEW r \in Ids, Remediation(t)' = r
             PROVE  /\ row'[r].status # "absent" /\ row'[t].status = "dead_letter"
                    /\ row'[t].fsp = row'[r].fsp /\ row'[t].id < row'[r].id
  BY DEF ReplacementPlaced, SameStream
<1>1. CASE Remediation(t) = r
  <2>1. /\ row[r].status # "absent" /\ row[t].status = "dead_letter"
        /\ row[t].fsp = row[r].fsp /\ row[t].id < row[r].id
    BY <1>1 DEF ReplacementPlaced, SameStream
  <2> QED BY <2>1, PlaceStays
<1>2. CASE Remediation(t) # r
  <2>1. r # NoTransfer
    BY AuthorityAssumption
  <2>2. kase'[t].state = "replacement_intent_created" /\ kase'[t].replacement = r
    BY <2>1 DEF Remediation
  <2>3. Remediation(t) = NoTransfer
    BY <1>2, GrantsStay
  <2>4. CaseLife(t) /\ kase[t] \in Case
    BY DecisionLifeStep DEF TypeOK, AuthorityTypeOK
  <2>5. kase[t].state # "replacement_intent_created"
    BY <1>2, <2>2, GrantsStay DEF Remediation
  <2>6. CaseApproved(t)
    BY <2>2, <2>4, <2>5, RemediationIsApproved
  <2>7. kase[t].replacement = r
    BY <2>2, <2>4, <2>6 DEF CaseApproved, Case
  <2>8. row[r].status = "absent" /\ row'[r] = NewRow("pending", row[t].fsp)
    BY <2>6, <2>7 DEF CaseApproved
  <2>9. row[t].status = "dead_letter"
    <3>1. kase[t].state # "none"
      BY <2>6 DEF CaseApproved
    <3> QED BY <3>1 DEF CasesOfDeadLetters
  <2>10. row'[t] = row[t]
    BY <2>9, PlaceStays
  <2>11. /\ row'[r].status = "pending" /\ row'[r].fsp = row[t].fsp
         /\ row'[r].id = lastId + 1
    BY <2>8 DEF NewRow, NoRow
  <2>12. row[t].id < lastId + 1
    BY DEF IdsDrawn, TypeOK, StoreTypeOK, Row
  <2> QED BY <2>9, <2>10, <2>11, <2>12
<1> QED BY <1>1, <1>2

\* A row that a lane has claimed at some time.
Started(t) == row[t].attempts > 0

\* Only a claim raises the attempts of a row, and nothing lowers them.
LEMMA StartsByClaim ==
  ASSUME TypeOK, TokensDrawn, [Next]_vars, NEW t \in Ids
  PROVE  /\ Started(t) => Started(t)'
         /\ ~Started(t) /\ Started(t)' => Claimable(t)
<1> USE DEF Started
<1>1. RowLife(t) /\ row[t] \in Row /\ row[t].attempts \in Nat
  BY RowLifeStep DEF TypeOK, StoreTypeOK, Row
<1>2. CASE Claimed(t)
  <2>1. row'[t].attempts = row[t].attempts + 1
    BY <1>1, <1>2 DEF Claimed, ClaimedRow, Row
  <2> QED BY <1>1, <1>2, <2>1 DEF Claimed
<1>3. CASE Inserted(t)
  <2>1. row[t].attempts = 0 /\ row'[t].attempts = 0
    BY <1>3 DEF Inserted, NewRow, NoRow, TokensDrawn
  <2> QED BY <2>1
<1>4. CASE Kept(t)
  BY <1>4 DEF Kept
<1>5. CASE Committed(t) \/ GivenBack(t) \/ Delivered(t) \/ Expired(t)
  <2>1. row'[t].attempts = row[t].attempts
    BY <1>1, <1>5 DEF Committed, GivenBack, Delivered, Expired, Released, Row
  <2> QED BY <2>1
<1> QED BY <1>1, <1>2, <1>3, <1>4, <1>5 DEF RowLife

\* The original of a replacement that a lane may claim: its head was released.
LEMMA ClaimIsAuthorised ==
  ASSUME TypeOK, CasesOfDeadLetters, ReplacementPlaced, NEW r \in Replacements,
         Claimable(r)
  PROVE  \E t \in Ids : Supersedes(r, t) \/ (Remediation(t) = r /\ head[t].state = "approved")
<1>1. r \in Ids /\ row[r].status # "absent"
  BY DEF Ids, Claimable
<1>2. PICK t \in Ids : Remediation(t) = r
  BY <1>1 DEF CasesOfDeadLetters
<1>3. Precedes(t, r)
  BY <1>1, <1>2 DEF ReplacementPlaced, Precedes, Visible
<1>4. ~PredecessorBlocks(t, r)
  BY <1>3 DEF Claimable
<1> QED BY <1>2, <1>4 DEF PredecessorBlocks

\* What authorises the replacement r, through the dead letter t.
AuthorisedBy(r, t) ==
  /\ Remediation(t) = r
  /\ row[t].status = "dead_letter"
  /\ head[t].state = "approved"
  /\ \A decision \in {kase[t], head[t]} :
       /\ {decision.requestedBy, decision.approvedBy} \subseteq Admins
       /\ decision.requestedBy # decision.approvedBy

LEMMA AuthorityStays ==
  ASSUME TypeOK, [Next]_vars, NEW t \in Ids, NEW r \in Replacements, AuthorisedBy(r, t)
  PROVE  AuthorisedBy(r, t)'
<1>1. kase[t].state = "replacement_intent_created"
  BY AuthorityAssumption DEF AuthorisedBy, Remediation, Ids
<1>2. kase'[t] = kase[t] /\ head'[t] = head[t] /\ row'[t] = row[t]
  BY <1>1, GrantsStay, PlaceStays DEF AuthorisedBy
<1> QED BY <1>2 DEF AuthorisedBy, Remediation

LEMMA AuthorisedStep ==
  TypeOK /\ ClaimsInv /\ AuthorityInv /\ [Next]_vars => ReplacementAuthorised'
<1> SUFFICES ASSUME TypeOK, ClaimsInv, AuthorityInv, [Next]_vars,
                    NEW r \in Replacements, row'[r].attempts > 0
             PROVE  \E t \in Ids : AuthorisedBy(r, t)'
  BY DEF ReplacementAuthorised, AuthorisedBy
<1>1. \E t \in Ids : AuthorisedBy(r, t)
  <2>1. CASE row[r].attempts > 0
    BY <2>1 DEF AuthorityInv, ReplacementAuthorised, AuthorisedBy
  <2>2. CASE ~(row[r].attempts > 0)
    <3>1. Claimable(r)
      BY <2>2, StartsByClaim DEF Started, ClaimsInv, Ids
    <3>2. PICK t \in Ids : Remediation(t) = r /\ head[t].state = "approved"
      BY <3>1, ClaimIsAuthorised DEF AuthorityInv, Supersedes
    <3>3. kase[t].state = "replacement_intent_created"
      BY <3>2, AuthorityAssumption DEF Remediation, Ids
    <3>4. row[t].status = "dead_letter"
      BY <3>2 DEF AuthorityInv, HeadsOfDeadLetters
    <3>5. \A decision \in {kase[t], head[t]} :
            /\ {decision.requestedBy, decision.approvedBy} \subseteq Admins
            /\ decision.requestedBy # decision.approvedBy
      BY <3>2, <3>3 DEF AuthorityInv, FourEyes, DecidedByTwo
    <3> QED BY <3>2, <3>4, <3>5 DEF AuthorisedBy
  <2> QED BY <2>1, <2>2
<1>2. PICK t \in Ids : AuthorisedBy(r, t)
  BY <1>1
<1> QED BY <1>2, AuthorityStays

LEMMA AuthorityInvInit == Init => AuthorityInv
<1> SUFFICES ASSUME Init PROVE AuthorityInv
  OBVIOUS
<1>1. /\ \A t \in Ids : row[t] = NoRow /\ kase[t] = NoCase /\ head[t] = NoHead
      /\ lastId = 0
  BY DEF Init, StoreInit, AuthorityInit
<1>2. \A t \in Ids : Remediation(t) = NoTransfer
  BY <1>1 DEF Remediation, NoCase
<1>3. HeadsOfDeadLetters /\ FourEyes /\ IdsDrawn
  BY <1>1 DEF HeadsOfDeadLetters, FourEyes, DecidedByTwo, IdsDrawn, NoRow, NoCase, NoHead
<1>4. CasesOfDeadLetters /\ ReplacementAuthorised
  BY <1>1 DEF CasesOfDeadLetters, ReplacementAuthorised, NoRow, NoCase, Ids
<1>5. ReplacementPlaced
  BY <1>2, AuthorityAssumption DEF ReplacementPlaced
<1> QED BY <1>3, <1>4, <1>5 DEF AuthorityInv

LEMMA AuthorityAlways == Spec => []AuthorityInv
<1>1. TypeOK /\ ClaimsInv /\ AuthorityInv /\ [Next]_vars => AuthorityInv'
  BY HeadsStep, FourEyesStep, IdsStep, CasesStep, PlacedStep, AuthorisedStep
     DEF AuthorityInv
<1> QED BY <1>1, AuthorityInvInit, TypeCorrect, ClaimsAlways, PTL DEF Spec

\* No replacement reaches the ledger on the word of one administrator, for any
\* number of administrators, replacements, lanes and faults: the gate that holds
\* it behind its own dead letter opens only with the second grant.
THEOREM Authorised == Spec => []ReplacementAuthorised
<1>1. AuthorityInv => ReplacementAuthorised
  BY DEF AuthorityInv
<1> QED BY <1>1, AuthorityAlways, PTL
---------------------------------------------------------------------------
(* The order of a payer's debits.  A row that was ever claimed found every *)
(* earlier visible row delivered or passable, and what it passed it may    *)
(* pass for good; earlier rows that appear afterwards were overtaken.      *)

Passed(e, c) ==
  row[e].status = "delivered" \/ e \in overtaken \/ ~PredecessorBlocks(e, c)

StartedInOrder ==
  \A e, c \in Ids :
    Visible(e) /\ Started(c) /\ SameStream(e, c) /\ row[e].id < row[c].id => Passed(e, c)

\* An earlier row that is still to appear counts as overtaken.
OpenMarked ==
  \A e, c \in Ids :
    row[e].status = "uncommitted" /\ Visible(c) /\ SameStream(e, c) /\ row[e].id < row[c].id
      => e \in overtaken

\* A dead letter whose replacement is older than c was visible before c was there.
ReplacedInOrder ==
  \A u, e, c \in Ids :
    Remediation(u) = e /\ Started(c) /\ SameStream(u, c) /\ row[e].id < row[c].id
      => ~PredecessorBlocks(u, c)

ReplacementsDistinct ==
  \A s, t \in Ids :
    kase[s].replacement # NoTransfer /\ kase[s].replacement = kase[t].replacement => s = t

\* A head resolved as committed has been posted.
ResolvedPosted ==
  \A t \in Ids :
    head[t].state # "none" /\ head[t].disposition # "not_committed_superseded"
      => t \in ledger

\* What has gone further than waiting was claimed.
RowsStarted ==
  \A t \in Ids : row[t].status \in {"processing", "delivered", "dead_letter"} => Started(t)

LedgerStarted == \A t \in ledger \cup stray : Started(t)

OrderInv ==
  /\ OpenMarked
  /\ StartedInOrder
  /\ ReplacedInOrder
  /\ ReplacementsDistinct
  /\ ResolvedPosted
  /\ RowsStarted
  /\ LedgerStarted

LEMMA OvertakenGrows == [Next]_vars => overtaken \subseteq overtaken'
<1>1. CASE StoreStep /\ UNCHANGED <<authorityVars, laneVars>>
  BY <1>1 DEF StoreStep, BeginInitiate, CommitInitiate, ReceiveCallback
<1>2. CASE AuthorityStep /\ UNCHANGED laneVars
  BY <1>2 DEF AuthorityStep, OpenCase, RequestRemediation, ApproveRemediation,
              RejectRemediation, RequestHeadResolution, ApproveHeadResolution,
              RejectHeadResolution, storeVars
<1>3. CASE LaneStep /\ UNCHANGED authorityVars
  BY <1>3 DEF LaneStep, Dispatch, Claim, Submit, BuildFails, Answer, LoseAnswer, Finalize,
              GiveBack, GoDown, RefuseStale, LaneError, StopIdle, Crash, Restart, LandStray,
              LeaseExpires, storeVars
<1> QED BY <1>1, <1>2, <1>3 DEF Next, vars, storeVars

\* A row that appears overtakes the earlier rows of its stream that have not.
LEMMA Appearance ==
  ASSUME TypeOK, IdsDrawn, CasesOfDeadLetters, [Next]_vars, NEW c \in Ids, ~Visible(c), Visible(c)',
         NEW e \in Ids, row[e].status = "uncommitted",
         row[e].fsp = row'[c].fsp, row[e].id < row'[c].id
  PROVE  e \in overtaken'
<1> USE DEF TypeOK, StoreTypeOK, Visible
<1>1. ASSUME NEW t \in Transfers, CommitInitiate(t)
      PROVE  e \in overtaken'
  <2>1. t \in Ids /\ row[t] \in Row
    BY DEF Ids
  <2>2. t = c
    BY <1>1, <2>1 DEF CommitInitiate
  <2>3. row'[c].fsp = row[c].fsp /\ row'[c].id = row[c].id
    BY <1>1, <2>1, <2>2 DEF CommitInitiate, Row
  <2> QED BY <1>1, <2>2, <2>3 DEF CommitInitiate, OpenTransactions, SameStream
<1>2. ASSUME NEW t \in Ids, NEW a \in Admins, ApproveRemediation(a, t)
      PROVE  e \in overtaken'
  <2>1. c = kase[t].replacement
    BY <1>2 DEF ApproveRemediation
  <2>2. row'[c].fsp = row[t].fsp
    BY <1>2, <2>1 DEF ApproveRemediation, NewRow, NoRow
  <2> QED BY <1>2, <2>2 DEF ApproveRemediation, OpenTransactions, SameStream
<1>3. ASSUME NEW t \in Transfers, BeginInitiate(t)
      PROVE  FALSE
  <2>1. t \in Ids
    BY DEF Ids
  <2>2. c # t => row'[c] = row[c]
    BY <1>3, <2>1 DEF BeginInitiate
  <2>3. c = t => row'[c].status = "uncommitted"
    BY <1>3, <2>1 DEF BeginInitiate, NewRow, NoRow
  <2> QED BY <2>2, <2>3
<1>4. CASE UNCHANGED row
  BY <1>4
<1>5. CASE LaneStep /\ UNCHANGED authorityVars
  BY <1>5, LanesSeeVisible
<1> QED
  BY <1>1, <1>2, <1>3, <1>4, <1>5
     DEF Next, vars, storeVars, StoreStep, ReceiveCallback, AuthorityStep, OpenCase,
         RequestRemediation, RejectRemediation, RequestHeadResolution,
         ApproveHeadResolution, RejectHeadResolution

\* A row that was absent gets the last id.
LEMMA LastOfStream ==
  ASSUME TypeOK, IdsDrawn, [Next]_vars, NEW e \in Ids, NEW c \in Ids,
         row[e].status = "absent", row'[e].status # "absent"
  PROVE  ~(row'[e].id < row'[c].id)
<1>1. Inserted(e) \/ Kept(e)
  BY RowLifeStep
     DEF RowLife, Committed, Claimed, Claimable, GivenBack, Delivered, Expired
<1>2. row'[e].id = lastId + 1 /\ lastId' = lastId + 1
  BY <1>1 DEF Inserted, Kept, NewRow, NoRow
<1>3. row'[c].id <= lastId'
  BY IdsStep DEF IdsDrawn
<1>4. row'[c].id \in Nat /\ lastId \in Nat
  BY TypeStep DEF TypeOK, StoreTypeOK, Row
<1> QED BY <1>2, <1>3, <1>4

LEMMA OpenMarkedStep ==
  TypeOK /\ IdsDrawn /\ CasesOfDeadLetters /\ OpenMarked /\ [Next]_vars => OpenMarked'
<1> SUFFICES ASSUME TypeOK, IdsDrawn, CasesOfDeadLetters, OpenMarked, [Next]_vars,
                    NEW e \in Ids, NEW c \in Ids,
                    row'[e].status = "uncommitted", Visible(c)',
                    row'[e].fsp = row'[c].fsp, row'[e].id < row'[c].id
             PROVE  e \in overtaken'
  BY DEF OpenMarked, SameStream
<1>1. row[e].status # "absent"
  BY LastOfStream
<1>2. row'[e].id = row[e].id /\ row'[e].fsp = row[e].fsp
  BY <1>1, PlaceStays
<1>3. row[e].status = "uncommitted"
  BY <1>1, PlaceStays DEF Visible
<1>4. CASE Visible(c)
  <2>1. row'[c].id = row[c].id /\ row'[c].fsp = row[c].fsp
    BY <1>4, PlaceStays DEF Visible
  <2>2. e \in overtaken
    BY <1>2, <1>3, <1>4, <2>1 DEF OpenMarked, SameStream
  <2> QED BY <2>2, OvertakenGrows
<1>5. CASE ~Visible(c)
  BY <1>2, <1>3, <1>5, Appearance
<1> QED BY <1>4, <1>5

\* Whoever is started in the next state is visible in this one.
LEMMA StartedSeen ==
  ASSUME TypeOK, TokensDrawn, [Next]_vars, NEW c \in Ids, Started(c)'
  PROVE  Visible(c) /\ (Started(c) \/ Claimable(c))
<1>1. Started(c) \/ Claimable(c)
  BY StartsByClaim
<1> QED BY <1>1 DEF Started, Claimable, Visible, TokensDrawn

LEMMA StartedStep ==
  TypeOK /\ TokensDrawn /\ AuthorityInv /\ OpenMarked /\ StartedInOrder /\ [Next]_vars
    => StartedInOrder'
<1> SUFFICES ASSUME TypeOK, TokensDrawn, AuthorityInv, OpenMarked, StartedInOrder,
                    [Next]_vars, NEW e \in Ids, NEW c \in Ids,
                    Visible(e)', Started(c)', row'[e].fsp = row'[c].fsp,
                    row'[e].id < row'[c].id
             PROVE  Passed(e, c)'
  BY DEF StartedInOrder, SameStream
<1>1. Visible(c) /\ (Started(c) \/ Claimable(c))
  BY StartedSeen
<1>2. row[e].status # "absent"
  BY LastOfStream DEF AuthorityInv, Visible
<1>3. SameStream(e, c) /\ row[e].id < row[c].id
  <2>1. row[c].status # "absent"
    BY <1>1 DEF Visible
  <2> QED BY <1>2, <2>1, PlaceStays DEF SameStream
<1>4. CASE ~Visible(e)
  <2>1. row[e].status = "uncommitted"
    BY <1>2, <1>4 DEF Visible
  <2>2. e \in overtaken
    BY <1>1, <1>3, <2>1 DEF OpenMarked
  <2> QED BY <2>2, OvertakenGrows DEF Passed
<1>5. CASE Visible(e)
  <2>1. Passed(e, c)
    BY <1>1, <1>3, <1>5 DEF StartedInOrder, Claimable, Precedes, Passed
  <2>2. row[e].status = "delivered" => row'[e].status = "delivered"
    BY PlaceStays
  <2>3. e \in overtaken => e \in overtaken'
    BY OvertakenGrows
  <2>4. ~PredecessorBlocks(e, c) => ~PredecessorBlocks(e, c)'
    BY <1>5, GateStep DEF AuthorityInv
  <2> QED BY <2>1, <2>2, <2>3, <2>4 DEF Passed
<1> QED BY <1>4, <1>5

LEMMA ReplacedStep ==
  TypeOK /\ TokensDrawn /\ AuthorityInv /\ ReplacedInOrder /\ [Next]_vars => ReplacedInOrder'
<1> SUFFICES ASSUME TypeOK, TokensDrawn, AuthorityInv, ReplacedInOrder, [Next]_vars,
                    NEW u \in Ids, NEW e \in Ids, NEW c \in Ids,
                    Remediation(u)' = e, Started(c)', row'[u].fsp = row'[c].fsp,
                    row'[e].id < row'[c].id
             PROVE  ~PredecessorBlocks(u, c)'
  BY DEF ReplacedInOrder, SameStream
<1>1. Visible(c) /\ (Started(c) \/ Claimable(c))
  BY StartedSeen
<1>2. row'[e].status # "absent"
  BY PlacedStep DEF AuthorityInv, ReplacementPlaced
<1>3. row[e].status # "absent"
  BY <1>2, LastOfStream DEF AuthorityInv
<1>4. Remediation(u) = e
  <2>1. CASE Remediation(u) # NoTransfer
    BY <2>1, GrantsStay
  <2>2. CASE Remediation(u) = NoTransfer
    <3>1. e # NoTransfer
      BY AuthorityAssumption
    <3>2. CaseLife(u) /\ kase[u] \in Case
      BY DecisionLifeStep DEF TypeOK, AuthorityTypeOK
    <3>3. kase'[u].state = "replacement_intent_created" /\ kase'[u].replacement = e
      BY <3>1 DEF Remediation
    <3>4. kase[u].state # "replacement_intent_created"
      BY <2>2, <3>1, <3>3, GrantsStay DEF Remediation
    <3>5. CaseApproved(u)
      BY <3>2, <3>3, <3>4, RemediationIsApproved
    <3>6. kase[u].replacement = e
      BY <3>2, <3>3, <3>5 DEF CaseApproved, Case
    <3> QED BY <1>3, <3>5, <3>6 DEF CaseApproved
  <2> QED BY <2>1, <2>2
<1>5. row[u].status = "dead_letter" /\ SameStream(u, e) /\ row[u].id < row[e].id
  BY <1>4 DEF AuthorityInv, ReplacementPlaced
<1>6. SameStream(u, c) /\ row[e].id < row[c].id
  BY <1>1, <1>3, <1>5, PlaceStays DEF SameStream, Visible
<1>7. ~PredecessorBlocks(u, c)
  <2>1. CASE Started(c)
    BY <1>4, <1>6, <2>1 DEF ReplacedInOrder
  <2>2. CASE Claimable(c)
    <3>1. row[u].id < row[c].id
      BY <1>5, <1>6 DEF TypeOK, StoreTypeOK, Row
    <3> QED BY <1>5, <1>6, <2>2, <3>1 DEF Claimable, Precedes, Visible
  <2> QED BY <1>1, <2>1, <2>2
<1> QED BY <1>5, <1>7, GateStep DEF AuthorityInv, Visible

LEMMA DistinctStep ==
  TypeOK /\ ReplacementsDistinct /\ [Next]_vars => ReplacementsDistinct'
<1> SUFFICES ASSUME TypeOK, ReplacementsDistinct, [Next]_vars, NEW s \in Ids, NEW t \in Ids,
                    kase'[s].replacement # NoTransfer,
                    kase'[s].replacement = kase'[t].replacement, s # t
             PROVE  FALSE
  BY DEF ReplacementsDistinct
<1>1. CaseLife(s) /\ CaseLife(t) /\ kase[s] \in Case /\ kase[t] \in Case
  BY DecisionLifeStep DEF TypeOK, AuthorityTypeOK
<1>2. ASSUME NEW x \in {s, t}, ~CaseRequested(x)
      PROVE  kase'[x].replacement = kase[x].replacement
  BY <1>1, <1>2 DEF CaseLife, CaseOpened, CaseApproved, CaseRejected, Case
<1>3. CASE CaseRequested(s)
  BY <1>3 DEF CaseRequested
<1>4. CASE CaseRequested(t)
  BY <1>4 DEF CaseRequested
<1>5. CASE ~CaseRequested(s) /\ ~CaseRequested(t)
  BY <1>2, <1>5 DEF ReplacementsDistinct
<1> QED BY <1>3, <1>4, <1>5

LEMMA ResolvedStep == TypeOK /\ ResolvedPosted /\ [Next]_vars => ResolvedPosted'
<1> SUFFICES ASSUME TypeOK, ResolvedPosted, [Next]_vars, NEW t \in Ids,
                    head'[t].state # "none",
                    head'[t].disposition # "not_committed_superseded"
             PROVE  t \in ledger'
  BY DEF ResolvedPosted
<1>1. HeadLife(t) /\ head[t] \in Resolution /\ ledger \subseteq ledger'
  BY DecisionLifeStep, LedgerGrows DEF TypeOK, AuthorityTypeOK
<1>2. CASE HeadRequested(t)
  BY <1>1, <1>2 DEF HeadRequested, Disposition
<1>3. CASE HeadApproved(t) \/ HeadRejected(t)
  <2>1. head[t].state # "none" /\ head'[t].disposition = head[t].disposition
    BY <1>1, <1>3 DEF HeadApproved, HeadRejected, Resolution
  <2> QED BY <1>1, <2>1 DEF ResolvedPosted
<1> QED BY <1>1, <1>2, <1>3 DEF HeadLife, ResolvedPosted

LEMMA RowsStartedStep ==
  TypeOK /\ TokensDrawn /\ RowsStarted /\ [Next]_vars => RowsStarted'
<1> SUFFICES ASSUME TypeOK, TokensDrawn, RowsStarted, [Next]_vars, NEW t \in Ids,
                    row'[t].status \in {"processing", "delivered", "dead_letter"}
             PROVE  Started(t)'
  BY DEF RowsStarted
<1>1. RowLife(t) /\ row[t] \in Row /\ row[t].attempts \in Nat
  BY RowLifeStep DEF TypeOK, StoreTypeOK, Row
<1>2. CASE Claimed(t)
  <2>1. row'[t].attempts = row[t].attempts + 1
    BY <1>1, <1>2 DEF Claimed, ClaimedRow, Row
  <2> QED BY <1>1, <2>1 DEF Started
<1>3. CASE Inserted(t)
  BY <1>3 DEF Inserted, NewRow, NoRow
<1>4. CASE Committed(t)
  BY <1>1, <1>4 DEF Committed, Row
<1>5. CASE Kept(t) \/ GivenBack(t) \/ Delivered(t) \/ Expired(t)
  <2>1. row[t].status \in {"processing", "delivered", "dead_letter"}
    BY <1>5 DEF Kept, GivenBack, Delivered, Expired
  <2> QED BY <2>1, StartsByClaim DEF RowsStarted
<1> QED BY <1>1, <1>2, <1>3, <1>4, <1>5 DEF RowLife

\* The ledger gets what a lane holds, and a lane holds what it has claimed.
LEMMA LedgerStartedStep ==
  TypeOK /\ TokensDrawn /\ LedgerStarted /\ [Next]_vars => LedgerStarted'
<1> SUFFICES ASSUME TypeOK, TokensDrawn, LedgerStarted, [Next]_vars,
                    NEW t \in ledger' \cup stray'
             PROVE  Started(t)'
  BY DEF LedgerStarted
<1>1. t \in Ids
  BY TypeStep DEF TypeOK, StoreTypeOK
<1>2. ASSUME NEW w \in Lanes, t \in Batch(w)
      PROVE  Started(t)
  <2>1. held[w][t] \in Nat /\ held[w][t] # 0 /\ row[t].attempts \in Nat
    BY <1>1, <1>2 DEF Batch, TypeOK, StoreTypeOK, Row
  <2>2. held[w][t] <= row[t].attempts
    BY <1>1 DEF TokensDrawn
  <2> QED BY <2>1, <2>2 DEF Started
<1>3. t \in ledger \cup stray \/ \E w \in Lanes : t \in Batch(w)
  <2>1. CASE UNCHANGED <<ledger, stray>>
    BY <2>1
  <2>2. CASE StoreStep /\ UNCHANGED <<authorityVars, laneVars>>
    BY <2>2 DEF StoreStep, BeginInitiate, CommitInitiate, ReceiveCallback, laneVars
  <2>3. CASE AuthorityStep /\ UNCHANGED laneVars
    BY <2>3 DEF AuthorityStep, OpenCase, RequestRemediation, ApproveRemediation,
                RejectRemediation, RequestHeadResolution, ApproveHeadResolution,
                RejectHeadResolution, storeVars, laneVars
  <2>4. CASE LaneStep /\ UNCHANGED authorityVars
    BY <2>4 DEF LaneStep, Dispatch, Claim, Submit, BuildFails, Answer, LoseAnswer, Finalize,
                GiveBack, GoDown, RefuseStale, LaneError, StopIdle, Crash, Restart,
                LandStray, LeaseExpires, storeVars
  <2> QED BY <2>1, <2>2, <2>3, <2>4 DEF Next, vars, storeVars, laneVars
<1>4. Started(t)
  BY <1>2, <1>3 DEF LedgerStarted
<1> QED BY <1>1, <1>4, StartsByClaim

LEMMA OrderInvInit == Init => OrderInv
<1> SUFFICES ASSUME Init PROVE OrderInv
  OBVIOUS
<1>1. /\ \A t \in Ids : row[t] = NoRow /\ kase[t] = NoCase /\ head[t] = NoHead
      /\ ledger = {} /\ stray = {}
  BY DEF Init, StoreInit, AuthorityInit
<1>2. OpenMarked /\ StartedInOrder /\ RowsStarted
  BY <1>1 DEF OpenMarked, StartedInOrder, RowsStarted, Started, NoRow
<1>3. ReplacedInOrder
  BY <1>1 DEF ReplacedInOrder, Started, NoRow
<1>4. ReplacementsDistinct /\ ResolvedPosted
  BY <1>1 DEF ReplacementsDistinct, ResolvedPosted, NoCase, NoHead
<1>5. LedgerStarted
  BY <1>1 DEF LedgerStarted
<1> QED BY <1>2, <1>3, <1>4, <1>5 DEF OrderInv

LEMMA OrderAlways == Spec => []OrderInv
<1>1. TypeOK /\ ClaimsInv /\ AuthorityInv /\ OrderInv /\ [Next]_vars => OrderInv'
  BY OpenMarkedStep, StartedStep, ReplacedStep, DistinctStep, ResolvedStep,
     RowsStartedStep, LedgerStartedStep
     DEF OrderInv, ClaimsInv, AuthorityInv
<1> QED BY <1>1, OrderInvInit, TypeCorrect, ClaimsAlways, AuthorityAlways, PTL DEF Spec

LEMMA PassedIsPosted ==
  ASSUME TypeOK, SettledOnce, ResolvedPosted, NEW e \in Ids, NEW c \in Ids, Passed(e, c)
  PROVE  e \in ledger \/ Excused(e, c)
<1> USE DEF Excused
<1>1. CASE row[e].status = "delivered"
  BY <1>1 DEF SettledOnce
<1>2. CASE e \in overtaken
  BY <1>2
<1>3. CASE \E t \in Ids : Supersedes(c, t) /\ row[e].id > row[t].id
  <2>1. PICK t \in Ids : Supersedes(c, t) /\ row[e].id > row[t].id
    BY <1>3
  <2>2. row[t].id < row[e].id
    BY <2>1 DEF TypeOK, StoreTypeOK, Row
  <2> QED BY <2>1, <2>2
<1>4. CASE head[e].state = "approved" /\ head[e].disposition # "not_committed_superseded"
  BY <1>4 DEF ResolvedPosted
<1>5. CASE Remediation(e) = c
  BY <1>5
<1>6. CASE Remediation(e) # NoTransfer /\ row[Remediation(e)].status = "delivered"
  <2>1. Remediation(e) \in Ids
    <3>1. kase[e] \in Case
      BY DEF TypeOK, AuthorityTypeOK
    <3> QED BY <1>6, <3>1 DEF Remediation, Case, Ids
  <2>2. Remediation(e) \in ledger
    BY <1>6, <2>1 DEF SettledOnce
  <2> QED BY <2>2
<1> QED BY <1>1, <1>2, <1>3, <1>4, <1>5, <1>6 DEF Passed, PredecessorBlocks

\* One payer's debits reach the ledger in the order of their rows, save for what
\* overtook and what an administrator released: for any number of lanes, crashes,
\* lost answers and requests that land after their lane is gone, the order the
\* claim establishes is the order of the postings.
THEOREM StreamsInOrder == Spec => []StreamOrder
<1>1. TypeOK /\ SettledOnce /\ OrderInv => StreamOrder
  <2> SUFFICES ASSUME TypeOK, SettledOnce, OrderInv, NEW e \in Ids, NEW c \in Ids,
                      Visible(e), SameStream(e, c), row[e].id < row[c].id, c \in ledger
               PROVE  e \in ledger \/ Excused(e, c)
    BY DEF StreamOrder
  <2>1. Started(c)
    BY DEF OrderInv, LedgerStarted
  <2>2. Passed(e, c)
    BY <2>1 DEF OrderInv, StartedInOrder
  <2> QED BY <2>2, PassedIsPosted DEF OrderInv
<1> QED BY <1>1, TypeCorrect, Settlement, OrderAlways, PTL

\* A row being worked on lets a later one go only where that one stands in the
\* place of an older head.
LEMMA InFlightPassed ==
  ASSUME HeadsOfDeadLetters, NEW e \in Ids, NEW c \in Ids,
         row[e].status = "processing", Passed(e, c)
  PROVE  e \in overtaken \/ \E t \in Ids : Supersedes(c, t) /\ row[e].id > row[t].id
<1>1. head[e].state # "approved"
  BY DEF HeadsOfDeadLetters
<1> QED BY <1>1 DEF Passed, PredecessorBlocks

LEMMA InFlightAlone ==
  ASSUME TypeOK, AuthorityInv, OrderInv, NEW e \in Ids, NEW c \in Ids,
         row[e].status = "processing", row[c].status = "processing",
         SameStream(e, c), row[e].id < row[c].id, e \notin overtaken
  PROVE  \E t \in overtaken : Supersedes(c, t)
<1> USE DEF Visible
<1>0. \A s \in Ids : row[s].id \in Nat
  BY DEF TypeOK, StoreTypeOK, Row
<1>1. Started(e) /\ Started(c)
  BY DEF OrderInv, RowsStarted
<1>2. Passed(e, c)
  BY <1>1 DEF OrderInv, StartedInOrder
<1>3. PICK t \in Ids : Supersedes(c, t) /\ row[e].id > row[t].id
  BY <1>2, InFlightPassed DEF AuthorityInv
<1>4. row[t].status = "dead_letter" /\ SameStream(t, c) /\ row[t].id < row[e].id
  BY <1>0, <1>3 DEF Supersedes, AuthorityInv, ReplacementPlaced
<1>5. Passed(t, e)
  BY <1>1, <1>4 DEF OrderInv, StartedInOrder, SameStream
<1>6. CASE t \in overtaken
  BY <1>3, <1>6
<1>7. CASE t \notin overtaken
  <2>1. ~PredecessorBlocks(t, e)
    BY <1>4, <1>5, <1>7 DEF Passed
  <2>2. e # c
    BY <1>0
  <2>3. PICK u \in Ids : Supersedes(e, u) /\ row[t].id > row[u].id
    BY <1>3, <2>1, <2>2 DEF PredecessorBlocks, Supersedes
  <2>4. /\ Remediation(u) = e /\ row[u].status = "dead_letter" /\ SameStream(u, e)
    BY <2>3 DEF Supersedes, AuthorityInv, ReplacementPlaced
  <2>5. ~PredecessorBlocks(u, c)
    BY <1>1, <2>4 DEF OrderInv, ReplacedInOrder, SameStream
  <2>6. PICK w \in Ids : Supersedes(c, w) /\ row[u].id > row[w].id
    BY <2>2, <2>3, <2>4, <2>5 DEF PredecessorBlocks, Supersedes
  <2>7. w = t
    <3>1. Remediation(w) = c /\ Remediation(t) = c /\ c # NoTransfer
      BY <1>3, <2>6, AuthorityAssumption DEF Supersedes
    <3>2. kase[w].replacement = c /\ kase[t].replacement = c
      BY <3>1 DEF Remediation
    <3> QED BY <3>1, <3>2 DEF OrderInv, ReplacementsDistinct
  <2> QED BY <1>0, <2>3, <2>6, <2>7
<1> QED BY <1>6, <1>7

\* Two lanes never work one payer's stream at the same time, save where one of
\* the rows was overtaken, or replaces a head that was: for any number of lanes,
\* processes, takeovers and replacements of replacements.
THEOREM StreamsOneAtATime == Spec => []OneInFlight
<1>1. TypeOK /\ AuthorityInv /\ OrderInv => OneInFlight
  BY InFlightAlone DEF OneInFlight
<1> QED BY <1>1, TypeCorrect, AuthorityAlways, OrderAlways, PTL
=============================================================================
