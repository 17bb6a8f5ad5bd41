--------------------------- MODULE Fleet_proofs ----------------------------
(***************************************************************************)
(* Proofs about three components that keep a promise about every step: the *)
(* prevent-next-start control, for any operators, workers that overlap and *)
(* crash, cases and contracts; the ingestion of a tracker feed; and the    *)
(* dispatch of webhooks.  The last part puts them beside the stock bridge. *)
(***************************************************************************)
EXTENDS MCFleet, InventoryBridge_proofs, TLAPS

---------------------------------------------------------------------------
(* The rows.                                                               *)

WorkerState == [at : {"idle", "claimed", "marked", "accepted", "refused"},
                case : Cases \cup {Nobody}]

\* A worker that is not idle works on a case.
RowTypes ==
  /\ kase \in [Cases -> Case]
  /\ command \in [Cases -> Command]
  /\ worker \in [Workers -> WorkerState]
  /\ sent \in [Cases -> Nat]
  /\ \A w \in Workers : worker[w].at # "idle" => worker[w].case \in Cases

\* The state of a command follows the state of its case, and both tables keep
\* their constraints: no write that would make either fail or cancelled commits.
Follows(c, cases, commands) ==
  /\ CaseHolds(cases[c]) /\ CommandHolds(commands[c])
  /\ \/ cases[c].state \in {"none", "requested"} /\ commands[c].state = "none"
     \/ cases[c].state = "authorized" /\ commands[c].state \in {"authorized", "claimed"}
     \/ /\ cases[c].state \in {"dispatched", "acknowledged"}
        /\ commands[c].state = cases[c].state

\* What a transaction that moves the rows of case c has written.
Moves(c, caseRow, commandRow) ==
  /\ kase' = [kase EXCEPT ![c] = caseRow]
  /\ command' = [command EXCEPT ![c] = commandRow]
  /\ CaseHolds(caseRow) /\ CommandHolds(commandRow)

LEMMA WriteMoves ==
  ASSUME NEW c, NEW caseRow, NEW commandRow, Write(c, caseRow, commandRow)
  PROVE  Moves(c, caseRow, commandRow) \/ UNCHANGED rowVars
BY DEF Write, Moves

\* A row whose user is set cannot be cancelled or failed.
LEMMA NeverClosed ==
  ASSUME NEW row \in Case, CaseHolds(row), row.state \in OpenStates,
         NEW state \in {"cancelled", "failed"}
  PROVE  ~CaseHolds([row EXCEPT !.state = state])
<1>1. [row EXCEPT !.state = state].state = state
  BY DEF Case
<1>2. [row EXCEPT !.state = state].requestedBy = row.requestedBy
  BY DEF Case
<1> QED BY <1>1, <1>2 DEF CaseHolds, OpenStates

\* The forms the rows take.
LEMMA CaseForms ==
  ASSUME NEW row \in Case, NEW o \in Operators, NEW i \in 0 .. MaxSignals,
         NEW state \in OpenStates \cup {"acknowledged"}
  PROVE  /\ [row EXCEPT !.state = state] \in Case
         /\ [row EXCEPT !.state = state].state = state
         /\ [row EXCEPT !.state = "authorized", !.authorizedBy = o] \in Case
         /\ [row EXCEPT !.state = "authorized", !.authorizedBy = o].state = "authorized"
         /\ [NoCase EXCEPT !.state = "requested", !.requestedBy = o, !.signal = i] \in Case
         /\ [NoCase EXCEPT !.state = "requested", !.requestedBy = o, !.signal = i].state
              = "requested"
BY DEF Case, NoCase, OpenStates

LEMMA CommandForms ==
  ASSUME NEW row \in Command, NEW w \in Workers
  PROVE  /\ [NoCommand EXCEPT !.state = "authorized"] \in Command
         /\ [NoCommand EXCEPT !.state = "authorized"].state = "authorized"
         /\ [row EXCEPT !.state = "claimed", !.claimToken = w] \in Command
         /\ [row EXCEPT !.state = "claimed", !.claimToken = w].state = "claimed"
         /\ [row EXCEPT !.state = "dispatched", !.dispatchedAt = TRUE] \in Command
         /\ [row EXCEPT !.state = "dispatched", !.dispatchedAt = TRUE].state = "dispatched"
         /\ [row EXCEPT !.state = "dispatched", !.dispatchedAt = TRUE].claimToken
              = row.claimToken
         /\ [row EXCEPT !.state = "acknowledged"] \in Command
         /\ [row EXCEPT !.state = "acknowledged"].state = "acknowledged"
BY DEF Command, NoCommand

---------------------------------------------------------------------------
(* The life of a case: what one step does to its rows, whoever takes it.   *)

Kept(c) == kase'[c] = kase[c] /\ command'[c] = command[c]

Requested(c) ==
  /\ kase[c].state = "none" /\ kase'[c].state = "requested"
  /\ kase'[c].signal \in DOMAIN payments[ContractOf[c]]
  /\ OthersOpen(c) = {}
  /\ command'[c] = command[c]

Authorized(c) ==
  /\ kase[c].state = "requested" /\ kase'[c].state = "authorized"
  /\ kase'[c].signal = kase[c].signal
  /\ command'[c].state = "authorized"

Claimed(c) ==
  /\ command[c].state = "authorized" /\ command'[c].state = "claimed"
  /\ kase'[c] = kase[c]

Marked(c) ==
  /\ command[c].state = "claimed" /\ command'[c].state = "dispatched"
  /\ kase'[c].state = "dispatched"
  /\ kase'[c].signal = kase[c].signal
  /\ Interlocks(c)
  /\ \E w \in Workers :
       /\ worker[w] = [at |-> "claimed", case |-> c]
       /\ worker'[w] = [at |-> "marked", case |-> c]
       /\ command[c].claimToken = w /\ command'[c].claimToken = w

Acknowledged(c) ==
  /\ command[c].state = "dispatched" /\ command'[c].state = "acknowledged"
  /\ kase'[c].state = "acknowledged"
  /\ kase'[c].signal = kase[c].signal
  /\ \E w \in Workers :
       /\ worker[w] = [at |-> "accepted", case |-> c]
       /\ worker'[w] = IdleWorker
       /\ command[c].claimToken = w

CaseLife(c) ==
  \/ Kept(c) \/ Requested(c) \/ Authorized(c) \/ Claimed(c) \/ Marked(c) \/ Acknowledged(c)

LifeInv == RowTypes /\ \A c \in Cases : Follows(c, kase, command)

\* The life of every case but one is kept when the rows of one move.
LEMMA OneMoves ==
  ASSUME RowTypes, NEW c \in Cases, NEW caseRow \in Case, NEW commandRow \in Command,
         Moves(c, caseRow, commandRow)
  PROVE  /\ kase'[c] = caseRow /\ command'[c] = commandRow
         /\ \A d \in Cases \ {c} : Kept(d)
         /\ kase' \in [Cases -> Case] /\ command' \in [Cases -> Command]
         /\ CaseHolds(kase'[c]) /\ CommandHolds(command'[c])
BY DEF RowTypes, Moves, Kept

\* What a step shows of the rows.
RowStep ==
  /\ kase' \in [Cases -> Case] /\ command' \in [Cases -> Command]
  /\ \A c \in Cases :
       /\ CaseLife(c)
       /\ \/ Kept(c)
          \/ CaseHolds(kase'[c]) /\ CommandHolds(command'[c])
  /\ \A c, d \in Cases : c # d => Kept(c) \/ Kept(d)

LEMMA KeptRows ==
  ASSUME RowTypes, UNCHANGED rowVars
  PROVE  RowStep
<1>1. kase' = kase /\ command' = command
  BY DEF rowVars
<1>2. ASSUME NEW c \in Cases
      PROVE  CaseLife(c) /\ Kept(c)
  BY <1>1 DEF Kept, CaseLife
<1> QED BY <1>1, <1>2 DEF RowTypes, RowStep

LEMMA RowsOf ==
  ASSUME LifeInv, [ControlNext]_controlVars
  PROVE  RowStep
<1> USE DEF LifeInv
<1>1. CASE UNCHANGED rowVars
  BY <1>1, KeptRows
<1>2. ASSUME NEW c \in Cases, NEW caseRow \in Case, NEW commandRow \in Command,
             Moves(c, caseRow, commandRow),
             kase'[c] = caseRow /\ command'[c] = commandRow => CaseLife(c)
      PROVE  RowStep
  <2>1. /\ kase'[c] = caseRow /\ command'[c] = commandRow
        /\ \A d \in Cases \ {c} : Kept(d)
        /\ kase' \in [Cases -> Case] /\ command' \in [Cases -> Command]
        /\ CaseHolds(kase'[c]) /\ CommandHolds(command'[c])
    BY <1>2, OneMoves
  <2>2. CaseLife(c)
    BY <1>2, <2>1
  <2>3. ASSUME NEW d \in Cases \ {c}
        PROVE  CaseLife(d) /\ Kept(d)
    BY <2>1 DEF CaseLife, Kept
  <2> QED BY <2>1, <2>2, <2>3 DEF RowStep
<1>3. ASSUME NEW c \in Cases, NEW state \in {"cancelled", "failed"}, NEW commandRow,
             kase[c].state \in OpenStates,
             Write(c, [kase[c] EXCEPT !.state = state], commandRow)
      PROVE  UNCHANGED rowVars
  <2>1. kase[c] \in Case /\ CaseHolds(kase[c])
    BY DEF RowTypes, Follows
  <2> QED BY <1>3, <2>1, NeverClosed DEF Write
<1>4. ASSUME NEW o \in Operators, NEW c \in Cases, NEW i \in 1 .. MaxSignals,
             RequestControl(o, c, i)
      PROVE  RowStep
  <2> DEFINE new == [NoCase EXCEPT !.state = "requested", !.requestedBy = o, !.signal = i]
  <2>1. new \in Case /\ new.state = "requested" /\ command[c] \in Command
    <3>1. i \in 0 .. MaxSignals
      BY ControlAssumption
    <3>2. kase[c] \in Case /\ "requested" \in OpenStates \cup {"acknowledged"}
      BY DEF RowTypes, OpenStates
    <3> QED BY <3>1, <3>2, CaseForms DEF RowTypes
  <2>2. CaseHolds(new) /\ CommandHolds(command[c])
    BY ControlAssumption DEF Follows, CaseHolds, NoCase, OpenStates
  <2>3. Moves(c, new, command[c])
    <3>1. command' = [command EXCEPT ![c] = command[c]]
      BY <1>4 DEF RequestControl, RowTypes
    <3> QED BY <1>4, <2>2, <3>1 DEF RequestControl, Moves
  <2>4. /\ kase[c].state = "none" /\ OthersOpen(c) = {}
        /\ new.signal \in DOMAIN payments[ContractOf[c]]
    BY <1>4 DEF RequestControl, NoCase
  <2> HIDE DEF new
  <2> QED BY <1>2, <2>1, <2>3, <2>4 DEF CaseLife, Requested
<1>5. ASSUME NEW o \in Operators, NEW c \in Cases, AuthorizeControl(o, c)
      PROVE  RowStep
  <2> DEFINE caseRow == [kase[c] EXCEPT !.state = "authorized", !.authorizedBy = o]
             commandRow == [NoCommand EXCEPT !.state = "authorized"]
  <2>1. caseRow \in Case /\ caseRow.state = "authorized" /\ caseRow.signal = kase[c].signal
    <3>1. kase[c] \in Case /\ 0 \in 0 .. MaxSignals /\ "requested" \in OpenStates
      BY ControlAssumption DEF RowTypes, OpenStates
    <3> QED BY <3>1, CaseForms DEF Case
  <2>2. commandRow \in Command /\ commandRow.state = "authorized"
    BY DEF Command, NoCommand
  <2>3. Moves(c, caseRow, commandRow) \/ UNCHANGED rowVars
    BY <1>5, WriteMoves DEF AuthorizeControl
  <2>4. kase[c].state = "requested"
    BY <1>5 DEF AuthorizeControl
  <2> HIDE DEF caseRow, commandRow
  <2> QED BY <1>1, <1>2, <2>1, <2>2, <2>3, <2>4 DEF CaseLife, Authorized
<1>6. ASSUME NEW c \in Cases, CancelControl(c)
      PROVE  RowStep
  <2>1. PICK commandRow : Write(c, [kase[c] EXCEPT !.state = "cancelled"], commandRow)
    BY <1>6 DEF CancelControl
  <2>2. kase[c].state \in OpenStates
    BY <1>6 DEF CancelControl, OpenStates
  <2> QED BY <1>1, <1>3, <2>1, <2>2
<1>7. ASSUME NEW w \in Workers, NEW c \in Cases, ClaimCommand(w, c)
      PROVE  RowStep
  <2> DEFINE commandRow == [command[c] EXCEPT !.state = "claimed", !.claimToken = w]
  <2>1. kase[c] \in Case /\ command[c] \in Command
    BY DEF RowTypes
  <2>2. commandRow \in Command /\ commandRow.state = "claimed"
    BY <2>1, CommandForms
  <2>3. Moves(c, kase[c], commandRow) \/ UNCHANGED rowVars
    BY <1>7, WriteMoves DEF ClaimCommand
  <2>4. command[c].state = "authorized"
    BY <1>7 DEF ClaimCommand
  <2> HIDE DEF commandRow
  <2> QED BY <1>1, <1>2, <2>1, <2>2, <2>3, <2>4 DEF CaseLife, Claimed
<1>8. ASSUME NEW w \in Workers
      PROVE  /\ worker[w] \in WorkerState
             /\ worker[w].at # "idle" => worker[w].case \in Cases
             /\ worker[w] = [at |-> worker[w].at, case |-> worker[w].case]
  BY DEF RowTypes, WorkerState
<1>9. ASSUME NEW w \in Workers, GiveUpUnsent(w)
      PROVE  RowStep
  <2> DEFINE c == worker[w].case
  <2>1. c \in Cases
    BY <1>8, <1>9 DEF GiveUpUnsent
  <2>2. CASE ~Held(w, "claimed")
    BY <1>1, <1>9, <2>2 DEF GiveUpUnsent
  <2>3. CASE Held(w, "claimed")
    <3>1. kase[c].state \in OpenStates
      BY <2>1, <2>3 DEF Held, Follows, OpenStates
    <3>2. Write(c, [kase[c] EXCEPT !.state = "failed"], [command[c] EXCEPT !.state = "failed"])
      BY <1>9, <2>3 DEF GiveUpUnsent
    <3> HIDE DEF c
    <3> QED BY <1>1, <1>3, <2>1, <3>1, <3>2
  <2> QED BY <2>2, <2>3
<1>10. ASSUME NEW w \in Workers, MarkDispatched(w)
       PROVE  RowStep
  <2> DEFINE c == worker[w].case
             caseRow == [kase[c] EXCEPT !.state = "dispatched"]
             commandRow == [command[c] EXCEPT !.state = "dispatched", !.dispatchedAt = TRUE]
  <2>1. c \in Cases /\ kase[c] \in Case /\ command[c] \in Command
    BY <1>8, <1>10 DEF MarkDispatched, RowTypes
  <2>2. caseRow \in Case /\ caseRow.state = "dispatched" /\ caseRow.signal = kase[c].signal
    BY <2>1 DEF Case, OpenStates
  <2>3. commandRow \in Command /\ commandRow.state = "dispatched"
        /\ commandRow.claimToken = command[c].claimToken
    BY <2>1, CommandForms
  <2>4. CASE ~(Held(w, "claimed") /\ Interlocks(c))
    BY <1>1, <1>10, <2>4 DEF MarkDispatched
  <2>5. CASE Held(w, "claimed") /\ Interlocks(c)
    <3>1. Moves(c, caseRow, commandRow) \/ UNCHANGED rowVars
      BY <1>10, <2>5, WriteMoves DEF MarkDispatched
    <3>2. /\ worker[w] = [at |-> "claimed", case |-> c]
          /\ worker'[w] = [at |-> "marked", case |-> c]
          /\ command[c].state = "claimed" /\ command[c].claimToken = w
      <4>1. worker[w] = [at |-> "claimed", case |-> c]
        BY <1>8, <1>10 DEF MarkDispatched
      <4>2. worker' = [worker EXCEPT ![w].at = "marked"]
        BY <1>10, <2>5 DEF MarkDispatched
      <4>3. worker'[w] = [at |-> "marked", case |-> c]
        BY <4>1, <4>2 DEF RowTypes
      <4> QED BY <2>5, <4>1, <4>3 DEF Held
    <3>3. Interlocks(c)
      BY <2>5
    <3> HIDE DEF c, caseRow, commandRow
    <3>4. ASSUME kase'[c] = caseRow, command'[c] = commandRow
          PROVE  CaseLife(c)
      BY <2>2, <2>3, <3>2, <3>3, <3>4 DEF CaseLife, Marked
    <3> QED BY <1>1, <1>2, <2>1, <2>2, <2>3, <3>1, <3>4
  <2> QED BY <2>4, <2>5
<1>11. ASSUME NEW w \in Workers, Complete(w)
       PROVE  RowStep
  <2> DEFINE c == worker[w].case
             caseRow == [kase[c] EXCEPT !.state = "acknowledged"]
             commandRow == [command[c] EXCEPT !.state = "acknowledged"]
  <2>1. c \in Cases /\ kase[c] \in Case /\ command[c] \in Command
    BY <1>8, <1>11 DEF Complete, RowTypes
  <2>2. caseRow \in Case /\ caseRow.state = "acknowledged" /\ caseRow.signal = kase[c].signal
    BY <2>1 DEF Case, OpenStates
  <2>3. commandRow \in Command /\ commandRow.state = "acknowledged"
    BY <2>1, CommandForms
  <2>4. CASE ~Held(w, "dispatched")
    BY <1>1, <1>11, <2>4 DEF Complete
  <2>5. CASE Held(w, "dispatched") /\ worker[w].at = "refused"
    <3>1. kase[c].state \in OpenStates
      BY <2>1, <2>5 DEF Held, Follows, OpenStates
    <3>2. Write(c, [kase[c] EXCEPT !.state = "failed"], [command[c] EXCEPT !.state = "failed"])
      BY <1>11, <2>5 DEF Complete
    <3> HIDE DEF c
    <3> QED BY <1>1, <1>3, <2>1, <3>1, <3>2
  <2>6. CASE Held(w, "dispatched") /\ worker[w].at = "accepted"
    <3>1. Moves(c, caseRow, commandRow) \/ UNCHANGED rowVars
      BY <1>11, <2>6, WriteMoves DEF Complete
    <3>2. /\ worker[w] = [at |-> "accepted", case |-> c]
          /\ worker'[w] = IdleWorker
          /\ command[c].state = "dispatched" /\ command[c].claimToken = w
      BY <1>8, <1>11, <2>6 DEF Complete, Held, RowTypes
    <3> HIDE DEF c, caseRow, commandRow
    <3>3. ASSUME kase'[c] = caseRow, command'[c] = commandRow
          PROVE  CaseLife(c)
      BY <2>2, <2>3, <3>2, <3>3 DEF CaseLife, Acknowledged
    <3> QED BY <1>1, <1>2, <2>1, <2>2, <2>3, <3>1, <3>3
  <2> QED BY <1>11, <2>4, <2>5, <2>6 DEF Complete
<1> QED
  BY <1>1, <1>4, <1>5, <1>6, <1>7, <1>9, <1>10, <1>11
     DEF ControlNext, controlVars, rowVars, RecordPayment, Drive, Expire, Send, LoseWorker
---------------------------------------------------------------------------
(* What is kept of the rows, the workers and what was sent.                *)

\* A worker that marked a command holds it until it has reported the answer: it
\* alone has the claim, and it sends once.
Custody(w, r, commands, sends) ==
  /\ r.at \in {"marked", "accepted", "refused"} =>
       commands[r.case].state = "dispatched" /\ commands[r.case].claimToken = w
  /\ r.at = "marked" => sends[r.case] = 0
  /\ r.at \in {"accepted", "refused"} => sends[r.case] = 1

AllCustody == \A w \in Workers : Custody(w, worker[w], command, sent)

SentIsDispatched(row, requests) ==
  /\ requests \in {0, 1}
  /\ requests = 1 => row.state \in {"dispatched", "acknowledged"}
  /\ row.state = "acknowledged" => requests = 1

AllDispatched == \A c \in Cases : SentIsDispatched(command[c], sent[c])

\* The unique index on the open cases of a contract.
OneOpenCase ==
  \A c, d \in Cases :
    c # d /\ ContractOf[c] = ContractOf[d]
      => kase[c].state \notin OpenStates \/ kase[d].state \notin OpenStates

ControlInv ==
  /\ LifeInv
  /\ OneOpenCase
  /\ AllCustody
  /\ AllDispatched

LEMMA RowTypesStep == LifeInv /\ [ControlNext]_controlVars => RowTypes'
<1> SUFFICES ASSUME LifeInv, [ControlNext]_controlVars
             PROVE  RowTypes'
  OBVIOUS
<1>1. kase' \in [Cases -> Case] /\ command' \in [Cases -> Command]
  BY RowsOf DEF RowStep
<1>2. /\ worker \in [Workers -> WorkerState] /\ sent \in [Cases -> Nat]
      /\ \A w \in Workers : worker[w].at # "idle" => worker[w].case \in Cases
  BY DEF LifeInv, RowTypes
<1>3. ASSUME NEW w \in Workers, NEW r \in WorkerState,
             r.at # "idle" => r.case \in Cases,
             worker' = [worker EXCEPT ![w] = r], sent' \in [Cases -> Nat]
      PROVE  RowTypes'
  BY <1>1, <1>2, <1>3 DEF RowTypes
<1>4. CASE UNCHANGED <<worker, sent>>
  BY <1>1, <1>2, <1>4 DEF RowTypes
<1>5. IdleWorker \in WorkerState /\ IdleWorker.at = "idle"
  BY DEF IdleWorker, WorkerState
<1>6. ASSUME NEW w \in Workers, NEW at \in {"marked", "accepted", "refused"}
      PROVE  [worker[w] EXCEPT !.at = at] \in WorkerState
             /\ [worker[w] EXCEPT !.at = at].case = worker[w].case
  BY <1>2 DEF WorkerState
<1>7. ASSUME NEW w \in Workers, worker' = [worker EXCEPT ![w] = IdleWorker],
             sent' \in [Cases -> Nat]
      PROVE  RowTypes'
  BY <1>3, <1>5, <1>7
<1>8. ASSUME NEW w \in Workers, NEW at \in {"marked", "accepted", "refused"},
             worker[w].case \in Cases,
             worker' = [worker EXCEPT ![w].at = at], sent' \in [Cases -> Nat]
      PROVE  RowTypes'
  <2>1. worker' = [worker EXCEPT ![w] = [worker[w] EXCEPT !.at = at]]
    BY <1>8
  <2> QED BY <1>3, <1>6, <1>8, <2>1
<1>9. ASSUME NEW w \in Workers, NEW c \in Cases, ClaimCommand(w, c)
      PROVE  RowTypes'
  <2> DEFINE r == [at |-> "claimed", case |-> c]
  <2>1. r \in WorkerState /\ r.case \in Cases
    BY DEF WorkerState
  <2>2. worker' = [worker EXCEPT ![w] = r] /\ sent' = sent
    BY <1>9 DEF ClaimCommand
  <2> HIDE DEF r
  <2> QED BY <1>2, <1>3, <2>1, <2>2
<1>10. ASSUME NEW w \in Workers, MarkDispatched(w)
       PROVE  RowTypes'
  <2>1. worker[w].case \in Cases /\ sent' = sent
    BY <1>2, <1>10 DEF MarkDispatched
  <2> QED BY <1>2, <1>7, <1>8, <1>10, <2>1 DEF MarkDispatched
<1>11. ASSUME NEW w \in Workers, Send(w)
       PROVE  RowTypes'
  <2>1. worker[w].case \in Cases
    BY <1>2, <1>11 DEF Send
  <2>2. sent' \in [Cases -> Nat]
    BY <1>2, <1>11, <2>1 DEF Send
  <2>3. CASE worker' = [worker EXCEPT ![w] = IdleWorker]
    BY <1>7, <2>2, <2>3
  <2>4. ASSUME NEW answer \in {"accepted", "refused"},
               worker' = [worker EXCEPT ![w].at = answer]
        PROVE  RowTypes'
    BY <1>8, <2>1, <2>2, <2>4
  <2> QED BY <1>11, <2>3, <2>4 DEF Send
<1>12. ASSUME NEW w \in Workers, GiveUpUnsent(w) \/ Complete(w) \/ LoseWorker(w)
       PROVE  RowTypes'
  BY <1>2, <1>7, <1>12 DEF GiveUpUnsent, Complete, LoseWorker
<1> QED
  BY <1>4, <1>9, <1>10, <1>11, <1>12
     DEF ControlNext, controlVars, RecordPayment, Drive, Expire, RequestControl,
         AuthorizeControl, CancelControl

LEMMA FollowsStep ==
  LifeInv /\ [ControlNext]_controlVars => \A c \in Cases : Follows(c, kase', command')
<1> SUFFICES ASSUME LifeInv, [ControlNext]_controlVars, NEW c \in Cases
             PROVE  Follows(c, kase', command')
  OBVIOUS
<1>1. /\ CaseLife(c)
      /\ \/ Kept(c)
         \/ CaseHolds(kase'[c]) /\ CommandHolds(command'[c])
  BY RowsOf DEF RowStep
<1>2. Follows(c, kase, command)
  BY DEF LifeInv
<1>3. CaseHolds(kase'[c]) /\ CommandHolds(command'[c])
  BY <1>1, <1>2 DEF Kept, Follows
<1>4. CASE Kept(c)
  BY <1>2, <1>4 DEF Kept, Follows
<1>5. CASE Requested(c) \/ Authorized(c) \/ Claimed(c) \/ Marked(c) \/ Acknowledged(c)
  BY <1>2, <1>3, <1>5 DEF Requested, Authorized, Claimed, Marked, Acknowledged, Follows
<1> QED BY <1>1, <1>4, <1>5 DEF CaseLife

LEMMA OneOpenCaseStep ==
  LifeInv /\ OneOpenCase /\ [ControlNext]_controlVars => OneOpenCase'
<1> SUFFICES ASSUME LifeInv, OneOpenCase, [ControlNext]_controlVars
             PROVE  OneOpenCase'
  OBVIOUS
<1>1. ASSUME NEW c \in Cases, kase'[c].state \in OpenStates
      PROVE  kase[c].state \in OpenStates \/ Requested(c)
  <2>1. CaseLife(c) /\ Follows(c, kase, command)
    BY RowsOf DEF RowStep, LifeInv
  <2>2. CASE Kept(c) \/ Claimed(c)
    BY <1>1, <2>2 DEF Kept, Claimed
  <2>3. CASE Authorized(c) \/ Marked(c) \/ Acknowledged(c)
    BY <2>1, <2>3 DEF Authorized, Marked, Acknowledged, Follows, OpenStates
  <2> QED BY <2>1, <2>2, <2>3 DEF CaseLife
<1>2. ASSUME NEW c \in Cases, NEW d \in Cases, c # d, ContractOf[c] = ContractOf[d],
             Requested(c)
      PROVE  kase[d].state \notin OpenStates
  BY <1>2 DEF Requested, OthersOpen
<1>3. ASSUME NEW c \in Cases, NEW d \in Cases, c # d, Requested(c), Requested(d)
      PROVE  FALSE
  <2>1. Kept(c) \/ Kept(d)
    BY <1>3, RowsOf DEF RowStep
  <2> QED BY <1>3, <2>1 DEF Kept, Requested
<1> SUFFICES ASSUME NEW c \in Cases, NEW d \in Cases, c # d, ContractOf[c] = ContractOf[d],
                    kase'[c].state \in OpenStates, kase'[d].state \in OpenStates
             PROVE  FALSE
  BY DEF OneOpenCase
<1>4. CASE Requested(c)
  BY <1>1, <1>2, <1>3, <1>4
<1>5. CASE Requested(d)
  BY <1>1, <1>2, <1>3, <1>5
<1>6. CASE kase[c].state \in OpenStates /\ kase[d].state \in OpenStates
  BY <1>6 DEF OneOpenCase
<1> QED BY <1>1, <1>4, <1>5, <1>6

\* The sending.  A worker's step moves no other worker, and the rows of a case leave
\* dispatched only by the worker that has the claim.
LEMMA CustodyStep ==
  ControlInv /\ [ControlNext]_controlVars => AllCustody' /\ AllDispatched'
<1> SUFFICES ASSUME ControlInv, [ControlNext]_controlVars
             PROVE  AllCustody' /\ AllDispatched'
  OBVIOUS
<1>1. /\ worker \in [Workers -> WorkerState] /\ sent \in [Cases -> Nat]
      /\ \A w \in Workers : worker[w].at # "idle" => worker[w].case \in Cases
      /\ \A w \in Workers : worker[w].at \in {"idle", "claimed", "marked", "accepted", "refused"}
  BY DEF ControlInv, LifeInv, RowTypes, WorkerState
<1>2. ASSUME NEW c \in Cases
      PROVE  CaseLife(c) /\ SentIsDispatched(command[c], sent[c])
  BY RowsOf DEF RowStep, ControlInv, AllDispatched
<1>3. ASSUME NEW w \in Workers
      PROVE  Custody(w, worker[w], command, sent)
  BY DEF ControlInv, AllCustody
<1>4. ASSUME NEW c \in Cases, sent'[c] = sent[c]
      PROVE  SentIsDispatched(command'[c], sent'[c])
  <2>1. CASE Kept(c)
    BY <1>2, <1>4, <2>1 DEF Kept, SentIsDispatched
  <2>2. CASE Requested(c) \/ Authorized(c) \/ Claimed(c)
    <3>1. kase[c].state = "requested" => command[c].state = "none"
      BY DEF ControlInv, LifeInv, Follows
    <3> QED BY <1>2, <1>4, <2>2, <3>1
            DEF Requested, Authorized, Claimed, SentIsDispatched
  <2>3. CASE Marked(c)
    BY <1>2, <1>4, <2>3 DEF Marked, SentIsDispatched
  <2>4. CASE Acknowledged(c)
    <3>1. PICK w \in Workers : worker[w] = [at |-> "accepted", case |-> c]
      BY <2>4 DEF Acknowledged
    <3>2. sent[c] = 1
      BY <1>3, <3>1 DEF Custody
    <3> QED BY <1>4, <2>4, <3>2 DEF Acknowledged, SentIsDispatched
  <2> QED BY <1>2, <2>1, <2>2, <2>3, <2>4 DEF CaseLife
<1>5. ASSUME NEW w \in Workers, worker'[w] = worker[w],
             worker[w].at \in {"marked", "accepted", "refused"} =>
               sent'[worker[w].case] = sent[worker[w].case]
      PROVE  Custody(w, worker'[w], command', sent')
  <2> DEFINE c == worker[w].case
  <2>1. CASE worker[w].at \notin {"marked", "accepted", "refused"}
    BY <1>5, <2>1 DEF Custody
  <2>2. CASE worker[w].at \in {"marked", "accepted", "refused"}
    <3>1. c \in Cases /\ command[c].state = "dispatched" /\ command[c].claimToken = w
      BY <1>1, <1>3, <2>2 DEF Custody
    <3>2. ~Acknowledged(c)
      <4>1. ASSUME NEW v \in Workers, worker[v] = [at |-> "accepted", case |-> c],
                   worker'[v] = IdleWorker, command[c].claimToken = v
            PROVE  FALSE
        BY <1>5, <3>1, <4>1 DEF IdleWorker
      <4> QED BY <4>1 DEF Acknowledged
    <3>3. command'[c] = command[c]
      <4>1. kase[c].state = "dispatched"
        BY <3>1 DEF ControlInv, LifeInv, Follows
      <4>2. CaseLife(c)
        BY <1>2, <3>1
      <4> HIDE DEF c
      <4> QED BY <3>1, <3>2, <4>1, <4>2
              DEF CaseLife, Kept, Requested, Authorized, Claimed, Marked
    <3> QED BY <1>3, <1>5, <2>2, <3>1, <3>3 DEF Custody
  <2> QED BY <2>1, <2>2
<1>6. CASE UNCHANGED <<worker, sent>>
  BY <1>4, <1>5, <1>6 DEF AllCustody, AllDispatched
<1>7. ASSUME NEW w \in Workers, sent' = sent,
             \A v \in Workers \ {w} : worker'[v] = worker[v],
             worker'[w].at \in {"idle", "claimed"}
      PROVE  AllCustody' /\ AllDispatched'
  <2>1. Custody(w, worker'[w], command', sent')
    BY <1>7 DEF Custody
  <2> QED BY <1>4, <1>5, <1>7, <2>1 DEF AllCustody, AllDispatched
<1>8. ASSUME NEW w \in Workers, worker' = [worker EXCEPT ![w] = IdleWorker], sent' = sent
      PROVE  AllCustody' /\ AllDispatched'
  <2>1. worker'[w].at = "idle" /\ \A v \in Workers \ {w} : worker'[v] = worker[v]
    BY <1>1, <1>8 DEF IdleWorker
  <2> QED BY <1>7, <1>8, <2>1
<1>9. ASSUME NEW w \in Workers, NEW c \in Cases, ClaimCommand(w, c)
      PROVE  AllCustody' /\ AllDispatched'
  <2>1. /\ sent' = sent /\ worker'[w].at = "claimed"
        /\ \A v \in Workers \ {w} : worker'[v] = worker[v]
    BY <1>1, <1>9 DEF ClaimCommand
  <2> QED BY <1>7, <2>1
<1>10. ASSUME NEW w \in Workers, MarkDispatched(w)
       PROVE  AllCustody' /\ AllDispatched'
  <2> DEFINE c == worker[w].case
  <2>1. CASE ~(Held(w, "claimed") /\ Interlocks(c))
    BY <1>8, <1>10, <2>1 DEF MarkDispatched
  <2>2. CASE Held(w, "claimed") /\ Interlocks(c)
    <3> DEFINE caseRow == [kase[c] EXCEPT !.state = "dispatched"]
               commandRow == [command[c] EXCEPT !.state = "dispatched", !.dispatchedAt = TRUE]
    <3>1. /\ c \in Cases /\ kase[c] \in Case /\ command[c] \in Command
          /\ command[c].state = "claimed" /\ command[c].claimToken = w
      BY <1>1, <1>10, <2>2 DEF MarkDispatched, Held, ControlInv, LifeInv, RowTypes
    <3>2. /\ CaseHolds(kase[c]) /\ kase[c].state = "authorized"
      BY <3>1 DEF ControlInv, LifeInv, Follows
    <3>3. CaseHolds(caseRow)
      <4>1. /\ caseRow.state = "dispatched"
            /\ caseRow.requestedBy = kase[c].requestedBy
            /\ caseRow.authorizedBy = kase[c].authorizedBy
        BY <3>1 DEF Case
      <4> QED BY <3>2, <4>1 DEF CaseHolds, OpenStates
    <3>4. commandRow.state = "dispatched" /\ commandRow.claimToken = w /\ commandRow.dispatchedAt
      BY <3>1 DEF Command
    <3>5. CommandHolds(commandRow)
      BY <3>4, ControlAssumption DEF CommandHolds
    <3>6. /\ command' = [command EXCEPT ![c] = commandRow]
          /\ worker' = [worker EXCEPT ![w].at = "marked"]
          /\ sent' = sent
      BY <1>10, <2>2, <3>3, <3>5 DEF MarkDispatched, Write
    <3>7. command'[c] = commandRow
      BY <3>1, <3>6 DEF ControlInv, LifeInv, RowTypes
    <3>8. worker'[w].at = "marked" /\ worker'[w].case = c
      BY <1>1, <3>6 DEF WorkerState
    <3>9. sent[c] = 0
      BY <1>2, <3>1 DEF SentIsDispatched
    <3> HIDE DEF c, commandRow
    <3>10. Custody(w, worker'[w], command', sent')
      BY <3>4, <3>6, <3>7, <3>8, <3>9 DEF Custody
    <3>11. \A v \in Workers \ {w} : worker'[v] = worker[v]
      BY <1>1, <3>6
    <3> QED BY <1>4, <1>5, <3>6, <3>10, <3>11 DEF AllCustody, AllDispatched
  <2> QED BY <2>1, <2>2
<1>11. ASSUME NEW w \in Workers, Send(w)
       PROVE  AllCustody' /\ AllDispatched'
  <2> DEFINE c == worker[w].case
  <2>1. /\ c \in Cases /\ sent[c] = 0
        /\ command[c].state = "dispatched" /\ command[c].claimToken = w
    BY <1>1, <1>3, <1>11 DEF Send, Custody
  <2>2. /\ command' = command
        /\ sent' = [sent EXCEPT ![c] = @ + 1]
        /\ \A v \in Workers \ {w} : worker'[v] = worker[v]
    BY <1>1, <1>11 DEF Send, rowVars
  <2>3. sent'[c] = 1 /\ \A d \in Cases \ {c} : sent'[d] = sent[d]
    BY <1>1, <2>1, <2>2
  <2>4. Custody(w, worker'[w], command', sent')
    <3>1. CASE worker' = [worker EXCEPT ![w] = IdleWorker]
      BY <1>1, <3>1 DEF IdleWorker, Custody
    <3>2. ASSUME NEW answer \in {"accepted", "refused"},
                 worker' = [worker EXCEPT ![w].at = answer]
          PROVE  Custody(w, worker'[w], command', sent')
      <4>1. worker'[w].at = answer /\ worker'[w].case = c
        BY <1>1, <3>2 DEF WorkerState
      <4> HIDE DEF c
      <4> QED BY <2>1, <2>2, <2>3, <4>1 DEF Custody
    <3> QED BY <1>11, <3>1, <3>2 DEF Send
  <2>5. ASSUME NEW v \in Workers \ {w}
        PROVE  Custody(v, worker'[v], command', sent')
    <3>1. worker[v].at \in {"marked", "accepted", "refused"} =>
            worker[v].case \in Cases /\ worker[v].case # c
      BY <1>1, <1>3, <2>1 DEF Custody
    <3> QED BY <1>5, <2>2, <2>3, <3>1
  <2>6. SentIsDispatched(command'[c], sent'[c])
    BY <2>1, <2>2, <2>3 DEF SentIsDispatched
  <2>7. AllDispatched'
    <3> SUFFICES ASSUME NEW d \in Cases
                 PROVE  SentIsDispatched(command'[d], sent'[d])
      BY DEF AllDispatched
    <3> QED BY <1>4, <2>3, <2>6
  <2> QED BY <2>4, <2>5, <2>7 DEF AllCustody
<1>12. ASSUME NEW w \in Workers, GiveUpUnsent(w) \/ Complete(w) \/ LoseWorker(w)
       PROVE  AllCustody' /\ AllDispatched'
  BY <1>8, <1>12 DEF GiveUpUnsent, Complete, LoseWorker
<1> QED
  BY <1>6, <1>9, <1>10, <1>11, <1>12
     DEF ControlNext, controlVars, RecordPayment, Drive, Expire, RequestControl,
         AuthorizeControl, CancelControl

LEMMA ControlStart == ControlInit => ControlInv
<1> SUFFICES ASSUME ControlInit PROVE ControlInv
  OBVIOUS
<1>1. NoCase \in Case /\ NoCommand \in Command /\ IdleWorker \in WorkerState
  BY ControlAssumption DEF NoCase, Case, NoCommand, Command, IdleWorker, WorkerState
<1>2. CaseHolds(NoCase) /\ CommandHolds(NoCommand)
  BY DEF CaseHolds, NoCase, CommandHolds, NoCommand, OpenStates
<1>3. LifeInv
  BY <1>1, <1>2 DEF ControlInit, LifeInv, RowTypes, Follows, NoCase, NoCommand, IdleWorker
<1>4. OneOpenCase
  BY DEF ControlInit, OneOpenCase, NoCase, OpenStates
<1>5. AllCustody
  BY DEF ControlInit, AllCustody, Custody, IdleWorker
<1>6. AllDispatched
  BY DEF ControlInit, AllDispatched, SentIsDispatched, NoCommand
<1> QED BY <1>3, <1>4, <1>5, <1>6 DEF ControlInv

LEMMA ControlStep == ControlInv /\ [ControlNext]_controlVars => ControlInv'
<1> SUFFICES ASSUME ControlInv, [ControlNext]_controlVars PROVE ControlInv'
  OBVIOUS
<1>1. RowTypes'
  BY RowTypesStep DEF ControlInv
<1>2. \A c \in Cases : Follows(c, kase', command')
  BY FollowsStep DEF ControlInv
<1>3. OneOpenCase'
  BY OneOpenCaseStep DEF ControlInv
<1>4. AllCustody' /\ AllDispatched'
  BY CustodyStep
<1> QED BY <1>1, <1>2, <1>3, <1>4 DEF ControlInv, LifeInv

LEMMA ControlAlways == ControlSpec => []ControlInv
BY ControlStart, ControlStep, PTL DEF ControlSpec

LEMMA ControlTypesStart == ControlInit => ControlTypeOK
<1> SUFFICES ASSUME ControlInit PROVE ControlTypeOK
  OBVIOUS
<1>1. RowTypes
  BY ControlStart DEF ControlInv, LifeInv
<1>2. <<>> \in Seq({"past_due", "cured"}) /\ Len(<<>>) = 0
  BY EmptySeq
<1>3. 0 <= MaxSignals /\ 0 \in 0 .. MaxLapses
  BY ControlAssumption, SMT
<1>4. payments \in [Contracts -> Seq({"past_due", "cured"})]
      /\ \A k \in Contracts : Len(payments[k]) <= MaxSignals
  BY <1>2, <1>3 DEF ControlInit
<1> QED BY <1>1, <1>3, <1>4 DEF ControlInit, RowTypes, WorkerState, ControlTypeOK

LEMMA ControlTypesStep ==
  ControlInv /\ ControlTypeOK /\ [ControlNext]_controlVars => ControlTypeOK'
<1> SUFFICES ASSUME ControlInv, ControlTypeOK, [ControlNext]_controlVars
             PROVE  ControlTypeOK'
  OBVIOUS
<1>1. RowTypes'
  BY ControlStep DEF ControlInv, LifeInv
<1>2. /\ payments' \in [Contracts -> Seq({"past_due", "cured"})]
      /\ \A k \in Contracts : Len(payments'[k]) <= MaxSignals
  <2>1. ASSUME NEW k \in Contracts, NEW state \in {"past_due", "cured"}, RecordPayment(k, state)
        PROVE  /\ payments' \in [Contracts -> Seq({"past_due", "cured"})]
               /\ \A j \in Contracts : Len(payments'[j]) <= MaxSignals
    <3> DEFINE longer == Append(payments[k], state)
    <3>1. payments[k] \in Seq({"past_due", "cured"})
      BY DEF ControlTypeOK
    <3>2. longer \in Seq({"past_due", "cured"}) /\ Len(longer) = Len(payments[k]) + 1
          /\ Len(payments[k]) \in Nat
      BY <3>1, AppendProperties, LenProperties
    <3>3. Len(longer) <= MaxSignals
      BY <2>1, <3>2, ControlAssumption, SMT DEF RecordPayment
    <3>4. payments' = [payments EXCEPT ![k] = longer]
      BY <2>1 DEF RecordPayment
    <3> HIDE DEF longer
    <3> QED BY <3>2, <3>3, <3>4 DEF ControlTypeOK
  <2>2. CASE UNCHANGED payments
    BY <2>2 DEF ControlTypeOK
  <2> QED
    BY <2>1, <2>2
       DEF ControlNext, Drive, Expire, CancelControl, AuthorizeControl, RequestControl,
           ClaimCommand, GiveUpUnsent, MarkDispatched, Send, Complete, LoseWorker, controlVars
<1>3. halted' \subseteq Contracts /\ expired' \subseteq Cases
  BY DEF ControlTypeOK, ControlNext, RecordPayment, Drive, Expire, CancelControl,
         AuthorizeControl, RequestControl, ClaimCommand, GiveUpUnsent, MarkDispatched, Send,
         Complete, LoseWorker, controlVars
<1>4. adapter' \in BOOLEAN
  BY DEF ControlTypeOK, ControlNext, RecordPayment, Drive, Expire, CancelControl,
         AuthorizeControl, RequestControl, ClaimCommand, GiveUpUnsent, MarkDispatched, Send,
         Complete, LoseWorker, controlVars
<1>5. unsent' \subseteq Cases
  <2>1. ASSUME NEW w \in Workers, GiveUpUnsent(w) PROVE unsent' \subseteq Cases
    BY <2>1 DEF GiveUpUnsent, ControlInv, LifeInv, RowTypes, ControlTypeOK
  <2> QED
    BY <2>1
       DEF ControlTypeOK, ControlNext, RecordPayment, Drive, Expire, CancelControl,
           AuthorizeControl, RequestControl, ClaimCommand, MarkDispatched, Send, Complete,
           LoseWorker, controlVars
<1>6. lapses' \in 0 .. MaxLapses
  <2>1. ASSUME NEW w \in Workers, LoseWorker(w) PROVE lapses' \in 0 .. MaxLapses
    BY <2>1, ControlAssumption, SMT DEF LoseWorker, ControlTypeOK
  <2> QED
    BY <2>1
       DEF ControlTypeOK, ControlNext, RecordPayment, Drive, Expire, CancelControl,
           AuthorizeControl, RequestControl, ClaimCommand, GiveUpUnsent, MarkDispatched, Send,
           Complete, controlVars
<1> QED BY <1>1, <1>2, <1>3, <1>4, <1>5, <1>6 DEF RowTypes, WorkerState, ControlTypeOK

---------------------------------------------------------------------------
(* The theorems.                                                           *)

\* The device gets at most one request for a case, on the word of two operators,
\* for any number of overlapping workers and crashes.
THEOREM OneRequestByTwo == ControlSpec => []SentOnceByTwo
<1>1. ControlInv => SentOnceByTwo
  <2> SUFFICES ASSUME ControlInv, NEW c \in Cases
               PROVE  /\ sent[c] <= 1
                      /\ sent[c] = 1 =>
                           /\ {kase[c].requestedBy, kase[c].authorizedBy} \subseteq Operators
                           /\ kase[c].requestedBy # kase[c].authorizedBy
                      /\ kase[c].state = "acknowledged" => sent[c] = 1
    BY DEF SentOnceByTwo
  <2>1. /\ SentIsDispatched(command[c], sent[c]) /\ Follows(c, kase, command)
        /\ kase[c] \in Case
    BY DEF ControlInv, AllDispatched, LifeInv, RowTypes
  <2>2. sent[c] <= 1
    BY <2>1 DEF SentIsDispatched
  <2>3. kase[c].state \in {"dispatched", "acknowledged"} =>
          /\ {kase[c].requestedBy, kase[c].authorizedBy} \subseteq Operators
          /\ kase[c].requestedBy # kase[c].authorizedBy
    BY <2>1 DEF Follows, CaseHolds, Case, OpenStates
  <2>4. sent[c] = 1 => kase[c].state \in {"dispatched", "acknowledged"}
    BY <2>1 DEF SentIsDispatched, Follows
  <2>5. kase[c].state = "acknowledged" => sent[c] = 1
    BY <2>1 DEF SentIsDispatched, Follows
  <2> QED BY <2>2, <2>3, <2>4, <2>5
<1> QED BY <1>1, ControlAlways, PTL

\* A contract has one live command at most, for any number of cases, operators and
\* workers.
THEOREM LiveCommandIsUnique == ControlSpec => []OneLiveCommand
<1>1. ControlInv => OneLiveCommand
  <2> SUFFICES ASSUME ControlInv, NEW c \in Cases, NEW d \in Cases, c # d,
                      ContractOf[c] = ContractOf[d]
               PROVE  \/ "none" \in {command[c].state, command[d].state}
                      \/ "acknowledged" \in {command[c].state, command[d].state}
    BY DEF OneLiveCommand
  <2>1. Follows(c, kase, command) /\ Follows(d, kase, command)
    BY DEF ControlInv, LifeInv
  <2>2. kase[c].state \notin OpenStates \/ kase[d].state \notin OpenStates
    BY DEF ControlInv, OneOpenCase
  <2> QED BY <2>1, <2>2 DEF Follows, OpenStates
<1> QED BY <1>1, ControlAlways, PTL

\* The payment signal a case names is on file.
SignalsFiled ==
  \A c \in Cases :
    kase[c].state # "none" => kase[c].signal \in 1 .. Len(payments[ContractOf[c]])

\* The payment signals of a contract are only added to.
LEMMA PaymentsGrow ==
  ASSUME ControlTypeOK, [ControlNext]_controlVars, NEW k \in Contracts
  PROVE  /\ Len(payments[k]) \in Nat /\ Len(payments'[k]) \in Nat
         /\ Len(payments[k]) <= Len(payments'[k])
         /\ \A i \in 1 .. Len(payments[k]) : payments'[k][i] = payments[k][i]
<1>1. payments[k] \in Seq({"past_due", "cured"}) /\ Len(payments[k]) \in Nat
  BY LenProperties DEF ControlTypeOK
<1>2. CASE payments'[k] = payments[k]
  BY <1>1, <1>2, SMT
<1>3. ASSUME NEW j \in Contracts, NEW state \in {"past_due", "cured"}, RecordPayment(j, state),
             payments'[k] # payments[k]
      PROVE  payments'[k] = Append(payments[k], state)
  BY <1>3 DEF RecordPayment, ControlTypeOK
<1>4. ASSUME NEW state \in {"past_due", "cured"}, payments'[k] = Append(payments[k], state)
      PROVE  /\ Len(payments'[k]) = Len(payments[k]) + 1
             /\ \A i \in 1 .. Len(payments[k]) : payments'[k][i] = payments[k][i]
  BY <1>1, <1>4, AppendProperties
<1>5. payments'[k] # payments[k] =>
        \E j \in Contracts, state \in {"past_due", "cured"} : RecordPayment(j, state)
  BY DEF ControlNext, Drive, Expire, CancelControl, AuthorizeControl, RequestControl, ClaimCommand,
         GiveUpUnsent, MarkDispatched, Send, Complete, LoseWorker, controlVars
<1>6. CASE payments'[k] # payments[k]
  <2>1. PICK state \in {"past_due", "cured"} : payments'[k] = Append(payments[k], state)
    BY <1>3, <1>5, <1>6
  <2>2. /\ Len(payments'[k]) = Len(payments[k]) + 1
        /\ \A i \in 1 .. Len(payments[k]) : payments'[k][i] = payments[k][i]
    BY <1>4, <2>1
  <2> QED BY <1>1, <2>2, SMT
<1> QED BY <1>2, <1>6

\* A case is requested for a signal on file and keeps it.
LEMMA SignalKept ==
  ASSUME ControlInv, [ControlNext]_controlVars, NEW c \in Cases, kase[c].state # "none"
  PROVE  kase'[c].signal = kase[c].signal
BY RowsOf DEF RowStep, CaseLife, Kept, Requested, Authorized, Claimed, Marked, Acknowledged,
              ControlInv, LifeInv

LEMMA SignalsFiledStep ==
  ASSUME ControlInv, ControlTypeOK, SignalsFiled, [ControlNext]_controlVars
  PROVE  SignalsFiled'
<1> SUFFICES ASSUME NEW c \in Cases, kase'[c].state # "none"
             PROVE  kase'[c].signal \in 1 .. Len(payments'[ContractOf[c]])
  BY DEF SignalsFiled
<1>1. ContractOf[c] \in Contracts
  BY ControlAssumption
<1>2. /\ Len(payments[ContractOf[c]]) \in Nat /\ Len(payments'[ContractOf[c]]) \in Nat
      /\ Len(payments[ContractOf[c]]) <= Len(payments'[ContractOf[c]])
  BY <1>1, PaymentsGrow
<1>3. CASE kase[c].state # "none"
  <2>1. kase[c].signal \in 1 .. Len(payments[ContractOf[c]])
    BY <1>3 DEF SignalsFiled
  <2>2. kase'[c].signal = kase[c].signal
    BY <1>3, SignalKept
  <2> QED BY <1>2, <2>1, <2>2, SMT
<1>4. CASE kase[c].state = "none"
  <2>1. Requested(c)
    BY <1>4, RowsOf DEF RowStep, CaseLife, Kept, Authorized, Claimed, Marked, Acknowledged,
          ControlInv, LifeInv, Follows
  <2>2. DOMAIN payments[ContractOf[c]] = 1 .. Len(payments[ContractOf[c]])
    BY <1>1, LenProperties DEF ControlTypeOK
  <2>3. kase'[c].signal \in 1 .. Len(payments[ContractOf[c]])
    BY <2>1, <2>2 DEF Requested
  <2> QED BY <1>2, <2>3, SMT
<1> QED BY <1>3, <1>4

\* A case that is cured or has run out before its command is marked stays so.
Late(c) == kase[c].state \in {"requested", "authorized"} /\ (c \in expired \/ ~Uncured(c))

LEMMA LateStays ==
  ASSUME ControlInv, ControlTypeOK, SignalsFiled, [ControlNext]_controlVars,
         NEW c \in Cases, Late(c)
  PROVE  Late(c)'
<1> DEFINE k == ContractOf[c]
           signal == kase[c].signal
<1>1. k \in Contracts
  BY ControlAssumption
<1>2. signal \in 1 .. Len(payments[k])
  BY DEF Late, SignalsFiled
<1>3. /\ Len(payments[k]) \in Nat /\ Len(payments'[k]) \in Nat
      /\ Len(payments[k]) <= Len(payments'[k])
      /\ \A i \in 1 .. Len(payments[k]) : payments'[k][i] = payments[k][i]
  BY <1>1, PaymentsGrow
<1>4. kase'[c].signal = signal
  BY SignalKept DEF Late
<1>5. ~Uncured(c) => ~Uncured(c)'
  <2>1. CASE payments[k][signal] # "past_due"
    BY <1>2, <1>3, <1>4, <2>1 DEF Uncured
  <2>2. ASSUME NEW i \in signal + 1 .. Len(payments[k]), payments[k][i] = "cured"
        PROVE  ~Uncured(c)'
    <3>1. i \in 1 .. Len(payments[k]) /\ i \in signal + 1 .. Len(payments'[k])
      BY <1>2, <1>3, SMT
    <3> QED BY <1>3, <1>4, <2>2, <3>1 DEF Uncured
  <2> QED BY <2>1, <2>2 DEF Uncured
<1>6. c \in expired => c \in expired'
  BY DEF ControlNext, RecordPayment, Drive, Expire, CancelControl, AuthorizeControl,
         RequestControl, ClaimCommand, GiveUpUnsent, MarkDispatched, Send, Complete, LoseWorker,
         controlVars
<1>7. kase'[c].state \in {"requested", "authorized"}
  <2>1. CaseLife(c) /\ Follows(c, kase, command)
    BY RowsOf DEF RowStep, ControlInv, LifeInv
  <2>2. ~Marked(c)
    BY DEF Marked, Interlocks, Late
  <2>3. kase[c].state \in {"requested", "authorized"}
    BY DEF Late
  <2> QED BY <2>1, <2>2, <2>3
          DEF CaseLife, Kept, Requested, Authorized, Claimed, Acknowledged, Follows
<1> QED BY <1>5, <1>6, <1>7 DEF Late

\* No request leaves for a case that was cured or had run out before its command was
\* marked, whatever is paid, authorized, claimed or sent afterwards.
THEOREM CuredIsNeverSent == ControlSpec => CuredStaysUnsent
<1> SUFFICES ASSUME NEW c \in Cases PROVE ControlSpec => [](Late(c) => [](sent[c] = 0))
  BY DEF CuredStaysUnsent, Late
<1>1. ControlInit => SignalsFiled
  BY DEF ControlInit, SignalsFiled, NoCase
<1>2. ControlInv /\ ControlTypeOK /\ SignalsFiled /\ [ControlNext]_controlVars => SignalsFiled'
  BY SignalsFiledStep
<1>3. ControlInv /\ ControlTypeOK /\ SignalsFiled /\ [ControlNext]_controlVars /\ Late(c)
        => Late(c)'
  BY LateStays
<1>4. ControlInv /\ Late(c) => sent[c] = 0
  BY DEF ControlInv, AllDispatched, SentIsDispatched, LifeInv, Follows, Late
<1> QED
  BY <1>1, <1>2, <1>3, <1>4, ControlAlways, ControlTypesStart, ControlTypesStep, PTL
     DEF ControlSpec

---------------------------------------------------------------------------
(* The feed of a tracker provider, for any number of workers, any answer   *)
(* limit and any bulk limit.  The cursor moves only to where the poll of a *)
(* worker ends, so the invariant follows every poll: it began at or before *)
(* the cursor, it reaches no further than one answer, and what it has been *)
(* through is stored.                                                      *)

\* A record is stored, or no device on file has sent it.
Accounted(v) == v \in Untracked \/ stored[v] = 1

\* A poll is a stretch of the feed no longer than one answer.
Stretch(p) ==
  /\ p.from <= p.done /\ p.done <= p.to
  /\ p.to <= feed
  /\ p.to <= p.from + ResultsLimit
  /\ p.at = "claimed" => p.done = p.from

\* It began no further than the cursor is, and what it is past is stored.
PollKept(p) == p.from <= cursor /\ \A v \in 1 .. MaxFeed : v <= p.done => Accounted(v)

FeedTypes ==
  /\ feed \in 0 .. MaxFeed /\ cursor \in 0 .. feed
  /\ stored \in [1 .. MaxFeed -> {0, 1}]
  /\ poll \in [Pollers -> Poll]

FeedInv ==
  /\ FeedTypes
  /\ \A v \in 1 .. MaxFeed : v <= cursor => Accounted(v)
  /\ \A w \in Pollers : Stretch(poll[w]) /\ PollKept(poll[w])

\* What a step may do to the records.
StoresMore ==
  /\ stored' \in [1 .. MaxFeed -> {0, 1}]
  /\ \A v \in 1 .. MaxFeed : Accounted(v) => Accounted(v)'

----------------------------------------------------------------------------
LEMMA Numbers ==
  ASSUME FeedInv
  PROVE  /\ feed \in Nat /\ feed <= MaxFeed /\ cursor \in Nat /\ cursor <= feed
         /\ MaxFeed \in Nat
         /\ \A w \in Pollers :
              poll[w] \in Poll /\ Stretch(poll[w]) /\ PollKept(poll[w])
BY IngestAssumption, SMT DEF FeedInv, FeedTypes

LEMMA PollFields ==
  ASSUME NEW p \in Poll
  PROVE  /\ p.from \in Nat /\ p.done \in Nat /\ p.to \in Nat
         /\ p.from <= MaxFeed /\ p.done <= MaxFeed /\ p.to <= MaxFeed
BY IngestAssumption, SMT DEF Poll

LEMMA PollTo ==
  ASSUME NEW p \in Poll, NEW to \in 0 .. MaxFeed
  PROVE  LET q == [p EXCEPT !.at = "storing", !.to = to]
         IN  /\ q \in Poll /\ q.at = "storing"
             /\ q.from = p.from /\ q.to = to /\ q.done = p.done
<1> DEFINE q == [p EXCEPT !.at = "storing"]
<1>1. q \in Poll /\ q.at = "storing" /\ q.from = p.from /\ q.to = p.to /\ q.done = p.done
  BY SMT DEF Poll
<1>2. [p EXCEPT !.at = "storing", !.to = to] = [q EXCEPT !.to = to]
  OBVIOUS
<1> HIDE DEF q
<1> QED BY <1>1, <1>2, SMT DEF Poll

LEMMA PollDone ==
  ASSUME NEW p \in Poll, NEW done \in 0 .. MaxFeed
  PROVE  LET q == [p EXCEPT !.at = "storing", !.done = done]
         IN  /\ q \in Poll /\ q.at = "storing"
             /\ q.from = p.from /\ q.to = p.to /\ q.done = done
<1> DEFINE q == [p EXCEPT !.at = "storing"]
<1>1. q \in Poll /\ q.at = "storing" /\ q.from = p.from /\ q.to = p.to /\ q.done = p.done
  BY SMT DEF Poll
<1>2. [p EXCEPT !.at = "storing", !.done = done] = [q EXCEPT !.done = done]
  OBVIOUS
<1> HIDE DEF q
<1> QED BY <1>1, <1>2, SMT DEF Poll

LEMMA Least ==
  ASSUME NEW a \in Nat, NEW b \in Nat
  PROVE  LET m == IF a < b THEN a ELSE b
         IN  m \in Nat /\ m <= a /\ m <= b /\ m \in {a, b}
BY SMT

LEMMA SameRecords == ASSUME FeedInv, UNCHANGED stored PROVE StoresMore
BY DEF StoresMore, Accounted, FeedInv, FeedTypes

LEMMA FeedInit == IngestInit => FeedInv
<1> SUFFICES ASSUME IngestInit PROVE FeedInv
  OBVIOUS
<1>1. IdlePoll \in Poll
  BY IngestAssumption, SMT DEF IdlePoll, Poll
<1>2. FeedTypes
  BY <1>1, IngestAssumption, SMT DEF IngestInit, FeedTypes
<1>3. \A v \in 1 .. MaxFeed : v <= cursor => Accounted(v)
  BY IngestAssumption, SMT DEF IngestInit
<1>4. ASSUME NEW w \in Pollers PROVE Stretch(poll[w]) /\ PollKept(poll[w])
  <2>1. poll[w] = IdlePoll
    BY DEF IngestInit
  <2> QED BY <2>1, IngestAssumption, SMT DEF IngestInit, Stretch, PollKept, IdlePoll
<1> QED BY <1>2, <1>3, <1>4 DEF FeedInv

\* A step that takes one poll to a stretch that is kept.
LEMMA PollMoves ==
  ASSUME FeedInv, StoresMore, UNCHANGED <<feed, cursor>>,
         NEW w \in Pollers, NEW p \in Poll, poll' = [poll EXCEPT ![w] = p],
         Stretch(p), p.from <= cursor,
         \A v \in 1 .. MaxFeed : v <= p.done => Accounted(v)'
  PROVE  FeedInv'
<1>1. FeedTypes'
  BY DEF FeedInv, FeedTypes, StoresMore
<1>2. \A v \in 1 .. MaxFeed : (v <= cursor => Accounted(v))'
  BY DEF FeedInv, StoresMore
<1>3. ASSUME NEW u \in Pollers PROVE (Stretch(poll[u]) /\ PollKept(poll[u]))'
  <2>1. poll'[u] = IF u = w THEN p ELSE poll[u]
    BY DEF FeedInv, FeedTypes
  <2>2. CASE u = w
    BY <2>1, <2>2 DEF Stretch, PollKept
  <2>3. CASE u # w
    BY <2>1, <2>3 DEF FeedInv, Stretch, PollKept, StoresMore
  <2> QED BY <2>2, <2>3
<1> QED BY <1>1, <1>2, <1>3 DEF FeedInv

\* A step that moves a worker on without taking its poll any further.
LEMMA OnlyAt ==
  ASSUME FeedInv, StoresMore, UNCHANGED <<feed, cursor>>,
         NEW w \in Pollers, NEW at \in {"storing", "renewed", "failing"}, To(w, at)
  PROVE  FeedInv'
<1> DEFINE p == [poll[w] EXCEPT !.at = at]
<1>0. poll[w] \in Poll /\ Stretch(poll[w]) /\ PollKept(poll[w])
  BY Numbers
<1>1. p \in Poll /\ p.from = poll[w].from /\ p.to = poll[w].to /\ p.done = poll[w].done
      /\ p.at = at
  BY <1>0, SMT DEF Poll
<1>2. poll' = [poll EXCEPT ![w] = p]
  BY DEF To
<1>3. Stretch(p) /\ p.from <= cursor
  BY <1>0, <1>1 DEF Stretch, PollKept
<1>4. \A v \in 1 .. MaxFeed : v <= p.done => Accounted(v)'
  BY <1>0, <1>1 DEF PollKept, StoresMore
<1> HIDE DEF p
<1> QED BY <1>1, <1>2, <1>3, <1>4, PollMoves

LEMMA BackToIdle ==
  ASSUME FeedInv, UNCHANGED <<feed, cursor, stored>>,
         NEW w \in Pollers, poll' = [poll EXCEPT ![w] = IdlePoll]
  PROVE  FeedInv'
<1>1. IdlePoll \in Poll
  BY IngestAssumption, SMT DEF IdlePoll, Poll
<1>2. Stretch(IdlePoll) /\ IdlePoll.from <= cursor
  BY Numbers, IngestAssumption, SMT DEF Stretch, IdlePoll
<1>3. \A v \in 1 .. MaxFeed : v <= IdlePoll.done => Accounted(v)'
  BY IngestAssumption, SMT DEF IdlePoll
<1> QED BY <1>1, <1>2, <1>3, SameRecords, PollMoves

LEMMA ClaimFeedKeeps ==
  ASSUME FeedInv, NEW w \in Pollers, ClaimFeed(w)
  PROVE  FeedInv'
<1> DEFINE p == [at |-> "claimed", from |-> cursor, to |-> cursor, done |-> cursor]
<1>1. p \in Poll
  BY Numbers, SMT DEF Poll
<1>2. Stretch(p) /\ p.from <= cursor
  BY Numbers, IngestAssumption, SMT DEF Stretch
<1>3. StoresMore
  BY SameRecords DEF ClaimFeed
<1>4. \A v \in 1 .. MaxFeed : v <= p.done => Accounted(v)'
  BY <1>3 DEF FeedInv, StoresMore
<1>5. poll' = [poll EXCEPT ![w] = p]
  BY DEF ClaimFeed
<1> HIDE DEF p
<1> QED BY <1>1, <1>2, <1>3, <1>4, <1>5, PollMoves DEF ClaimFeed

\* The version an answer reaches is in the feed and within the limit.
LEMMA NextVersionIn ==
  ASSUME FeedInv, NEW from \in Nat, from <= feed
  PROVE  /\ NextVersion(from) \in Nat
         /\ from <= NextVersion(from)
         /\ NextVersion(from) <= feed
         /\ NextVersion(from) <= from + ResultsLimit
<1>1. ResultsLimit \in Nat /\ from + ResultsLimit \in Nat /\ feed \in Nat
  BY IngestAssumption, Numbers, SMT
<1>2. NextVersion(from) \in {from + ResultsLimit, feed}
      /\ NextVersion(from) <= from + ResultsLimit /\ NextVersion(from) <= feed
  BY <1>1, Least DEF NextVersion
<1> QED BY <1>1, <1>2, SMT

LEMMA AnswerKeeps ==
  ASSUME FeedInv, NEW w \in Pollers, GetFeed(w)
  PROVE  FeedInv'
<1> DEFINE to == NextVersion(poll[w].from)
           p == [poll[w] EXCEPT !.at = "storing", !.to = to]
<1>0. poll[w] \in Poll /\ Stretch(poll[w]) /\ PollKept(poll[w])
  BY Numbers
<1>1. poll[w].from \in Nat /\ poll[w].from <= feed /\ poll[w].done = poll[w].from
  BY <1>0, Numbers, PollFields, SMT DEF Stretch, GetFeed
<1>2. to \in 0 .. MaxFeed /\ poll[w].from <= to /\ to <= feed
      /\ to <= poll[w].from + ResultsLimit
  BY <1>1, NextVersionIn, Numbers, SMT
<1> HIDE DEF to
<1>3. p \in Poll /\ p.from = poll[w].from /\ p.to = to /\ p.done = poll[w].done
      /\ p.at = "storing"
  BY <1>0, <1>2, PollTo
<1>4. Stretch(p) /\ p.from <= cursor
  BY <1>0, <1>1, <1>2, <1>3 DEF Stretch, PollKept
<1>5. StoresMore
  BY SameRecords DEF GetFeed
<1>6. \A v \in 1 .. MaxFeed : v <= p.done => Accounted(v)'
  BY <1>0, <1>3, <1>5 DEF PollKept, StoresMore
<1>7. CASE To(w, "failing")
  BY <1>5, <1>7, OnlyAt DEF GetFeed
<1>8. CASE ~To(w, "failing")
  <2>1. poll' = [poll EXCEPT ![w] = p]
    BY <1>8 DEF GetFeed, to
  <2> HIDE DEF p
  <2> QED BY <1>3, <1>4, <1>5, <1>6, <2>1, PollMoves DEF GetFeed
<1> QED BY <1>7, <1>8

\* The bulk call stores the records of known devices up to where it takes the poll.
LEMMA BulkKeeps ==
  ASSUME FeedInv, NEW w \in Pollers, BulkRecord(w)
  PROVE  FeedInv'
<1>0. poll[w] \in Poll /\ Stretch(poll[w]) /\ PollKept(poll[w])
  BY Numbers
<1>1. CASE ~(BulkFence(w) /\ Chunk(w) \cap unusable = {})
  <2>1. StoresMore
    BY <1>1, SameRecords DEF BulkRecord
  <2> QED BY <1>1, <2>1, OnlyAt DEF BulkRecord
<1>2. CASE BulkFence(w) /\ Chunk(w) \cap unusable = {}
  <2> DEFINE reached == poll[w].done + BulkLimit
             done == IF reached < poll[w].to THEN reached ELSE poll[w].to
             p == [poll[w] EXCEPT !.at = "storing", !.done = done]
  <2>1. stored' = [v \in DOMAIN stored |->
          IF v \in Chunk(w) \ Untracked /\ stored[v] = 0 THEN 1 ELSE stored[v]]
    BY <1>2 DEF BulkRecord
  <2>2. DOMAIN stored = 1 .. MaxFeed /\ \A v \in 1 .. MaxFeed : stored[v] \in {0, 1}
    BY DEF FeedInv, FeedTypes
  <2>3. StoresMore
    <3>1. stored' \in [1 .. MaxFeed -> {0, 1}]
      BY <2>1, <2>2, SMT
    <3>2. ASSUME NEW v \in 1 .. MaxFeed, Accounted(v) PROVE Accounted(v)'
      BY <2>1, <2>2, <3>2, SMT DEF Accounted
    <3> QED BY <3>1, <3>2 DEF StoresMore
  <2>4. BulkLimit \in Nat
    BY IngestAssumption
  <2>5. /\ done \in 0 .. MaxFeed
        /\ poll[w].done <= done /\ done <= reached /\ done <= poll[w].to
    <3>1. /\ poll[w].done \in Nat /\ poll[w].to \in Nat /\ poll[w].to <= MaxFeed
          /\ poll[w].done <= poll[w].to /\ reached \in Nat /\ poll[w].done <= reached
      BY <1>0, <2>4, PollFields, SMT DEF Stretch
    <3>2. done \in {reached, poll[w].to} /\ done <= reached /\ done <= poll[w].to
      BY <3>1, Least
    <3> QED BY <3>1, <3>2, Numbers, SMT
  <2>6. poll' = [poll EXCEPT ![w] = p] \/ To(w, "failing")
    BY <1>2 DEF BulkRecord
  <2>7. CASE To(w, "failing")
    BY <2>3, <2>7, OnlyAt DEF BulkRecord
  <2>8. CASE poll' = [poll EXCEPT ![w] = p]
    <3> HIDE DEF done
    <3>1. p \in Poll /\ p.from = poll[w].from /\ p.to = poll[w].to /\ p.done = done
          /\ p.at = "storing"
      BY <1>0, <2>5, PollDone
    <3>2. Stretch(p) /\ p.from <= cursor
      <4>1. poll[w].from <= done
        BY <1>0, <2>5, PollFields, SMT DEF Stretch
      <4> QED BY <1>0, <2>5, <3>1, <4>1 DEF Stretch, PollKept
    <3>3. ASSUME NEW v \in 1 .. MaxFeed, v <= done PROVE Accounted(v)'
      <4>1. CASE v <= poll[w].done
        BY <1>0, <2>3, <4>1 DEF PollKept, StoresMore
      <4>2. CASE ~(v <= poll[w].done)
        <5>1. v \in Chunk(w)
          <6>1. /\ v \in Nat /\ feed \in Nat /\ poll[w].from \in Nat
                /\ poll[w].done \in Nat /\ poll[w].to \in Nat
                /\ ResultsLimit \in Nat
            BY <1>0, PollFields, Numbers, IngestAssumption
          <6>2. v \in Received(poll[w].from)
            BY <1>0, <2>5, <3>3, <4>2, <6>1, SMT DEF Received, Stretch
          <6>3. poll[w].done < v /\ v <= poll[w].done + BulkLimit /\ v <= poll[w].to
            BY <2>4, <2>5, <3>3, <4>2, <6>1, SMT
          <6> QED BY <6>2, <6>3 DEF Chunk
        <5>2. stored'[v] = IF v \in Chunk(w) \ Untracked /\ stored[v] = 0 THEN 1 ELSE stored[v]
          BY <2>1, <2>2
        <5> QED BY <2>2, <5>1, <5>2 DEF Accounted
      <4> QED BY <4>1, <4>2
    <3> HIDE DEF p
    <3> QED BY <2>3, <2>8, <3>1, <3>2, <3>3, PollMoves DEF BulkRecord
  <2> QED BY <2>6, <2>7, <2>8
<1> QED BY <1>1, <1>2

\* The cursor moves to the end of a poll that has been through its stretch.
LEMMA CommitKeeps ==
  ASSUME FeedInv, NEW w \in Pollers, CommitBatch(w)
  PROVE  FeedInv'
<1> DEFINE key == <<poll[w].from, poll[w].to>>
<1>1. CASE key \in batches /\ poll' = [poll EXCEPT ![w] = IdlePoll]
           /\ UNCHANGED cursor
  BY <1>1, BackToIdle DEF CommitBatch
<1>2. CASE To(w, "failing") /\ UNCHANGED cursor
  <2>1. StoresMore
    BY SameRecords DEF CommitBatch
  <2> QED BY <1>2, <2>1, OnlyAt DEF CommitBatch
<1>3. CASE /\ cursor = poll[w].from /\ cursor' = poll[w].to
           /\ poll' = [poll EXCEPT ![w] = IdlePoll]
  <2>0. poll[w] \in Poll /\ Stretch(poll[w]) /\ PollKept(poll[w])
    BY Numbers
  <2>1. feed' = feed /\ stored' = stored /\ poll[w].done = poll[w].to
    BY DEF CommitBatch
  <2>2. cursor' \in 0 .. feed /\ cursor <= cursor'
    BY <1>3, <2>0, PollFields, Numbers, SMT DEF Stretch
  <2>3. IdlePoll \in Poll
    BY IngestAssumption, SMT DEF IdlePoll, Poll
  <2>4. FeedTypes'
    BY <1>3, <2>1, <2>2, <2>3 DEF FeedInv, FeedTypes
  <2>5. \A v \in 1 .. MaxFeed : (v <= cursor => Accounted(v))'
    BY <1>3, <2>0, <2>1 DEF PollKept, Accounted
  <2>6. ASSUME NEW u \in Pollers PROVE (Stretch(poll[u]) /\ PollKept(poll[u]))'
    <3>0. poll[u] \in Poll /\ Stretch(poll[u]) /\ PollKept(poll[u])
      BY Numbers
    <3>1. poll'[u] = IF u = w THEN IdlePoll ELSE poll[u]
      BY <1>3 DEF FeedInv, FeedTypes
    <3>2. CASE u = w
      <4>1. poll'[u] = IdlePoll
        BY <3>1, <3>2
      <4>2. IdlePoll.from = 0 /\ IdlePoll.to = 0 /\ IdlePoll.done = 0 /\ IdlePoll.at = "idle"
        BY DEF IdlePoll
      <4>3. ResultsLimit \in Nat /\ MaxFeed \in Nat
        BY IngestAssumption
      <4>4. Stretch(poll[u])'
        BY <2>1, <4>1, <4>2, <4>3, Numbers, SMT DEF Stretch
      <4>5. PollKept(poll[u])'
        BY <2>2, <4>1, <4>2, <4>3, Numbers, SMT DEF PollKept
      <4> QED BY <4>4, <4>5
    <3>3. CASE u # w
      <4>1. poll'[u] = poll[u]
        BY <3>1, <3>3
      <4>2. poll[u].from <= cursor'
        BY <2>2, <3>0, PollFields, Numbers, SMT DEF PollKept
      <4> QED BY <2>1, <3>0, <4>1, <4>2 DEF Stretch, PollKept, Accounted
    <3> QED BY <3>2, <3>3
  <2> QED BY <2>4, <2>5, <2>6 DEF FeedInv
<1> QED BY <1>1, <1>2, <1>3 DEF CommitBatch

\* A report only makes the feed longer.
LEMMA ReportKeeps ==
  ASSUME FeedInv, Report
  PROVE  FeedInv'
<1>1. feed' \in 0 .. MaxFeed /\ feed <= feed' /\ UNCHANGED <<cursor, stored, poll>>
  BY Numbers, SMT DEF Report
<1>2. FeedTypes'
  BY <1>1, Numbers, SMT DEF FeedInv, FeedTypes
<1>3. \A v \in 1 .. MaxFeed : (v <= cursor => Accounted(v))'
  BY <1>1 DEF FeedInv, Accounted
<1>4. ASSUME NEW w \in Pollers PROVE (Stretch(poll[w]) /\ PollKept(poll[w]))'
  <2>0. poll[w] \in Poll /\ Stretch(poll[w]) /\ PollKept(poll[w])
    BY Numbers
  <2>1. poll[w].to <= feed'
    BY <1>1, <2>0, PollFields, Numbers, SMT DEF Stretch
  <2> QED BY <1>1, <2>0, <2>1 DEF Stretch, PollKept, Accounted
<1> QED BY <1>2, <1>3, <1>4 DEF FeedInv

LEMMA StillKeeps ==
  ASSUME FeedInv, UNCHANGED <<feed, cursor, stored, poll>>
  PROVE  FeedInv'
BY DEF FeedInv, FeedTypes, Stretch, PollKept, Accounted

LEMMA FeedStep == FeedInv /\ [IngestNext]_ingestVars => FeedInv'
<1> SUFFICES ASSUME FeedInv, [IngestNext]_ingestVars PROVE FeedInv'
  OBVIOUS
<1>1. CASE Report
  BY <1>1, ReportKeeps
<1>2. CASE LeaseRunsOut
  BY <1>2, StillKeeps DEF LeaseRunsOut
<1>3. ASSUME NEW w \in Pollers, ClaimFeed(w) PROVE FeedInv'
  BY <1>3, ClaimFeedKeeps
<1>4. ASSUME NEW w \in Pollers, GetFeed(w) PROVE FeedInv'
  BY <1>4, AnswerKeeps
<1>5. ASSUME NEW w \in Pollers, RenewClaim(w) PROVE FeedInv'
  <2>1. StoresMore
    BY <1>5, SameRecords DEF RenewClaim
  <2> QED BY <1>5, <2>1, OnlyAt DEF RenewClaim
<1>6. ASSUME NEW w \in Pollers, BulkRecord(w) PROVE FeedInv'
  BY <1>6, BulkKeeps
<1>7. ASSUME NEW w \in Pollers, CommitBatch(w) PROVE FeedInv'
  BY <1>7, CommitKeeps
<1>8. ASSUME NEW w \in Pollers, ReleaseClaim(w) PROVE FeedInv'
  BY <1>8, BackToIdle DEF ReleaseClaim
<1>9. ASSUME NEW w \in Pollers, FailPoll(w) PROVE FeedInv'
  <2>1. StoresMore
    BY <1>9, SameRecords DEF FailPoll
  <2> QED BY <1>9, <2>1, OnlyAt DEF FailPoll
<1>10. ASSUME NEW w \in Pollers, StopPoller(w) PROVE FeedInv'
  BY <1>10, BackToIdle DEF StopPoller
<1>11. CASE UNCHANGED ingestVars
  BY <1>11, StillKeeps DEF ingestVars
<1> QED BY <1>1, <1>2, <1>3, <1>4, <1>5, <1>6, <1>7, <1>8, <1>9, <1>10, <1>11
        DEF IngestNext, PollStep

\* The cursor of a feed never passes a record of a known device that is not stored,
\* for any number of workers, any limits, and whatever stops between the calls.
THEOREM NothingIsSkipped == IngestSpec => []NothingSkipped
<1>1. FeedInv => NothingSkipped
  <2> SUFFICES ASSUME FeedInv, NEW v \in (1 .. cursor) \ Untracked
               PROVE  stored[v] = 1
    BY DEF NothingSkipped
  <2>1. v \in 1 .. MaxFeed /\ v <= cursor
    BY Numbers, SMT
  <2> QED BY <2>1 DEF FeedInv, Accounted
<1> QED BY <1>1, FeedInit, FeedStep, PTL DEF IngestSpec

LEMMA IngestTypesStart == IngestInit => IngestTypeOK
<1> SUFFICES ASSUME IngestInit PROVE IngestTypeOK
  OBVIOUS
<1>1. FeedTypes
  BY FeedInit DEF FeedInv
<1>2. stored \in [1 .. MaxFeed -> Nat]
  BY <1>1 DEF FeedTypes
<1>3. 0 \in 0 .. MaxSetbacks
  BY IngestAssumption, SMT
<1> QED BY <1>1, <1>2, <1>3 DEF IngestInit, FeedTypes, IngestTypeOK, NoLease

LEMMA IngestTypesStep ==
  FeedInv /\ IngestTypeOK /\ [IngestNext]_ingestVars => IngestTypeOK'
<1> SUFFICES ASSUME FeedInv, IngestTypeOK, [IngestNext]_ingestVars PROVE IngestTypeOK'
  OBVIOUS
<1>1. FeedTypes'
  BY FeedStep DEF FeedInv
<1>2. stored' \in [1 .. MaxFeed -> Nat]
  BY <1>1 DEF FeedTypes
<1>3. lease' \in [token : Pollers \cup {NoPoller}, live : BOOLEAN]
  <2>1. \/ lease' \in {lease, NoLease, [lease EXCEPT !.live = FALSE]}
        \/ \E w \in Pollers : lease' = [token |-> w, live |-> TRUE]
    BY DEF IngestNext, PollStep, Report, LeaseRunsOut, ClaimFeed, GetFeed, RenewClaim,
           BulkRecord, CommitBatch, ReleaseClaim, FailPoll, StopPoller, ingestVars
  <2>2. NoLease \in [token : Pollers \cup {NoPoller}, live : BOOLEAN]
    BY DEF NoLease
  <2>3. [lease EXCEPT !.live = FALSE] \in [token : Pollers \cup {NoPoller}, live : BOOLEAN]
    BY DEF IngestTypeOK
  <2>4. \A w \in Pollers :
          [token |-> w, live |-> TRUE] \in [token : Pollers \cup {NoPoller}, live : BOOLEAN]
    OBVIOUS
  <2>5. lease \in [token : Pollers \cup {NoPoller}, live : BOOLEAN]
    BY DEF IngestTypeOK
  <2> QED BY <2>1, <2>2, <2>3, <2>4, <2>5
<1>4. batches' \subseteq (0 .. MaxFeed) \X (0 .. MaxFeed)
  <2>1. ASSUME NEW w \in Pollers, CommitBatch(w)
        PROVE  batches' \subseteq (0 .. MaxFeed) \X (0 .. MaxFeed)
    <3>1. poll[w].from \in 0 .. MaxFeed /\ poll[w].to \in 0 .. MaxFeed
      BY DEF IngestTypeOK, Poll
    <3> QED BY <2>1, <3>1 DEF CommitBatch, IngestTypeOK
  <2> QED
    BY <2>1
       DEF IngestTypeOK, IngestNext, PollStep, Report, LeaseRunsOut, ClaimFeed, GetFeed,
           RenewClaim, BulkRecord, ReleaseClaim, FailPoll, StopPoller, ingestVars
<1>5. setbacks' \in 0 .. MaxSetbacks
  <2>1. \/ UNCHANGED setbacks
        \/ setbacks < MaxSetbacks /\ setbacks' = setbacks + 1
    BY DEF IngestNext, PollStep, Report, LeaseRunsOut, ClaimFeed, GetFeed, RenewClaim,
           BulkRecord, CommitBatch, ReleaseClaim, FailPoll, StopPoller, ingestVars
  <2> QED BY <2>1, IngestAssumption, SMT DEF IngestTypeOK
<1>6. unusable' = unusable
  BY DEF IngestNext, PollStep, Report, LeaseRunsOut, ClaimFeed, GetFeed, RenewClaim, BulkRecord,
         CommitBatch, ReleaseClaim, FailPoll, StopPoller, ingestVars
<1> QED BY <1>1, <1>2, <1>3, <1>4, <1>5, <1>6 DEF FeedTypes, IngestTypeOK

---------------------------------------------------------------------------
(* The verdicts of webhooks, for any servers, endpoints and events.        *)

LEMMA HookTypesStart == HookInit => HookTypeOK
<1> SUFFICES ASSUME HookInit PROVE HookTypeOK
  OBVIOUS
<1>1. hooks \in [Endpoints \X (WorkEvents \ unpublished) -> Deliveries]
  <2>1. Endpoints \X (WorkEvents \ unpublished) = {} /\ DOMAIN hooks = {}
    BY DEF HookInit
  <2> QED BY <2>1 DEF HookInit
<1>2. ready \in Seq(DOMAIN hooks) /\ <<>> \in Seq(DOMAIN hooks)
  BY EmptySeq DEF HookInit
<1>3. AtRest \in [batch : Seq(DOMAIN hooks), claim : 0 .. claims,
                  at : {"rest", "sending", "taken", "failed"}]
  BY <1>2, SMT DEF AtRest, HookInit
<1>4. \A w \in Servers : run[w].at = "rest"
  BY DEF HookInit, AtRest
<1> QED BY <1>1, <1>2, <1>3, <1>4 DEF HookInit, HookTypeOK

\* What a server may be at, over the deliveries and claims there are.
Dispatches(rows, last) ==
  [batch : Seq(rows), claim : 0 .. last, at : {"rest", "sending", "taken", "failed"}]

\* A dispatch stays one when there are more deliveries and claims.
LEMMA DispatchesGrow ==
  ASSUME NEW R, NEW T, R \subseteq T, NEW m \in Nat, NEW n \in Nat, m <= n
  PROVE  Dispatches(R, m) \subseteq Dispatches(T, n)
<1>1. Seq(R) \subseteq Seq(T)
  BY SeqMonotonic
<1>2. 0 .. m \subseteq 0 .. n
  BY SMT
<1> QED BY <1>1, <1>2 DEF Dispatches

\* A server moves on while the deliveries stay the same ones.
LEMMA ServerMoves ==
  ASSUME HookTypeOK, UNCHANGED unpublished,
         hooks' \in [DOMAIN hooks -> Deliveries],
         ready' \in Seq(DOMAIN hooks),
         claims' \in Nat, claims <= claims', lapsed' \subseteq 1 .. claims',
         NEW w \in Servers, NEW p \in Dispatches(DOMAIN hooks, claims'),
         p.at # "rest" => p.batch # <<>>,
         run' = [run EXCEPT ![w] = p]
  PROVE  HookTypeOK'
<1>1. Dispatches(DOMAIN hooks, claims) \subseteq Dispatches(DOMAIN hooks, claims')
  BY DispatchesGrow DEF HookTypeOK
<1>2. run \in [Servers -> Dispatches(DOMAIN hooks, claims)]
      /\ \A v \in Servers : run[v].at # "rest" => run[v].batch # <<>>
  BY DEF HookTypeOK, Dispatches
<1>3. run' \in [Servers -> Dispatches(DOMAIN hooks, claims')]
      /\ \A v \in Servers : run'[v].at # "rest" => run'[v].batch # <<>>
  BY <1>1, <1>2
<1>4. DOMAIN hooks' = DOMAIN hooks
      /\ hooks' \in [Endpoints \X (WorkEvents \ unpublished') -> Deliveries]
  BY DEF HookTypeOK
<1> QED BY <1>3, <1>4 DEF HookTypeOK, Dispatches

LEMMA RestTyped ==
  ASSUME NEW R, NEW n \in Nat
  PROVE  AtRest \in Dispatches(R, n) /\ AtRest.at = "rest"
BY EmptySeq, SMT DEF AtRest, Dispatches

\* A server at work, and what it goes on to.
LEMMA ServerFields ==
  ASSUME HookTypeOK, NEW w \in Servers
  PROVE  /\ run[w] = [batch |-> run[w].batch, claim |-> run[w].claim, at |-> run[w].at]
         /\ run[w].batch \in Seq(DOMAIN hooks) /\ run[w].claim \in 0 .. claims
         /\ run[w].at # "rest" =>
              /\ run[w].batch # <<>> /\ Current(w) \in DOMAIN hooks
              /\ Tail(run[w].batch) \in Seq(DOMAIN hooks)
<1>1. /\ run[w] = [batch |-> run[w].batch, claim |-> run[w].claim, at |-> run[w].at]
      /\ run[w].batch \in Seq(DOMAIN hooks) /\ run[w].claim \in 0 .. claims
      /\ run[w].at # "rest" => run[w].batch # <<>>
  BY DEF HookTypeOK
<1> QED BY <1>1, HeadTailProperties DEF Current

LEMMA FollowingMoves ==
  ASSUME HookTypeOK, NEW w \in Servers, run[w].at # "rest", Following(w)
  PROVE  \E p \in Dispatches(DOMAIN hooks, claims) :
           (p.at # "rest" => p.batch # <<>>) /\ run' = [run EXCEPT ![w] = p]
<1> DEFINE rest == Tail(run[w].batch)
           half == [run[w] EXCEPT !.batch = rest]
           next == [run[w] EXCEPT !.batch = rest, !.at = "sending"]
<1>1. rest \in Seq(DOMAIN hooks) /\ run[w] \in Dispatches(DOMAIN hooks, claims)
  BY ServerFields DEF HookTypeOK, Dispatches
<1>2. CASE rest = <<>>
  BY <1>2, RestTyped DEF Following, HookTypeOK
<1>3. CASE rest # <<>>
  <2>1. run' = [run EXCEPT ![w] = next]
    BY <1>3 DEF Following
  <2>2. half \in Dispatches(DOMAIN hooks, claims) /\ half.batch = rest
    BY <1>1 DEF Dispatches
  <2>3. next = [half EXCEPT !.at = "sending"]
    OBVIOUS
  <2> HIDE DEF half
  <2>4. next \in Dispatches(DOMAIN hooks, claims) /\ next.batch = rest
    BY <2>2, <2>3 DEF Dispatches
  <2> HIDE DEF next
  <2> QED BY <1>3, <2>1, <2>4
<1> QED BY <1>2, <1>3

LEMMA PublishTypes ==
  ASSUME HookTypeOK, NEW e \in WorkEvents, Publish(e)
  PROVE  HookTypeOK'
<1> DEFINE new == [state |-> "pending", attempts |-> 0, claim |-> 0]
<1>1. new \in Deliveries
  BY HookAssumption, SMT DEF Deliveries
<1>2. /\ unpublished \subseteq WorkEvents /\ unpublished' = unpublished \ {e}
      /\ hooks' = [x \in DOMAIN hooks \cup (Endpoints \X {e}) |->
                     IF x[2] = e THEN new ELSE hooks[x]]
      /\ DOMAIN hooks = Endpoints \X (WorkEvents \ unpublished)
      /\ \A x \in DOMAIN hooks : hooks[x] \in Deliveries
      /\ e \in unpublished
  BY DEF Publish, HookTypeOK
<1> HIDE DEF new
<1>3. /\ DOMAIN hooks' = Endpoints \X (WorkEvents \ unpublished')
      /\ DOMAIN hooks \subseteq DOMAIN hooks' /\ Endpoints \X {e} \subseteq DOMAIN hooks'
  BY <1>2
<1>4. \A x \in DOMAIN hooks' : hooks'[x] \in Deliveries
  <2> SUFFICES ASSUME NEW x \in DOMAIN hooks', x[2] # e PROVE x \in DOMAIN hooks
    BY <1>1, <1>2
  <2> QED BY <1>2
<1>5. hooks' \in [Endpoints \X (WorkEvents \ unpublished') -> Deliveries]
  <2>1. hooks' = [x \in DOMAIN hooks' |-> hooks'[x]]
    BY <1>2
  <2> QED BY <1>3, <1>4, <2>1
<1>6. ready' \in Seq(DOMAIN hooks')
  <2>1. PICK order \in [1 .. Cardinality(Endpoints) -> Endpoints \X {e}] : ready' = ready \o order
    BY DEF Publish
  <2>2. Cardinality(Endpoints) \in Nat
    BY HookAssumption, FS_CardinalityType
  <2>3. order \in Seq(Endpoints \X {e})
    BY <2>1, <2>2, FunctionIsSequence
  <2>4. ready \in Seq(DOMAIN hooks') /\ order \in Seq(DOMAIN hooks')
    BY <1>3, <2>3, SeqMonotonic DEF HookTypeOK
  <2> QED BY <2>1, <2>4, ConcatProperties
<1>7. UNCHANGED <<claims, lapsed, run>> /\ unpublished' \subseteq WorkEvents
  BY <1>2 DEF Publish
<1>8. run' \in [Servers -> Dispatches(DOMAIN hooks', claims')]
  <2>1. Dispatches(DOMAIN hooks, claims) \subseteq Dispatches(DOMAIN hooks', claims)
    BY <1>3, DispatchesGrow, SMT DEF HookTypeOK
  <2>2. run \in [Servers -> Dispatches(DOMAIN hooks, claims)]
    BY DEF HookTypeOK, Dispatches
  <2> QED BY <1>7, <2>1, <2>2
<1> QED BY <1>5, <1>6, <1>7, <1>8 DEF HookTypeOK, Dispatches

LEMMA ClaimHookTypes ==
  ASSUME HookTypeOK, NEW w \in Servers, ClaimDeliveries(w)
  PROVE  HookTypeOK'
<1> DEFINE taken == {ready[i] : i \in Candidates}
<1>1. claims' = claims + 1 /\ UNCHANGED <<unpublished, ready, lapsed>>
  BY DEF ClaimDeliveries
<1>2. claims' \in Nat /\ claims <= claims' /\ lapsed' \subseteq 1 .. claims'
      /\ claims' \in 0 .. claims'
  BY <1>1, SMT DEF HookTypeOK
<1>3. Candidates \subseteq 1 .. Len(ready) /\ Candidates # {}
      /\ \A x \in taken : hooks[x].attempts < HookAttempts
  BY DEF ClaimDeliveries, Candidates, Due
<1>4. hooks' \in [DOMAIN hooks -> Deliveries]
  <2>1. hooks' = [x \in DOMAIN hooks |->
          IF x \in taken
            THEN [state |-> "retrying", attempts |-> hooks[x].attempts + 1, claim |-> claims']
            ELSE hooks[x]]
    BY DEF ClaimDeliveries
  <2> HIDE DEF taken
  <2>2. \A x \in DOMAIN hooks : hooks[x] \in Deliveries
    BY DEF HookTypeOK
  <2>3. ASSUME NEW x \in DOMAIN hooks, x \in taken
        PROVE  [state |-> "retrying", attempts |-> hooks[x].attempts + 1, claim |-> claims']
                 \in Deliveries
    <3>1. hooks[x].attempts + 1 \in 0 .. HookAttempts
      BY <1>3, <2>2, <2>3, HookAssumption, SMT DEF Deliveries
    <3> QED BY <1>2, <3>1 DEF Deliveries
  <2> QED BY <2>1, <2>2, <2>3
<1>5. PICK order \in AnyOrder(Candidates) :
        run' = [run EXCEPT ![w] =
          [batch |-> At(ready, order), claim |-> claims', at |-> "sending"]]
  BY DEF ClaimDeliveries
<1> DEFINE p == [batch |-> At(ready, order), claim |-> claims', at |-> "sending"]
<1>6. At(ready, order) \in Seq(DOMAIN hooks) /\ At(ready, order) # <<>>
  BY <1>3, AtIsSequence DEF HookTypeOK
<1>7. p \in Dispatches(DOMAIN hooks, claims') /\ p.batch # <<>>
  BY <1>2, <1>6 DEF Dispatches
<1> HIDE DEF p
<1>8. run' = [run EXCEPT ![w] = p]
  BY <1>5 DEF p
<1> QED BY <1>1, <1>2, <1>4, <1>7, <1>8, ServerMoves DEF HookTypeOK

LEMMA PostTypes ==
  ASSUME HookTypeOK, NEW w \in Servers, Post(w) \/ Stop(w)
  PROVE  HookTypeOK'
<1>1. UNCHANGED <<unpublished, hooks, ready, claims, lapsed>>
  BY DEF Post, Stop
<1>2. claims \in Nat /\ claims <= claims /\ hooks \in [DOMAIN hooks -> Deliveries]
  BY SMT DEF HookTypeOK
<1>3. CASE End(w)
  <2>1. run' = [run EXCEPT ![w] = AtRest]
    BY <1>3 DEF End
  <2> QED BY <1>1, <1>2, <2>1, RestTyped, ServerMoves DEF HookTypeOK
<1>4. ASSUME NEW result \in {"taken", "failed"}, run[w].at = "sending",
             run' = [run EXCEPT ![w].at = result]
      PROVE  HookTypeOK'
  <2> DEFINE p == [batch |-> run[w].batch, claim |-> run[w].claim, at |-> result]
  <2>1. /\ run[w] = [batch |-> run[w].batch, claim |-> run[w].claim, at |-> run[w].at]
        /\ run[w].batch \in Seq(DOMAIN hooks) /\ run[w].claim \in 0 .. claims
        /\ run[w].batch # <<>>
    BY <1>4, ServerFields
  <2>2. [run[w] EXCEPT !.at = result] = p
    BY <2>1
  <2>3. run' = [run EXCEPT ![w] = p]
    BY <1>4, <2>2
  <2>4. p \in Dispatches(DOMAIN hooks, claims) /\ p.batch # <<>>
    BY <2>1 DEF Dispatches
  <2> HIDE DEF p
  <2> QED BY <1>1, <1>2, <2>3, <2>4, ServerMoves DEF HookTypeOK
<1> QED BY <1>3, <1>4 DEF Post, Stop

LEMMA CompleteTypes ==
  ASSUME HookTypeOK, NEW w \in Servers, CompleteDelivery(w)
  PROVE  HookTypeOK'
<1> DEFINE x == Current(w)
<1>1. run[w].at # "rest" /\ UNCHANGED <<unpublished, claims, lapsed>>
  BY DEF CompleteDelivery
<1>2. claims \in Nat /\ claims <= claims /\ hooks \in [DOMAIN hooks -> Deliveries]
      /\ x \in DOMAIN hooks
  BY <1>1, ServerFields, SMT DEF HookTypeOK
<1>3. ready' \in Seq(DOMAIN hooks)
  BY WithoutIsSequence DEF CompleteDelivery, HookTypeOK
<1>4. hooks' \in [DOMAIN hooks -> Deliveries]
  <2>1. CASE UNCHANGED hooks
    BY <1>2, <2>1
  <2>2. CASE hooks' = [hooks EXCEPT ![x].state = Outcome(w, x), ![x].claim = 0]
    <3>1. Outcome(w, x) \in {"delivered", "dead_letter", "retrying"}
      <4>1. hooks[x].attempts \in Int /\ HookAttempts \in Int
        BY <1>2, HookAssumption, SMT DEF Deliveries
      <4>2. hooks[x].attempts >= HookAttempts \/ hooks[x].attempts < HookAttempts
        BY <4>1, SMT
      <4> QED BY <4>2 DEF Outcome
    <3> DEFINE outcome == Outcome(w, x)
               half == [hooks EXCEPT ![x].state = outcome]
    <3>2. hooks' = [half EXCEPT ![x].claim = 0]
      BY <2>2
    <3> HIDE DEF outcome, x
    <3>3. half \in [DOMAIN hooks -> Deliveries]
      BY <1>2, <3>1 DEF Deliveries, outcome
    <3> HIDE DEF half
    <3> QED BY <1>2, <3>2, <3>3 DEF Deliveries
  <2> QED BY <2>1, <2>2 DEF CompleteDelivery
<1>5. CASE End(w)
  <2>1. run' = [run EXCEPT ![w] = AtRest]
    BY <1>5 DEF End
  <2> QED BY <1>1, <1>2, <1>3, <1>4, <2>1, RestTyped, ServerMoves DEF HookTypeOK
<1>6. CASE Following(w)
  <2>1. PICK p \in Dispatches(DOMAIN hooks, claims) :
          (p.at # "rest" => p.batch # <<>>) /\ run' = [run EXCEPT ![w] = p]
    BY <1>1, <1>6, FollowingMoves
  <2> QED BY <1>1, <1>2, <1>3, <1>4, <2>1, ServerMoves DEF HookTypeOK
<1> QED BY <1>5, <1>6 DEF CompleteDelivery

LEMMA HookTypesStep == HookTypeOK /\ [HookNext]_hookVars => HookTypeOK'
<1> SUFFICES ASSUME HookTypeOK, [HookNext]_hookVars PROVE HookTypeOK'
  OBVIOUS
<1>1. ASSUME NEW c \in 1 .. claims, Lapse(c) PROVE HookTypeOK'
  BY <1>1 DEF Lapse, HookTypeOK
<1>2. ASSUME NEW x \in DOMAIN hooks, WaitOver(x) PROVE HookTypeOK'
  <2>1. ready' \in Seq(DOMAIN hooks)
    BY <1>2, AppendProperties DEF WaitOver, HookTypeOK
  <2> QED BY <1>2, <2>1 DEF WaitOver, HookTypeOK
<1>3. CASE UNCHANGED hookVars
  BY <1>3 DEF hookVars, HookTypeOK
<1> QED
  BY <1>1, <1>2, <1>3, PublishTypes, ClaimHookTypes, PostTypes, CompleteTypes DEF HookNext

\* A claim takes what is due, and what has a verdict is not; a completion asks for the
\* state retrying.
LEMMA HookVerdictStep ==
  ASSUME HookTypeOK, [HookNext]_hookVars, NEW x \in DOMAIN hooks, HasVerdict(x)
  PROVE hooks'[x] = hooks[x]
<1>1. ASSUME NEW e \in WorkEvents, Publish(e) PROVE hooks'[x] = hooks[x]
  <2>1. x[2] # e BY <1>1 DEF HookTypeOK, Publish
  <2> QED BY <1>1, <2>1 DEF Publish
<1>2. ASSUME NEW w \in Servers, ClaimDeliveries(w) PROVE hooks'[x] = hooks[x]
  <2>1. ~Due(x) BY DEF Due, HasVerdict
  <2>2. \A i \in Candidates : Due(ready[i]) BY DEF Candidates
  <2>3. x \notin {ready[i] : i \in Candidates} BY <2>1, <2>2
  <2> QED BY <1>2, <2>3 DEF ClaimDeliveries
<1>3. ASSUME NEW w \in Servers, CompleteDelivery(w) PROVE hooks'[x] = hooks[x]
  <2>1. CASE hooks[Current(w)].state = "retrying"
    <3>1. x # Current(w) BY <2>1 DEF HasVerdict
    <3> QED BY <1>3, <2>1, <3>1 DEF CompleteDelivery
  <2>2. CASE hooks[Current(w)].state # "retrying"
    BY <1>3, <2>2 DEF CompleteDelivery
  <2> QED BY <2>1, <2>2
<1>4. CASE UNCHANGED hooks
  BY <1>4
<1> QED
  BY <1>1, <1>2, <1>3, <1>4 DEF HookNext, Post, Stop, Lapse, WaitOver, hookVars

\* A delivered or dead-lettered webhook stays so in every step: whatever servers claim
\* or report of it, under claims that stand or have lapsed (claim_webhook_deliveries,
\* complete_webhook_delivery).
THEOREM VerdictsStand == HookSpec => HookVerdictsStand
<1>1. HookTypeOK /\ [HookNext]_hookVars
        => [\A x \in DOMAIN hooks : HasVerdict(x) => hooks'[x] = hooks[x]]_hookVars
  BY HookVerdictStep
<1> QED
  BY <1>1, HookTypesStart, HookTypesStep, PTL DEF HookSpec, HookVerdictsStand

---------------------------------------------------------------------------
(* The components side by side: they share no variable, so that a step of  *)
(* one is a stutter of the others.                                         *)

LEMMA FleetStart == MCInit => ControlInit /\ IngestInit /\ BridgeInit /\ HookInit
BY DEF MCInit

LEMMA FleetSteps ==
  [MCNext]_MCVars => /\ [ControlNext]_controlVars /\ [IngestNext]_ingestVars
                     /\ [BridgeNext]_bridgeVars /\ [HookNext]_hookVars
BY DEF MCNext, MCVars

\* Every reachable state of the composed components is well typed: what is queued,
\* claimed, sent or stored is on file, and attempts and cursors keep to their limits,
\* for any number of cases, pollers, dispatchers, servers and endpoints.
THEOREM FleetTypeCorrect == MCSpec => []MCTypeOK
<1>1. ControlInv /\ ControlTypeOK /\ [ControlNext]_controlVars => (ControlInv /\ ControlTypeOK)'
  BY ControlStep, ControlTypesStep
<1>2. FeedInv /\ IngestTypeOK /\ [IngestNext]_ingestVars => (FeedInv /\ IngestTypeOK)'
  BY FeedStep, IngestTypesStep
<1> QED
  BY <1>1, <1>2, FleetStart, FleetSteps, ControlStart, ControlTypesStart, FeedInit,
     IngestTypesStart, BridgeAll, BridgeTyped, HookTypesStart, HookTypesStep, PTL
     DEF MCSpec, MCTypeOK
============================================================================
