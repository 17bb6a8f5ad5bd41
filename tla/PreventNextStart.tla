-------------------------- MODULE PreventNextStart --------------------------
(***************************************************************************)
(* The control that keeps a rented vehicle from starting again: stored     *)
(* procedures of migration 0059, the operators who call them through       *)
(* vehicleAccess.ts, and the workers that carry a command to the device.   *)
(* Each procedure is one transaction and one action.  Evidence, reasons,   *)
(* idempotency keys and the event journal are left out; a repeated call    *)
(* returns what the first one did.                                         *)
(***************************************************************************)
EXTENDS Integers, Sequences

CONSTANTS
  Operators,   \* users with the operator role
  Workers,     \* dispatch requests that may overlap
  Cases,       \* identities of prevent-next-start cases
  Contracts,   \* rental contracts
  ContractOf,  \* the contract of each case
  Nobody,      \* SQL NULL for a user, a claim token and a case
  MaxSignals,  \* bound: payment signals of a contract
  MaxLapses    \* bound: worker crashes

ASSUME ControlAssumption ==
  /\ ContractOf \in [Cases -> Contracts]
  /\ Nobody \notin Operators \cup Workers \cup Cases
  /\ MaxSignals \in Nat /\ MaxLapses \in Nat

VARIABLES
  payments,  \* payment tracking signals of each contract, oldest first
  halted,    \* contracts whose vehicle shows fresh, parked, without emergency
  kase,      \* prevent_next_start_case
  expired,   \* cases whose ten minutes are over
  command,   \* prevent_next_start_command, one for each case
  worker,    \* where each dispatch is
  adapter,   \* a command adapter is configured
  sent,      \* requests that have left for the adapter, for each case
  unsent,    \* cases a worker has given up because no adapter is configured
  lapses     \* crashes so far

controlVars ==
  <<payments, halted, kase, expired, command, worker, adapter, sent, unsent, lapses>>
rowVars == <<kase, command>>

OpenStates == {"requested", "authorized", "dispatched"}

\* requested_at and authorized_at are set with the users and never cleared.
Case == [state : {"none", "acknowledged", "cancelled", "failed"} \cup OpenStates,
         requestedBy : Operators \cup {Nobody}, authorizedBy : Operators \cup {Nobody},
         signal : 0 .. MaxSignals]

Command == [state : {"none", "authorized", "claimed", "dispatched", "acknowledged",
                     "failed", "cancelled"},
            claimToken : Workers \cup {Nobody}, dispatchedAt : BOOLEAN]

NoCase == [state |-> "none", requestedBy |-> Nobody, authorizedBy |-> Nobody, signal |-> 0]
NoCommand == [state |-> "none", claimToken |-> Nobody, dispatchedAt |-> FALSE]
IdleWorker == [at |-> "idle", case |-> Nobody]

ControlTypeOK ==
  /\ payments \in [Contracts -> Seq({"past_due", "cured"})]
  /\ \A k \in Contracts : Len(payments[k]) <= MaxSignals
  /\ halted \subseteq Contracts
  /\ kase \in [Cases -> Case]
  /\ expired \subseteq Cases
  /\ command \in [Cases -> Command]
  /\ worker \in [Workers -> [at : {"idle", "claimed", "marked", "accepted", "refused"},
                             case : Cases \cup {Nobody}]]
  /\ adapter \in BOOLEAN
  /\ sent \in [Cases -> Nat]
  /\ unsent \subseteq Cases
  /\ lapses \in 0 .. MaxLapses

ControlInit ==
  /\ payments = [k \in Contracts |-> <<>>]
  /\ halted \in SUBSET Contracts
  /\ kase = [c \in Cases |-> NoCase]
  /\ expired = {}
  /\ command = [c \in Cases |-> NoCommand]
  /\ worker = [w \in Workers |-> IdleWorker]
  /\ adapter \in BOOLEAN
  /\ sent = [c \in Cases |-> 0]
  /\ unsent = {}
  /\ lapses = 0

---------------------------------------------------------------------------
\* record_rental_payment_tracking_signal: a past due signal counts once its grace
\* has elapsed, which is when it is shown here.
RecordPayment(k, state) ==
  /\ Len(payments[k]) < MaxSignals
  /\ payments' = [payments EXCEPT ![k] = Append(@, state)]
  /\ UNCHANGED <<halted, rowVars, expired, worker, adapter, sent, unsent, lapses>>

\* The vehicle starts, parks or stops reporting; an emergency is flagged or ages.
Drive(k) ==
  /\ halted' = IF k \in halted THEN halted \ {k} ELSE halted \cup {k}
  /\ UNCHANGED <<payments, rowVars, expired, worker, adapter, sent, unsent, lapses>>

\* Ten minutes have passed since the request of an open case.
Expire(c) ==
  /\ kase[c].state \in {"requested", "authorized"}
  /\ expired' = expired \cup {c}
  /\ UNCHANGED <<payments, halted, rowVars, worker, adapter, sent, unsent, lapses>>

---------------------------------------------------------------------------
\* Mistake: a payment that falls due again takes back the cure.
UncuredLately(c) ==
  LET history == payments[ContractOf[c]]
  IN history[kase[c].signal] = "past_due" /\ history[Len(history)] # "cured"

Uncured(c) ==
  LET history == payments[ContractOf[c]]
      signal == kase[c].signal
  IN history[signal] = "past_due" /\ \A i \in signal + 1 .. Len(history) : history[i] # "cured"

\* assert_prevent_next_start_interlocks.
Interlocks(c) ==
  /\ kase[c].state \in {"requested", "authorized"}
  /\ c \notin expired
  /\ ContractOf[c] \in halted
  /\ Uncured(c)

\* The CHECK constraints of the two tables.
CaseHolds(row) ==
  /\ row.state \in OpenStates \cup {"acknowledged"} <=> row.requestedBy # Nobody
  /\ row.state \in {"authorized", "dispatched", "acknowledged"} <=> row.authorizedBy # Nobody
  /\ row.authorizedBy # Nobody => row.authorizedBy # row.requestedBy

CommandHolds(row) ==
  /\ row.state \in {"claimed", "dispatched", "acknowledged"} <=> row.claimToken # Nobody
  /\ row.state \in {"dispatched", "acknowledged"} <=> row.dispatchedAt

\* A transaction that would break a constraint is aborted.
Write(c, caseRow, commandRow) ==
  IF CaseHolds(caseRow) /\ CommandHolds(commandRow)
    THEN kase' = [kase EXCEPT ![c] = caseRow] /\ command' = [command EXCEPT ![c] = commandRow]
    ELSE UNCHANGED rowVars

\* Mistake: a second open case of a contract is let in.
OthersOpenIgnored(c) == {}

\* The unique index on the open cases of a contract.
OthersOpen(c) ==
  {d \in Cases \ {c} : ContractOf[d] = ContractOf[c] /\ kase[d].state \in OpenStates}

RequestControl(o, c, signal) ==
  /\ kase[c] = NoCase /\ OthersOpen(c) = {}
  /\ signal \in DOMAIN payments[ContractOf[c]]
  /\ kase' = [kase EXCEPT ![c] = [NoCase EXCEPT
                !.state = "requested", !.requestedBy = o, !.signal = signal]]
  /\ UNCHANGED <<payments, halted, expired, command, worker, adapter, sent, unsent, lapses>>
  /\ Interlocks(c)'

AuthorizeControl(o, c) ==
  /\ kase[c].state = "requested" /\ kase[c].requestedBy # o
  /\ Interlocks(c)
  /\ Write(c, [kase[c] EXCEPT !.state = "authorized", !.authorizedBy = o],
              [NoCommand EXCEPT !.state = "authorized"])
  /\ UNCHANGED <<payments, halted, expired, worker, adapter, sent, unsent, lapses>>

\* cancel_prevent_next_start would cancel the case and a command that is not sent;
\* requested_at stays, so the constraint aborts it.
CancelControl(c) ==
  /\ kase[c].state \in {"requested", "authorized"}
  /\ Write(c, [kase[c] EXCEPT !.state = "cancelled"],
              IF command[c].state \in {"authorized", "claimed"}
                THEN [command[c] EXCEPT !.state = "cancelled"] ELSE command[c])
  /\ UNCHANGED <<payments, halted, expired, worker, adapter, sent, unsent, lapses>>

---------------------------------------------------------------------------
\* claim_prevent_next_start_command: the oldest command that no other transaction
\* has locked, which may be any of them.  A command is claimed once and for all.
ClaimCommand(w, c) ==
  /\ worker[w] = IdleWorker
  /\ command[c].state = "authorized" /\ kase[c].state = "authorized"
  /\ Interlocks(c)
  /\ Write(c, kase[c], [command[c] EXCEPT !.state = "claimed", !.claimToken = w])
  /\ worker' = [worker EXCEPT ![w] = [at |-> "claimed", case |-> c]]
  /\ UNCHANGED <<payments, halted, expired, adapter, sent, unsent, lapses>>

Held(w, state) ==
  LET c == worker[w].case IN
  worker[w].at # "idle" /\ command[c].state = state /\ command[c].claimToken = w

\* Without an adapter the worker fails the command it has claimed and reports it as
\* blocked; the constraints abort that as well and the report is an error.
GiveUpUnsent(w) ==
  LET c == worker[w].case IN
  /\ worker[w].at = "claimed" /\ ~adapter
  /\ IF Held(w, "claimed")
       THEN Write(c, [kase[c] EXCEPT !.state = "failed"], [command[c] EXCEPT !.state = "failed"])
       ELSE UNCHANGED rowVars
  /\ unsent' = unsent \cup {c}
  /\ worker' = [worker EXCEPT ![w] = IdleWorker]
  /\ UNCHANGED <<payments, halted, expired, adapter, sent, lapses>>

\* The command is marked before it is sent, under the interlocks; otherwise the
\* worker ends with an error and leaves the command claimed.
MarkDispatched(w) ==
  LET c == worker[w].case IN
  /\ worker[w].at = "claimed" /\ adapter
  /\ IF Held(w, "claimed") /\ Interlocks(c)
       THEN /\ Write(c, [kase[c] EXCEPT !.state = "dispatched"],
                        [command[c] EXCEPT !.state = "dispatched", !.dispatchedAt = TRUE])
            /\ worker' = [worker EXCEPT ![w].at = "marked"]
       ELSE UNCHANGED rowVars /\ worker' = [worker EXCEPT ![w] = IdleWorker]
  /\ UNCHANGED <<payments, halted, expired, adapter, sent, unsent, lapses>>

\* Mistake: a request without an answer is sent again.
SendAgain(w) ==
  /\ worker[w].at = "marked"
  /\ sent' = [sent EXCEPT ![worker[w].case] = @ + 1]
  /\ \/ \E answer \in {"accepted", "refused"} : worker' = [worker EXCEPT ![w].at = answer]
     \/ UNCHANGED worker
  /\ UNCHANGED <<payments, halted, rowVars, expired, adapter, unsent, lapses>>

\* The adapter accepts or refuses the command, or does not answer in time or in
\* form: then the command stays dispatched and nobody sends it again.
Send(w) ==
  /\ worker[w].at = "marked"
  /\ sent' = [sent EXCEPT ![worker[w].case] = @ + 1]
  /\ \/ \E answer \in {"accepted", "refused"} : worker' = [worker EXCEPT ![w].at = answer]
     \/ worker' = [worker EXCEPT ![w] = IdleWorker]
  /\ UNCHANGED <<payments, halted, rowVars, expired, adapter, unsent, lapses>>

\* complete_prevent_next_start_command: a failure runs into the constraints too.
Complete(w) ==
  LET c == worker[w].case
      outcome == IF worker[w].at = "accepted" THEN "acknowledged" ELSE "failed"
  IN /\ worker[w].at \in {"accepted", "refused"}
     /\ IF Held(w, "dispatched")
          THEN Write(c, [kase[c] EXCEPT !.state = outcome], [command[c] EXCEPT !.state = outcome])
          ELSE UNCHANGED rowVars
     /\ worker' = [worker EXCEPT ![w] = IdleWorker]
     /\ UNCHANGED <<payments, halted, expired, adapter, sent, unsent, lapses>>

\* The process stops; no lease gives the command to another worker.
LoseWorker(w) ==
  /\ worker[w] # IdleWorker
  /\ lapses < MaxLapses
  /\ lapses' = lapses + 1
  /\ worker' = [worker EXCEPT ![w] = IdleWorker]
  /\ UNCHANGED <<payments, halted, rowVars, expired, adapter, sent, unsent>>

---------------------------------------------------------------------------
ControlNext ==
  \/ \E k \in Contracts : Drive(k) \/ \E state \in {"past_due", "cured"} : RecordPayment(k, state)
  \/ \E c \in Cases :
       \/ Expire(c) \/ CancelControl(c)
       \/ \E o \in Operators :
            AuthorizeControl(o, c) \/ \E i \in 1 .. MaxSignals : RequestControl(o, c, i)
       \/ \E w \in Workers : ClaimCommand(w, c)
  \/ \E w \in Workers :
       GiveUpUnsent(w) \/ MarkDispatched(w) \/ Send(w) \/ Complete(w) \/ LoseWorker(w)

ControlSpec == ControlInit /\ [][ControlNext]_controlVars

---------------------------------------------------------------------------
\* Whatever crashes, a device gets one request for a case, and only after two
\* operators have agreed; what is acknowledged has been sent.
SentOnceByTwo ==
  \A c \in Cases :
    /\ sent[c] <= 1
    /\ sent[c] = 1 => {kase[c].requestedBy, kase[c].authorizedBy} \subseteq Operators
                      /\ kase[c].requestedBy # kase[c].authorizedBy
    /\ kase[c].state = "acknowledged" => sent[c] = 1

\* Once the payment of a case is cured or its ten minutes are over before its command
\* is marked, the device never gets a request for it: not when the payment falls due
\* again, when another operator authorizes the case late, or when a worker has claimed
\* the command before.
CuredStaysUnsent ==
  \A c \in Cases :
    [](kase[c].state \in {"requested", "authorized"} /\ (c \in expired \/ ~Uncured(c))
         => [](sent[c] = 0))

\* A contract has one live command at most, whichever operators and workers race:
\* the index is on the cases, and the commands follow them.
OneLiveCommand ==
  \A c, d \in Cases :
    c # d /\ ContractOf[c] = ContractOf[d]
      => "none" \in {command[c].state, command[d].state}
         \/ "acknowledged" \in {command[c].state, command[d].state}

\* What the tests expect of a worker without an adapter: the command it has claimed
\* ends as failed.  The constraints do not let it.
UnsentFails == \A c \in unsent : command[c].state = "failed"
============================================================================
