--------------------------- MODULE VehicleRentals --------------------------
(***************************************************************************)
(* The rental of vehicles to gig workers: contracts, blocks of a vehicle's *)
(* availability and extensions of a contract.  The procedures of migration *)
(* 0050, most of them replaced by 0058, are all the application calls, and *)
(* each one that decides holds the row of the vehicle meanwhile, so each   *)
(* is one action.  A row that breaks a check of its table aborts the       *)
(* procedure that writes it: the action is not enabled then.               *)
(*                                                                         *)
(* Time is a number of days; a span takes in its first day and leaves its  *)
(* last one out.  Whatever is asked concerns days to come, so no clock is  *)
(* needed.  A call with a key seen before changes nothing and is left out. *)
(* Workers are eligible, offers active and their minimum term is a day.    *)
(***************************************************************************)
EXTENDS Integers

CONSTANTS
  Assets,
  Contracts,    \* a row of access_contract each, inserted when it is requested
  Blocks,       \* a row of asset_availability_block each
  AssetOf,      \* the vehicle of a contract or a block
  LastDay,      \* spans lie in 1 .. LastDay
  LongestTerm   \* the days an extended contract may have: 365 in the code

ASSUME RentalAssumption ==
  /\ AssetOf \in [Contracts \cup Blocks -> Assets]
  /\ LastDay \in Nat \ {0}
  /\ LongestTerm \in Nat

VARIABLES
  asset,      \* vehicle_asset: its state
  contract,   \* access_contract, with the evidence filed for it
  block,      \* asset_availability_block
  extension   \* contract_extension_request: the end asked for, 0 when none is open

rentalVars == <<asset, contract, block, extension>>

Days == 1 .. LastDay

(***************************************************************************)
(* The states of vehicle_asset that a procedure gives, and of the rows.    *)
(* `approved`, `activated` and `suspended` say which of the columns        *)
(* approved_by_user_id, activated_at and suspension_reason are not NULL.   *)
(***************************************************************************)
AssetStates ==
  {"intake", "available", "reserved", "active_access", "return_pending", "safety_hold"}

Agreements ==
  [state : {"none", "requested", "approved", "active", "return_pending", "closed",
            "cancelled", "suspended"},
   from : Days, to : Days, approved : BOOLEAN, activated : BOOLEAN, suspended : BOOLEAN,
   accepted : BOOLEAN, inspected : SUBSET {"handover", "return"}]

Outages == [state : {"none", "active", "cancelled"}, from : Days, to : Days]

(***************************************************************************)
(* tstzrange(starts_at, ends_at, '[)') && ...                              *)
(***************************************************************************)
Overlaps(row, from, to) == row.from < to /\ from < row.to

Blocked(a, from, to) ==
  \E b \in Blocks : AssetOf[b] = a /\ block[b].state = "active" /\ Overlaps(block[b], from, to)

(***************************************************************************)
(* What access_contract demands of a row: two of its checks, and that the  *)
(* spans of contracts which occupy one vehicle are disjoint.               *)
(***************************************************************************)
Occupying == {"approved", "active", "return_pending"}

TableChecks(row) ==
  /\ (row.state \in {"approved", "active", "return_pending", "closed", "suspended"}) = row.approved
  /\ (row.state \in {"active", "return_pending", "closed", "suspended"}) = row.activated

Excluded(c, row) ==
  /\ row.state \in Occupying
  /\ \E d \in Contracts \ {c} :
       /\ AssetOf[d] = AssetOf[c]
       /\ contract[d].state \in Occupying
       /\ Overlaps(contract[d], row.from, row.to)

Write(c, row) ==
  /\ TableChecks(row)
  /\ ~Excluded(c, row)
  /\ contract' = [contract EXCEPT ![c] = row]

RentalInit ==
  /\ asset = [a \in Assets |-> "intake"]
  /\ contract = [c \in Contracts |->
       [state |-> "none", from |-> 1, to |-> 1, approved |-> FALSE, activated |-> FALSE,
        suspended |-> FALSE, accepted |-> FALSE, inspected |-> {}]]
  /\ block = [b \in Blocks |-> [state |-> "none", from |-> 1, to |-> 1]]
  /\ extension = [c \in Contracts |-> 0]

(***************************************************************************)
(* activate_asset, once the five kinds of evidence are filed.              *)
(***************************************************************************)
ActivateAsset(a) ==
  /\ asset[a] = "intake"
  /\ asset' = [asset EXCEPT ![a] = "available"]
  /\ UNCHANGED <<contract, block, extension>>

(***************************************************************************)
(* request_contract, also on behalf of request_contract_with_add_ons.      *)
(* Several workers may have requested the same days.                       *)
(***************************************************************************)
RequestContract(c, from, to) ==
  /\ contract[c].state = "none"
  /\ from < to
  /\ asset[AssetOf[c]] = "available"
  /\ ~Blocked(AssetOf[c], from, to)
  /\ Write(c, [contract[c] EXCEPT !.state = "requested", !.from = from, !.to = to])
  /\ UNCHANGED <<asset, block, extension>>

(***************************************************************************)
(* record_agreement_acceptance and record_inspection                       *)
(***************************************************************************)
AcceptAgreement(c) ==
  /\ contract[c].state \in {"requested", "approved"}
  /\ contract' = [contract EXCEPT ![c].accepted = TRUE]
  /\ UNCHANGED <<asset, block, extension>>

RecordInspection(c, kind) ==
  /\ kind = "handover" => contract[c].state = "approved"
  /\ kind = "return" => contract[c].state \in {"active", "return_pending"}
  /\ contract' = [contract EXCEPT ![c].inspected = @ \cup {kind}]
  /\ UNCHANGED <<asset, block, extension>>

(***************************************************************************)
(* transition_contract: one action for each p_action.  The vehicle changes *)
(* with the contract, except when a mere request is cancelled.             *)
(***************************************************************************)
MoveTo(c, row, vehicle) ==
  /\ Write(c, row)
  /\ asset' = [asset EXCEPT ![AssetOf[c]] = vehicle]
  /\ UNCHANGED <<block, extension>>

Cancel(c) ==
  /\ contract[c].state \in {"requested", "approved"}
  /\ MoveTo(c, [contract[c] EXCEPT !.state = "cancelled"],
            IF contract[c].state = "approved" THEN "available" ELSE asset[AssetOf[c]])

\* Mistake: the vehicle may be taken since the request.
ApproveTaken(c) ==
  /\ contract[c].state = "requested"
  /\ ~Blocked(AssetOf[c], contract[c].from, contract[c].to)
  /\ MoveTo(c, [contract[c] EXCEPT !.state = "approved", !.approved = TRUE], "reserved")

Approve(c) ==
  /\ contract[c].state = "requested"
  /\ asset[AssetOf[c]] = "available"
  /\ ~Blocked(AssetOf[c], contract[c].from, contract[c].to)
  /\ MoveTo(c, [contract[c] EXCEPT !.state = "approved", !.approved = TRUE], "reserved")

Handover(c) ==
  /\ contract[c].state = "approved"
  /\ "handover" \in contract[c].inspected
  /\ contract[c].accepted
  /\ MoveTo(c, [contract[c] EXCEPT !.state = "active", !.activated = TRUE], "active_access")

BeginReturn(c) ==
  /\ contract[c].state = "active"
  /\ MoveTo(c, [contract[c] EXCEPT !.state = "return_pending"], "return_pending")

Close(c) ==
  /\ contract[c].state = "return_pending"
  /\ "return" \in contract[c].inspected
  /\ MoveTo(c, [contract[c] EXCEPT !.state = "closed"], "available")

Suspend(c) ==
  /\ contract[c].state \in Occupying
  /\ MoveTo(c, [contract[c] EXCEPT !.state = "suspended", !.suspended = TRUE], "safety_hold")

BeginSafeReturn(c) ==
  /\ contract[c].state = "suspended"
  /\ MoveTo(c, [contract[c] EXCEPT !.state = "return_pending"], "return_pending")

(***************************************************************************)
(* create_availability_block refuses days of contracts that are asked for  *)
(* or run, not of suspended ones; the spans of active blocks of a vehicle  *)
(* exclude one another.                                                    *)
(***************************************************************************)
CreateBlock(b, from, to) ==
  /\ block[b].state = "none"
  /\ from < to
  /\ \A c \in Contracts :
       AssetOf[c] = AssetOf[b] /\ contract[c].state \in Occupying \cup {"requested"}
         => ~Overlaps(contract[c], from, to)
  /\ ~Blocked(AssetOf[b], from, to)
  /\ block' = [block EXCEPT ![b] = [state |-> "active", from |-> from, to |-> to]]
  /\ UNCHANGED <<asset, contract, extension>>

CancelBlock(b) ==
  /\ block[b].state = "active"
  /\ block' = [block EXCEPT ![b].state = "cancelled"]
  /\ UNCHANGED <<asset, contract, extension>>

(***************************************************************************)
(* request_contract_extension and decide_contract_extension.  The decision *)
(* does not ask which state the contract has reached meanwhile.            *)
(***************************************************************************)
RequestExtension(c, to) ==
  /\ contract[c].state \in {"approved", "active"}
  /\ extension[c] = 0
  /\ contract[c].to < to /\ to <= contract[c].from + LongestTerm
  /\ ~Blocked(AssetOf[c], contract[c].to, to)
  /\ extension' = [extension EXCEPT ![c] = to]
  /\ UNCHANGED <<asset, contract, block>>

\* Mistake: the blocks are looked at when the extension is asked for only.
ApproveExtensionAsAsked(c) ==
  /\ extension[c] # 0
  /\ Write(c, [contract[c] EXCEPT !.to = extension[c]])
  /\ extension' = [extension EXCEPT ![c] = 0]
  /\ UNCHANGED <<asset, block>>

ApproveExtension(c) ==
  /\ extension[c] # 0
  /\ ~Blocked(AssetOf[c], contract[c].to, extension[c])
  /\ Write(c, [contract[c] EXCEPT !.to = extension[c]])
  /\ extension' = [extension EXCEPT ![c] = 0]
  /\ UNCHANGED <<asset, block>>

RejectExtension(c) ==
  /\ extension[c] # 0
  /\ extension' = [extension EXCEPT ![c] = 0]
  /\ UNCHANGED <<asset, contract, block>>

TransitionContract(c) ==
  \/ Cancel(c) \/ Approve(c) \/ Handover(c) \/ BeginReturn(c)
  \/ Close(c) \/ Suspend(c) \/ BeginSafeReturn(c)

RentalNext ==
  \/ \E a \in Assets : ActivateAsset(a)
  \/ \E c \in Contracts :
       \/ \E from, to \in Days : RequestContract(c, from, to)
       \/ AcceptAgreement(c)
       \/ \E kind \in {"handover", "return"} : RecordInspection(c, kind)
       \/ TransitionContract(c)
       \/ \E to \in Days : RequestExtension(c, to)
       \/ ApproveExtension(c) \/ RejectExtension(c)
  \/ \E b \in Blocks :
       \/ \E from, to \in Days : CreateBlock(b, from, to)
       \/ CancelBlock(b)

RentalSpec == RentalInit /\ [][RentalNext]_rentalVars

RentalTypeOK ==
  /\ asset \in [Assets -> AssetStates]
  /\ contract \in [Contracts -> Agreements]
  /\ block \in [Blocks -> Outages]
  /\ extension \in [Contracts -> Days \cup {0}]

(***************************************************************************)
(* What the vehicle is doing while a contract holds it.                    *)
(***************************************************************************)
Holding == Occupying \cup {"suspended"}

UseIn(state) ==
  IF state = "approved" THEN "reserved"
  ELSE IF state = "active" THEN "active_access"
  ELSE IF state = "suspended" THEN "safety_hold"
  ELSE "return_pending"

(***************************************************************************)
(* A vehicle is held by one contract at most, says what that contract      *)
(* does with it, and is neither taken in nor available only while there is *)
(* such a contract: no order of requests, approvals, suspensions and       *)
(* returns gives a vehicle to two workers or loses it (the updates of      *)
(* vehicle_asset in transition_contract, and the checks before them).      *)
(***************************************************************************)
AssetFollowsContract ==
  \A a \in Assets :
    LET holders == {c \in Contracts : AssetOf[c] = a /\ contract[c].state \in Holding}
    IN  /\ \A c, d \in holders : c = d
        /\ \A c \in holders : asset[a] = UseIn(contract[c].state)
        /\ holders = {} => asset[a] \in {"intake", "available"}

(***************************************************************************)
(* No active block covers a day of a contract that is asked for or runs,   *)
(* however blocks, requests, approvals and extensions alternate: each of   *)
(* them checks the other before it writes.  A suspension is the exception: *)
(* blocks are put over a suspended contract, and it returns under them.    *)
(***************************************************************************)
BlocksKeepClear ==
  \A c \in Contracts, b \in Blocks :
    /\ AssetOf[b] = AssetOf[c]
    /\ block[b].state = "active"
    /\ contract[c].state \in Occupying \cup {"requested"}
    /\ ~contract[c].suspended
    => ~Overlaps(block[b], contract[c].from, contract[c].to)
============================================================================
