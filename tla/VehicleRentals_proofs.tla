----------------------- MODULE VehicleRentals_proofs -----------------------
(***************************************************************************)
(* Proofs about VehicleRentals, for any vehicles, contracts and blocks and *)
(* any days.  What happens to the vehicle of a contract depends on the     *)
(* states of the contracts only, so the argument is made on the function   *)
(* from contracts to states, in a few lemmas: a contract takes or keeps    *)
(* its vehicle, releases it, or moves without one.  The rest of the        *)
(* inductive invariant says that the checks of the table hold of every     *)
(* row, that a suspended row is marked as such, and that an active block   *)
(* has a first day before its last.                                        *)
(***************************************************************************)
EXTENDS VehicleRentals, TLAPS

States == {"none", "requested", "approved", "active", "return_pending", "closed",
           "cancelled", "suspended"}

StateOf == [c \in Contracts |-> contract[c].state]

(***************************************************************************)
(* AssetFollowsContract for given states q of the contracts and v of the   *)
(* vehicles.                                                               *)
(***************************************************************************)
Follows(q, v) ==
  /\ \A c, d \in Contracts :
       AssetOf[c] = AssetOf[d] /\ q[c] \in Holding /\ q[d] \in Holding => c = d
  /\ \A c \in Contracts : q[c] \in Holding => v[AssetOf[c]] = UseIn(q[c])
  /\ \A a \in Assets :
       v[a] \notin {"intake", "available"}
         => \E c \in Contracts : AssetOf[c] = a /\ q[c] \in Holding

RowsSound ==
  /\ \A c \in Contracts : /\ TableChecks(contract[c])
                          /\ contract[c].state = "suspended" => contract[c].suspended
  /\ \A b \in Blocks : block[b].state = "active" => block[b].from < block[b].to

RentalInv ==
  /\ RentalTypeOK
  /\ Follows(StateOf, asset)
  /\ RowsSound
  /\ BlocksKeepClear

LEMMA HeldIsUsed ==
  ASSUME NEW s \in Holding PROVE UseIn(s) \notin {"intake", "available"}
BY DEF Holding, Occupying, UseIn

LEMMA VehicleKnown ==
  ASSUME NEW c \in Contracts \cup Blocks PROVE AssetOf[c] \in Assets
BY RentalAssumption

(***************************************************************************)
(* A contract takes a free vehicle, or does something else with its own.   *)
(***************************************************************************)
LEMMA Takes ==
  ASSUME NEW q \in [Contracts -> States], NEW v \in [Assets -> AssetStates],
         NEW c \in Contracts, NEW s \in Holding,
         Follows(q, v), q[c] \in Holding \/ v[AssetOf[c]] = "available"
  PROVE Follows([q EXCEPT ![c] = s], [v EXCEPT ![AssetOf[c]] = UseIn(s)])
<1> DEFINE q2 == [q EXCEPT ![c] = s]
           v2 == [v EXCEPT ![AssetOf[c]] = UseIn(s)]
<1>1. \A d \in Contracts : q2[d] = IF d = c THEN s ELSE q[d]
  OBVIOUS
<1>2. \A a \in Assets : v2[a] = IF a = AssetOf[c] THEN UseIn(s) ELSE v[a]
  BY VehicleKnown
<1>3. \A d \in Contracts : d # c /\ AssetOf[d] = AssetOf[c] => q[d] \notin Holding
  BY HeldIsUsed DEF Follows
<1> HIDE DEF q2, v2
<1>4. \A d, e \in Contracts :
        AssetOf[d] = AssetOf[e] /\ q2[d] \in Holding /\ q2[e] \in Holding => d = e
  BY <1>1, <1>3 DEF Follows
<1>5. \A d \in Contracts : q2[d] \in Holding => v2[AssetOf[d]] = UseIn(q2[d])
  BY <1>1, <1>2, <1>3, VehicleKnown DEF Follows
<1>6. \A a \in Assets :
        v2[a] \notin {"intake", "available"}
          => \E d \in Contracts : AssetOf[d] = a /\ q2[d] \in Holding
  BY <1>1, <1>2 DEF Follows
<1>7. Follows(q2, v2)
  BY <1>4, <1>5, <1>6 DEF Follows
<1> QED
  BY <1>7 DEF q2, v2

(***************************************************************************)
(* A contract gives up its vehicle, which is available then.               *)
(***************************************************************************)
LEMMA Releases ==
  ASSUME NEW q \in [Contracts -> States], NEW v \in [Assets -> AssetStates],
         NEW c \in Contracts, NEW s \in States \ Holding,
         Follows(q, v), q[c] \in Holding
  PROVE Follows([q EXCEPT ![c] = s], [v EXCEPT ![AssetOf[c]] = "available"])
<1> DEFINE q2 == [q EXCEPT ![c] = s]
           v2 == [v EXCEPT ![AssetOf[c]] = "available"]
<1>1. \A d \in Contracts : q2[d] = IF d = c THEN s ELSE q[d]
  OBVIOUS
<1>2. \A a \in Assets : v2[a] = IF a = AssetOf[c] THEN "available" ELSE v[a]
  BY VehicleKnown
<1>3. \A d \in Contracts : d # c /\ AssetOf[d] = AssetOf[c] => q[d] \notin Holding
  BY DEF Follows
<1> HIDE DEF q2, v2
<1>4. \A d, e \in Contracts :
        AssetOf[d] = AssetOf[e] /\ q2[d] \in Holding /\ q2[e] \in Holding => d = e
  BY <1>1 DEF Follows
<1>5. \A d \in Contracts : q2[d] \in Holding => v2[AssetOf[d]] = UseIn(q2[d])
  BY <1>1, <1>2, <1>3, VehicleKnown DEF Follows
<1>6. \A a \in Assets :
        v2[a] \notin {"intake", "available"}
          => \E d \in Contracts : AssetOf[d] = a /\ q2[d] \in Holding
  BY <1>1, <1>2 DEF Follows
<1>7. Follows(q2, v2)
  BY <1>4, <1>5, <1>6 DEF Follows
<1> QED
  BY <1>7 DEF q2, v2

(***************************************************************************)
(* A contract that holds no vehicle moves on without one.                  *)
(***************************************************************************)
LEMMA Idles ==
  ASSUME NEW q \in [Contracts -> States], NEW v \in [Assets -> AssetStates],
         NEW c \in Contracts, NEW s \in States \ Holding,
         Follows(q, v), q[c] \notin Holding
  PROVE Follows([q EXCEPT ![c] = s], v)
<1> DEFINE q2 == [q EXCEPT ![c] = s]
<1>1. \A d \in Contracts : q2[d] = IF d = c THEN s ELSE q[d]
  OBVIOUS
<1> HIDE DEF q2
<1>2. Follows(q2, v)
  BY <1>1 DEF Follows
<1> QED
  BY <1>2 DEF q2

(***************************************************************************)
(* A vehicle is taken in.                                                  *)
(***************************************************************************)
LEMMA Activates ==
  ASSUME NEW q \in [Contracts -> States], NEW v \in [Assets -> AssetStates],
         NEW a \in Assets, Follows(q, v), v[a] = "intake"
  PROVE Follows(q, [v EXCEPT ![a] = "available"])
<1> DEFINE v2 == [v EXCEPT ![a] = "available"]
<1>1. \A e \in Assets : v2[e] = IF e = a THEN "available" ELSE v[e]
  OBVIOUS
<1>2. \A c \in Contracts : AssetOf[c] = a => q[c] \notin Holding
  BY HeldIsUsed DEF Follows
<1> HIDE DEF v2
<1>3. Follows(q, v2)
  BY <1>1, <1>2, VehicleKnown DEF Follows
<1> QED
  BY <1>3 DEF v2

(***************************************************************************)
(* What an update of a row leaves: the fields it names change, the others  *)
(* stay.                                                                   *)
(***************************************************************************)
SameSpan(r, row) == row.from = r.from /\ row.to = r.to /\ row.suspended = r.suspended

LEMMA RowState ==
  ASSUME NEW r \in Agreements, NEW s \in States
  PROVE  LET row == [r EXCEPT !.state = s]
         IN  /\ row \in Agreements /\ row.state = s /\ SameSpan(r, row)
             /\ row.approved = r.approved /\ row.activated = r.activated
BY DEF Agreements, States, SameSpan

LEMMA RowApproved ==
  ASSUME NEW r \in Agreements
  PROVE  LET row == [r EXCEPT !.state = "approved", !.approved = TRUE]
         IN  row \in Agreements /\ row.state = "approved" /\ SameSpan(r, row)
BY DEF Agreements, SameSpan

LEMMA RowActive ==
  ASSUME NEW r \in Agreements
  PROVE  LET row == [r EXCEPT !.state = "active", !.activated = TRUE]
         IN  row \in Agreements /\ row.state = "active" /\ SameSpan(r, row)
BY DEF Agreements, SameSpan

LEMMA RowSuspended ==
  ASSUME NEW r \in Agreements
  PROVE  LET row == [r EXCEPT !.state = "suspended", !.suspended = TRUE]
         IN  /\ row \in Agreements /\ row.state = "suspended" /\ row.suspended
             /\ row.approved = r.approved /\ row.activated = r.activated
BY DEF Agreements

LEMMA RowExtended ==
  ASSUME NEW r \in Agreements, NEW to \in Days
  PROVE  LET row == [r EXCEPT !.to = to]
         IN  /\ row \in Agreements /\ row.state = r.state /\ row.from = r.from /\ row.to = to
             /\ row.suspended = r.suspended
BY DEF Agreements

LEMMA StateTypes ==
  ASSUME RentalTypeOK
  PROVE  /\ StateOf \in [Contracts -> States]
         /\ \A c \in Contracts : StateOf[c] = contract[c].state /\ contract[c] \in Agreements
BY DEF RentalTypeOK, StateOf, States, Agreements

(***************************************************************************)
(* A row is written: the invariant needs that the vehicles follow its      *)
(* state and that no block covers its days.                                *)
(***************************************************************************)
Planned == Occupying \cup {"requested"}

LEMMA Written ==
  ASSUME RentalInv, NEW c \in Contracts, NEW row \in Agreements, Write(c, row),
         block' = block, extension' \in [Contracts -> Days \cup {0}],
         asset' \in [Assets -> AssetStates],
         Follows([StateOf EXCEPT ![c] = row.state], asset'),
         row.state = "suspended" => row.suspended,
         row.state \in Planned /\ ~row.suspended => ~Blocked(AssetOf[c], row.from, row.to)
  PROVE  RentalInv'
<1>1. contract' \in [Contracts -> Agreements]
  BY DEF RentalInv, RentalTypeOK, Write
<1>2. \A d \in Contracts : contract'[d] = IF d = c THEN row ELSE contract[d]
  BY DEF RentalInv, RentalTypeOK, Write
<1>3. RentalTypeOK'
  BY <1>1 DEF RentalInv, RentalTypeOK
<1>4. StateOf' = [StateOf EXCEPT ![c] = row.state]
  BY <1>2 DEF StateOf
<1>5. Follows(StateOf', asset')
  BY <1>4
<1>6. RowsSound'
  BY <1>2 DEF RentalInv, RowsSound, Write, TableChecks
<1>7. BlocksKeepClear'
  BY <1>2 DEF RentalInv, BlocksKeepClear, Blocked, Overlaps, Planned
<1> QED
  BY <1>3, <1>5, <1>6, <1>7 DEF RentalInv, Follows

(***************************************************************************)
(* A contract that keeps its days is as clear of blocks as it was.         *)
(***************************************************************************)
LEMMA StillClear ==
  ASSUME RentalInv, NEW c \in Contracts, NEW row \in Agreements, SameSpan(contract[c], row),
         contract[c].state \in Planned \cup {"suspended"},
         ~row.suspended
  PROVE  ~Blocked(AssetOf[c], row.from, row.to)
BY DEF RentalInv, RowsSound, BlocksKeepClear, SameSpan, Blocked, Overlaps, Planned

LEMMA TransitionKeeps ==
  ASSUME RentalInv, NEW c \in Contracts, TransitionContract(c)
  PROVE  RentalInv'
<1> DEFINE r == contract[c]
           a == AssetOf[c]
<1>1. /\ r \in Agreements /\ StateOf[c] = r.state
      /\ StateOf \in [Contracts -> States] /\ asset \in [Assets -> AssetStates]
      /\ extension \in [Contracts -> Days \cup {0}]
      /\ Follows(StateOf, asset) /\ RowsSound /\ a \in Assets
  BY StateTypes, VehicleKnown DEF RentalInv, RentalTypeOK
<1>2. ASSUME NEW row \in Agreements, NEW v \in AssetStates, MoveTo(c, row, v),
             Follows([StateOf EXCEPT ![c] = row.state], [asset EXCEPT ![a] = v]),
             row.state = "suspended" => row.suspended,
             row.state \in Planned /\ ~row.suspended => ~Blocked(a, row.from, row.to)
      PROVE  RentalInv'
  BY <1>1, <1>2, Written DEF MoveTo
<1>3. CASE Cancel(c)
  <2> DEFINE row == [r EXCEPT !.state = "cancelled"]
  <2>1. /\ row \in Agreements /\ row.state = "cancelled" /\ row.approved = r.approved
    BY <1>1, RowState DEF States
  <2>2. r.state \in {"requested", "approved"}
        /\ MoveTo(c, row, IF r.state = "approved" THEN "available" ELSE asset[a])
    BY <1>3 DEF Cancel
  <2>3. r.state = "requested"
    <3>1. TableChecks(row) /\ TableChecks(r)
      BY <1>1, <2>2 DEF MoveTo, Write, RowsSound
    <3> QED
      BY <2>1, <2>2, <3>1 DEF TableChecks
  <2>4. Follows([StateOf EXCEPT ![c] = "cancelled"], asset)
    BY <1>1, <2>3, Idles DEF States, Holding, Occupying
  <2>5. [asset EXCEPT ![a] = asset[a]] = asset
    BY <1>1
  <2> HIDE DEF row
  <2>6. MoveTo(c, row, asset[a]) /\ asset[a] \in AssetStates
    BY <1>1, <2>2, <2>3
  <2> QED
    BY <1>2, <2>1, <2>4, <2>5, <2>6 DEF Planned, Occupying
<1>4. CASE Approve(c)
  <2> DEFINE row == [r EXCEPT !.state = "approved", !.approved = TRUE]
  <2>1. row \in Agreements /\ row.state = "approved" /\ SameSpan(r, row)
    BY <1>1, RowApproved
  <2>2. /\ r.state = "requested" /\ asset[a] = "available" /\ ~Blocked(a, r.from, r.to)
        /\ MoveTo(c, row, "reserved")
    BY <1>4 DEF Approve
  <2>3. Follows([StateOf EXCEPT ![c] = "approved"], [asset EXCEPT ![a] = "reserved"])
    BY <1>1, <2>2, Takes DEF Holding, Occupying, UseIn
  <2> HIDE DEF row
  <2>4. ~Blocked(a, row.from, row.to)
    BY <2>1, <2>2 DEF SameSpan
  <2> QED
    BY <1>2, <2>1, <2>2, <2>3, <2>4 DEF AssetStates
<1>5. CASE Handover(c)
  <2> DEFINE row == [r EXCEPT !.state = "active", !.activated = TRUE]
  <2>1. row \in Agreements /\ row.state = "active" /\ SameSpan(r, row)
    BY <1>1, RowActive
  <2>2. r.state = "approved" /\ MoveTo(c, row, "active_access")
    BY <1>5 DEF Handover
  <2>3. Follows([StateOf EXCEPT ![c] = "active"], [asset EXCEPT ![a] = "active_access"])
    BY <1>1, <2>2, Takes DEF Holding, Occupying, UseIn
  <2> HIDE DEF row
  <2>4. ~row.suspended => ~Blocked(a, row.from, row.to)
    BY <2>1, <2>2, StillClear DEF Planned, Occupying
  <2> QED
    BY <1>2, <2>1, <2>2, <2>3, <2>4 DEF AssetStates
<1>6. CASE BeginReturn(c) \/ BeginSafeReturn(c)
  <2> DEFINE row == [r EXCEPT !.state = "return_pending"]
  <2>1. row \in Agreements /\ row.state = "return_pending" /\ SameSpan(r, row)
    BY <1>1, RowState DEF States
  <2>2. r.state \in {"active", "suspended"} /\ MoveTo(c, row, "return_pending")
    BY <1>6 DEF BeginReturn, BeginSafeReturn
  <2>3. Follows([StateOf EXCEPT ![c] = "return_pending"], [asset EXCEPT ![a] = "return_pending"])
    BY <1>1, <2>2, Takes DEF Holding, Occupying, UseIn
  <2> HIDE DEF row
  <2>4. ~row.suspended => ~Blocked(a, row.from, row.to)
    BY <2>1, <2>2, StillClear DEF Planned, Occupying
  <2> QED
    BY <1>2, <2>1, <2>2, <2>3, <2>4 DEF AssetStates
<1>7. CASE Close(c)
  <2> DEFINE row == [r EXCEPT !.state = "closed"]
  <2>1. row \in Agreements /\ row.state = "closed"
    BY <1>1, RowState DEF States
  <2>2. r.state = "return_pending" /\ MoveTo(c, row, "available")
    BY <1>7 DEF Close
  <2>3. Follows([StateOf EXCEPT ![c] = "closed"], [asset EXCEPT ![a] = "available"])
    BY <1>1, <2>2, Releases DEF States, Holding, Occupying
  <2> HIDE DEF row
  <2> QED
    BY <1>2, <2>1, <2>2, <2>3 DEF AssetStates, Planned, Occupying
<1>8. CASE Suspend(c)
  <2> DEFINE row == [r EXCEPT !.state = "suspended", !.suspended = TRUE]
  <2>1. row \in Agreements /\ row.state = "suspended" /\ row.suspended
    BY <1>1, RowSuspended
  <2>2. r.state \in Occupying /\ MoveTo(c, row, "safety_hold")
    BY <1>8 DEF Suspend
  <2>3. Follows([StateOf EXCEPT ![c] = "suspended"], [asset EXCEPT ![a] = "safety_hold"])
    BY <1>1, <2>2, Takes DEF Holding, Occupying, UseIn
  <2> HIDE DEF row
  <2> QED
    BY <1>2, <2>1, <2>2, <2>3 DEF AssetStates, Planned, Occupying
<1> QED
  BY <1>3, <1>4, <1>5, <1>6, <1>7, <1>8 DEF TransitionContract

(***************************************************************************)
(* The other operations: none of them moves a vehicle that a contract      *)
(* holds, and those that write days look at the blocks or the contracts.   *)
(***************************************************************************)
LEMMA FiledKeeps ==
  ASSUME RentalInv, NEW c \in Contracts,
         AcceptAgreement(c) \/ \E kind \in {"handover", "return"} : RecordInspection(c, kind)
  PROVE  RentalInv'
<1> DEFINE r == contract[c]
<1>1. r \in Agreements /\ contract \in [Contracts -> Agreements]
  BY StateTypes DEF RentalInv, RentalTypeOK
<1>2. PICK row \in Agreements :
        /\ contract' = [contract EXCEPT ![c] = row]
        /\ row.state = r.state /\ SameSpan(r, row)
        /\ row.approved = r.approved /\ row.activated = r.activated
  <2>1. CASE AcceptAgreement(c)
    <3> DEFINE row == [r EXCEPT !.accepted = TRUE]
    <3>1. /\ row \in Agreements /\ row.state = r.state /\ SameSpan(r, row)
          /\ row.approved = r.approved /\ row.activated = r.activated
      BY <1>1 DEF Agreements, SameSpan
    <3>2. contract' = [contract EXCEPT ![c] = row]
      BY <2>1 DEF AcceptAgreement
    <3> HIDE DEF row
    <3> QED
      BY <3>1, <3>2
  <2>2. ASSUME NEW kind \in {"handover", "return"}, RecordInspection(c, kind)
        PROVE \E row \in Agreements :
                /\ contract' = [contract EXCEPT ![c] = row]
                /\ row.state = r.state /\ SameSpan(r, row)
                /\ row.approved = r.approved /\ row.activated = r.activated
    <3> DEFINE row == [r EXCEPT !.inspected = r.inspected \cup {kind}]
    <3>1. /\ row \in Agreements /\ row.state = r.state /\ SameSpan(r, row)
          /\ row.approved = r.approved /\ row.activated = r.activated
      BY <1>1 DEF Agreements, SameSpan
    <3>2. contract' = [contract EXCEPT ![c] = row]
      BY <2>2 DEF RecordInspection
    <3> HIDE DEF row
    <3> QED
      BY <3>1, <3>2
  <2> QED
    BY <2>1, <2>2
<1>3. UNCHANGED <<asset, block, extension>>
  BY DEF AcceptAgreement, RecordInspection
<1>4. contract' \in [Contracts -> Agreements]
      /\ \A d \in Contracts : contract'[d] = IF d = c THEN row ELSE contract[d]
  BY <1>1, <1>2
<1>5. StateOf' = StateOf
  BY <1>2, <1>4 DEF StateOf
<1>6. RentalTypeOK'
  BY <1>3, <1>4 DEF RentalInv, RentalTypeOK
<1>7. RowsSound'
  BY <1>2, <1>3, <1>4 DEF RentalInv, RowsSound, TableChecks, SameSpan
<1>8. BlocksKeepClear'
  BY <1>2, <1>3, <1>4 DEF RentalInv, BlocksKeepClear, Overlaps, SameSpan
<1> QED
  BY <1>3, <1>5, <1>6, <1>7, <1>8 DEF RentalInv, Follows

LEMMA RequestKeeps ==
  ASSUME RentalInv, NEW c \in Contracts, NEW from \in Days, NEW to \in Days,
         RequestContract(c, from, to)
  PROVE  RentalInv'
<1> DEFINE r == contract[c]
           row == [r EXCEPT !.state = "requested", !.from = from, !.to = to]
<1>1. /\ r \in Agreements /\ StateOf[c] = r.state
      /\ StateOf \in [Contracts -> States] /\ asset \in [Assets -> AssetStates]
      /\ extension \in [Contracts -> Days \cup {0}] /\ Follows(StateOf, asset)
  BY StateTypes DEF RentalInv, RentalTypeOK
<1>2. row \in Agreements /\ row.state = "requested" /\ row.from = from /\ row.to = to
  BY <1>1 DEF Agreements
<1>3. /\ r.state = "none" /\ ~Blocked(AssetOf[c], from, to) /\ Write(c, row)
      /\ UNCHANGED <<asset, block, extension>>
  BY DEF RequestContract
<1>4. Follows([StateOf EXCEPT ![c] = "requested"], asset)
  BY <1>1, <1>3, Idles DEF States, Holding, Occupying
<1> HIDE DEF row
<1> QED
  BY <1>1, <1>2, <1>3, <1>4, Written

LEMMA ExtensionKeeps ==
  ASSUME RentalInv, NEW c \in Contracts, ApproveExtension(c)
  PROVE  RentalInv'
<1> DEFINE r == contract[c]
           to == extension[c]
           row == [r EXCEPT !.to = to]
<1>1. /\ r \in Agreements /\ StateOf[c] = r.state
      /\ StateOf \in [Contracts -> States] /\ asset \in [Assets -> AssetStates]
      /\ extension \in [Contracts -> Days \cup {0}] /\ Follows(StateOf, asset)
      /\ to \in Days
  BY StateTypes DEF RentalInv, RentalTypeOK, ApproveExtension
<1>2. /\ row \in Agreements /\ row.state = r.state /\ row.from = r.from /\ row.to = to
      /\ row.suspended = r.suspended
  BY <1>1, RowExtended
<1>3. /\ ~Blocked(AssetOf[c], r.to, to) /\ Write(c, row)
      /\ extension' = [extension EXCEPT ![c] = 0] /\ UNCHANGED <<asset, block>>
  BY DEF ApproveExtension
<1>4. extension' \in [Contracts -> Days \cup {0}]
  BY <1>1, <1>3
<1>5. [StateOf EXCEPT ![c] = r.state] = StateOf
  BY <1>1
<1> HIDE DEF row
<1>6. row.state \in Planned /\ ~row.suspended => ~Blocked(AssetOf[c], row.from, row.to)
  <2> SUFFICES ASSUME row.state \in Planned, ~row.suspended, NEW b \in Blocks,
                      AssetOf[b] = AssetOf[c], block[b].state = "active"
               PROVE  ~Overlaps(block[b], r.from, to)
    BY <1>2 DEF Blocked
  <2>1. ~Overlaps(block[b], r.from, r.to)
    BY <1>2 DEF RentalInv, BlocksKeepClear, Planned
  <2>2. ~Overlaps(block[b], r.to, to)
    BY <1>3 DEF Blocked
  <2>3. /\ block[b].from \in Int /\ block[b].to \in Int /\ block[b].from < block[b].to
        /\ r.from \in Int /\ r.to \in Int /\ to \in Int
    BY <1>1, RentalAssumption DEF RentalInv, RentalTypeOK, RowsSound, Outages, Agreements, Days
  <2> QED
    BY <2>1, <2>2, <2>3 DEF Overlaps
<1>7. row.state = "suspended" => row.suspended
  BY <1>2 DEF RentalInv, RowsSound
<1>8. Follows([StateOf EXCEPT ![c] = row.state], asset')
      /\ asset' \in [Assets -> AssetStates]
  BY <1>1, <1>2, <1>3, <1>5
<1>9. row \in Agreements /\ Write(c, row) /\ block' = block
  BY <1>2, <1>3
<1> QED
  BY <1>4, <1>6, <1>7, <1>8, <1>9, Written

LEMMA BlockKeeps ==
  ASSUME RentalInv, NEW b \in Blocks,
         CancelBlock(b) \/ \E from, to \in Days : CreateBlock(b, from, to)
  PROVE  RentalInv'
<1>1. block \in [Blocks -> Outages] /\ UNCHANGED <<asset, contract, extension>>
  BY DEF RentalInv, RentalTypeOK, CancelBlock, CreateBlock
<1>2. CASE CancelBlock(b)
  <2>1. /\ block' \in [Blocks -> Outages]
        /\ \A e \in Blocks : block'[e].state = "active" => block'[e] = block[e]
    BY <1>1, <1>2 DEF CancelBlock, Outages
  <2> QED
    BY <1>1, <2>1 DEF RentalInv, RentalTypeOK, RowsSound, TableChecks, BlocksKeepClear, Overlaps,
         Follows, StateOf
<1>3. ASSUME NEW from \in Days, NEW to \in Days, CreateBlock(b, from, to)
      PROVE RentalInv'
  <2> DEFINE row == [state |-> "active", from |-> from, to |-> to]
  <2>1. row \in Outages /\ row.state = "active" /\ row.from = from /\ row.to = to
    BY DEF Outages
  <2>2. /\ block' = [block EXCEPT ![b] = row] /\ from < to
        /\ \A c \in Contracts :
             AssetOf[c] = AssetOf[b] /\ contract[c].state \in Planned
               => ~Overlaps(contract[c], from, to)
    BY <1>3 DEF CreateBlock, Planned
  <2> HIDE DEF row
  <2>3. /\ block' \in [Blocks -> Outages]
        /\ \A e \in Blocks : block'[e] = IF e = b THEN row ELSE block[e]
    BY <1>1, <2>1, <2>2
  <2>4. RentalTypeOK' /\ StateOf' = StateOf
    BY <1>1, <2>3 DEF RentalInv, RentalTypeOK, StateOf
  <2>5. RowsSound'
    BY <1>1, <2>1, <2>2, <2>3 DEF RentalInv, RowsSound, TableChecks
  <2>6. BlocksKeepClear'
    BY <1>1, <2>1, <2>2, <2>3 DEF RentalInv, BlocksKeepClear, Overlaps, Planned
  <2> QED
    BY <1>1, <2>4, <2>5, <2>6 DEF RentalInv, Follows
<1> QED
  BY <1>2, <1>3

LEMMA RentalInit_Inv ==
  RentalInit => RentalInv
<1> SUFFICES ASSUME RentalInit PROVE RentalInv
  OBVIOUS
<1>1. 1 \in Days
  BY RentalAssumption DEF Days
<1>2. RentalTypeOK
  BY <1>1 DEF RentalInit, RentalTypeOK, AssetStates, Agreements, Outages
<1>3. \A c \in Contracts : contract[c].state = "none" /\ StateOf[c] = "none"
  BY DEF RentalInit, StateOf
<1>4. Follows(StateOf, asset)
  BY <1>3 DEF Follows, RentalInit, Holding, Occupying
<1>5. RowsSound
  <2>1. \A c \in Contracts : contract[c].approved = FALSE /\ contract[c].activated = FALSE
    BY DEF RentalInit
  <2>2. \A b \in Blocks : block[b].state = "none"
    BY DEF RentalInit
  <2>3. \A c \in Contracts : TableChecks(contract[c])
    <3> SUFFICES ASSUME NEW c \in Contracts PROVE TableChecks(contract[c])
      OBVIOUS
    <3>1. /\ (contract[c].state
                \in {"approved", "active", "return_pending", "closed", "suspended"}) = FALSE
          /\ (contract[c].state \in {"active", "return_pending", "closed", "suspended"}) = FALSE
      BY <1>3
    <3> QED
      BY <2>1, <3>1, Zenon DEF TableChecks
  <2> QED
    BY <1>3, <2>2, <2>3 DEF RowsSound
<1>6. BlocksKeepClear
  BY <1>3 DEF BlocksKeepClear, Occupying
<1> QED
  BY <1>2, <1>4, <1>5, <1>6 DEF RentalInv

LEMMA RentalStep ==
  RentalInv /\ [RentalNext]_rentalVars => RentalInv'
<1> SUFFICES ASSUME RentalInv, [RentalNext]_rentalVars PROVE RentalInv'
  OBVIOUS
<1>1. CASE UNCHANGED rentalVars
  BY <1>1 DEF rentalVars, RentalInv, RentalTypeOK, Follows, StateOf, RowsSound, TableChecks,
       BlocksKeepClear, Overlaps
<1>2. ASSUME NEW a \in Assets, ActivateAsset(a) PROVE RentalInv'
  <2>1. /\ Follows(StateOf, asset) /\ StateOf \in [Contracts -> States]
        /\ asset \in [Assets -> AssetStates]
    BY StateTypes DEF RentalInv, RentalTypeOK
  <2>2. /\ asset[a] = "intake" /\ asset' = [asset EXCEPT ![a] = "available"]
        /\ UNCHANGED <<contract, block, extension>>
    BY <1>2 DEF ActivateAsset
  <2>3. Follows(StateOf, asset')
    BY <2>1, <2>2, Activates
  <2>4. StateOf' = StateOf /\ RentalTypeOK'
    BY <2>1, <2>2 DEF StateOf, RentalInv, RentalTypeOK, AssetStates
  <2> QED
    BY <2>2, <2>3, <2>4 DEF RentalInv, Follows, RowsSound, TableChecks, BlocksKeepClear, Overlaps
<1>3. ASSUME NEW c \in Contracts, NEW to \in Days, RequestExtension(c, to) PROVE RentalInv'
  <2>1. /\ extension' = [extension EXCEPT ![c] = to] /\ UNCHANGED <<asset, contract, block>>
    BY <1>3 DEF RequestExtension
  <2> QED
    BY <2>1 DEF RentalInv, RentalTypeOK, Follows, StateOf, RowsSound, TableChecks,
         BlocksKeepClear, Overlaps
<1>4. ASSUME NEW c \in Contracts, RejectExtension(c) PROVE RentalInv'
  <2>1. /\ extension' = [extension EXCEPT ![c] = 0] /\ UNCHANGED <<asset, contract, block>>
    BY <1>4 DEF RejectExtension
  <2> QED
    BY <2>1 DEF RentalInv, RentalTypeOK, Follows, StateOf, RowsSound, TableChecks,
         BlocksKeepClear, Overlaps
<1> QED
  BY <1>1, <1>2, <1>3, <1>4, TransitionKeeps, FiledKeeps, RequestKeeps, ExtensionKeeps, BlockKeeps
     DEF RentalNext

LEMMA RentalInductive ==
  RentalSpec => []RentalInv
BY RentalInit_Inv, RentalStep, PTL DEF RentalSpec

(***************************************************************************)
(* A vehicle is held by one contract at most, says what that contract does *)
(* with it, and is held by none only when it is taken in or available, for *)
(* any vehicles, contracts and blocks.                                     *)
(***************************************************************************)
THEOREM VehiclesFollow == RentalSpec => []AssetFollowsContract
<1>1. RentalInv => AssetFollowsContract
  BY DEF RentalInv, Follows, StateOf, AssetFollowsContract
<1> QED
  BY <1>1, RentalInductive, PTL

(***************************************************************************)
(* No active block covers a day of a contract that is asked for or runs    *)
(* and was never suspended, for any number of contracts and blocks.        *)
(***************************************************************************)
THEOREM BlocksAreKeptClear == RentalSpec => []BlocksKeepClear
<1>1. RentalInv => BlocksKeepClear
  BY DEF RentalInv
<1> QED
  BY <1>1, RentalInductive, PTL
============================================================================
