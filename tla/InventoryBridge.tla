-------------------------- MODULE InventoryBridge --------------------------
(***************************************************************************)
(* The stock of Medusa on its way into the positions of the platform: the  *)
(* subscriber that takes a snapshot of what an event is about, the outbox  *)
(* with its dispatchers, and the ingress functions of migration 0057.  One *)
(* store, one stock item bound to one position, reservations of one unit.  *)
(* A source timestamp identifies one change of one record, so a snapshot   *)
(* stands for its outbox id and its event id; the attempt a claim counted  *)
(* stands for its token.  Leases of a claim run out row by row here, which *)
(* allows more than the code does.                                         *)
(***************************************************************************)
EXTENDS Places

CONSTANTS
  Reservations,  \* reservation items of the source
  Stock,         \* the stock item, as the subject of a snapshot
  Quantities,    \* what may be in stock
  Dispatchers,   \* processes that deliver, one cycle each at a time
  ClaimLimit,    \* claimLimit
  MaxAttempts,   \* MAX_ATTEMPTS
  MaxChanges,    \* bound: changes of the source
  MaxFaults      \* bound: what goes wrong outside the database

ASSUME BridgeAssumption ==
  /\ IsFiniteSet(Reservations) /\ Stock \notin Reservations
  /\ Quantities \subseteq Nat
  /\ {ClaimLimit, MaxAttempts} \subseteq Nat \ {0}
  /\ {MaxChanges, MaxFaults} \subseteq Nat

VARIABLES
  source,     \* Medusa: the last change of each record
  changes,    \* the source clock
  notices,    \* the event of each change and how far its subscriber is
  outbox,     \* deliveryplatform_inventory_outbox, by snapshot
  due,        \* the rows that are not backing off, by next_attempt_at
  cycle,      \* deliverPending of each dispatcher
  late,       \* requests that nobody waits for any more
  seen,       \* medusa_inventory_bridge_event
  projected,  \* the level snapshot and the reservations, by subject
  position,   \* inventory_positions
  faults      \* what has gone wrong so far

sourceVars == <<source, changes>>
outboxVars == <<outbox, due>>
ingressVars == <<seen, projected, position>>
bridgeVars == <<sourceVars, notices, outboxVars, cycle, late, ingressVars, faults>>

Subjects == Reservations \cup {Stock}
Records == [at : 0 .. MaxChanges, state : {"none", "active", "released"}, quantity : Nat]
Snapshots == [of : Subjects, at : 1 .. MaxChanges, state : {"active", "released"}, quantity : Nat]
Events ==
  [of : Subjects, gone : BOOLEAN, stage : {"emitted", "done", "failed"}]
  \cup [of : Subjects, gone : BOOLEAN, stage : {"read"}, snapshot : Snapshots]
Rows == [status : {"pending", "processing", "delivered", "dead_letter"},
         attempts : 0 .. MaxAttempts, leased : BOOLEAN]
Items == [item : Snapshots, token : 1 .. MaxAttempts]

NoRecord == [at |-> 0, state |-> "none", quantity |-> 0]
NoCycle == [batch |-> <<>>, at |-> "idle"]
NoPosition == [on_hand |-> 0, reserved |-> 0]

BridgeTypeOK ==
  /\ source \in [Subjects -> Records]
  /\ changes \in 0 .. MaxChanges
  /\ notices \in Seq(Events) /\ Len(notices) = changes
  /\ \A s \in DOMAIN outbox : s \in Snapshots /\ outbox[s] \in Rows
  /\ due \in Seq(DOMAIN outbox)
  /\ \A d \in Dispatchers :
       /\ cycle[d].at \in {"idle", "sending", "taken", "refused"}
       /\ cycle[d].batch \in Seq(Items)
  /\ late \cup seen \subseteq DOMAIN outbox
  /\ projected \in [Subjects -> Records]
  /\ position \in [on_hand : Nat, reserved : Nat]
  /\ faults \in 0 .. MaxFaults

BridgeInit ==
  /\ source = [x \in Subjects |-> NoRecord]
  /\ changes = 0
  /\ notices = <<>>
  /\ outbox = <<>> /\ due = <<>>
  /\ cycle = [d \in Dispatchers |-> NoCycle]
  /\ late = {} /\ seen = {}
  /\ projected = [x \in Subjects |-> NoRecord]
  /\ position = NoPosition
  /\ faults = 0

Fault == faults < MaxFaults /\ faults' = faults + 1

----------------------------------------------------------------------------
\* The source changes a record and emits an event that names it.
Change(x, state, quantity) ==
  /\ changes < MaxChanges
  /\ changes' = changes + 1
  /\ source' = [source EXCEPT ![x] = [at |-> changes', state |-> state, quantity |-> quantity]]
  /\ notices' = Append(notices, [of |-> x, gone |-> state = "released", stage |-> "emitted"])
  /\ UNCHANGED <<outboxVars, cycle, late, ingressVars, faults>>

Restock(q) == Change(Stock, "active", q)
Reserve(r) == source[r].state \in {"none", "active"} /\ Change(r, "active", 1)
Release(r) == source[r].state = "active" /\ Change(r, "released", 1)

----------------------------------------------------------------------------
SnapshotOf(x) ==
  [of |-> x, at |-> source[x].at, state |-> source[x].state, quantity |-> source[x].quantity]

Handle(n, event) ==
  /\ notices' = [notices EXCEPT ![n] = event]
  /\ UNCHANGED <<sourceVars, cycle, late, ingressVars>>

\* The subscriber reads the record as it is by now.
Hydrate(n) ==
  LET x == notices[n].of IN
  /\ notices[n].stage = "emitted" /\ ~notices[n].gone
  /\ source[x].state = "active"
  /\ Handle(n, [of |-> x, gone |-> FALSE, stage |-> "read", snapshot |-> SnapshotOf(x)])
  /\ UNCHANGED <<outboxVars, faults>>

\* A deletion is completed from the last snapshot of the reservation on file.
HydrateReleased(n) ==
  LET x == notices[n].of IN
  /\ notices[n].stage = "emitted" /\ notices[n].gone
  /\ \E s \in DOMAIN outbox : s.of = x
  /\ Handle(n, [of |-> x, gone |-> TRUE, stage |-> "read", snapshot |-> SnapshotOf(x)])
  /\ UNCHANGED <<outboxVars, faults>>

\* The insert leaves a row alone that has the same source_event_key.
Enqueue(n) ==
  LET s == notices[n].snapshot IN
  /\ notices[n].stage = "read"
  /\ Handle(n, [of |-> s.of, gone |-> notices[n].gone, stage |-> "done"])
  /\ UNCHANGED faults
  /\ IF s \in DOMAIN outbox
       THEN UNCHANGED outboxVars
       ELSE /\ outbox' = [k \in DOMAIN outbox \cup {s} |->
              IF k = s THEN [status |-> "pending", attempts |-> 0, leased |-> FALSE]
                       ELSE outbox[k]]
            /\ due' = Append(due, s)

\* The record or its last snapshot is not there.
Nothing(n) ==
  LET x == notices[n].of IN
  /\ notices[n].stage = "emitted"
  /\ IF notices[n].gone THEN \A s \in DOMAIN outbox : s.of # x ELSE source[x].state = "released"

\* The subscriber throws, over what it does not find or a statement that fails,
\* and the event bus gives the event up.
Drop(n) ==
  /\ notices[n].stage \in {"emitted", "read"}
  /\ IF Nothing(n) THEN UNCHANGED faults ELSE Fault
  /\ Handle(n, [of |-> notices[n].of, gone |-> notices[n].gone, stage |-> "failed"])
  /\ UNCHANGED outboxVars

----------------------------------------------------------------------------
\* Mistake: a claim that ran out is not taken over.
ClaimablePending(s) == outbox[s].status = "pending"

Claimable(s) ==
  \/ outbox[s].status = "pending"
  \/ outbox[s].status = "processing" /\ ~outbox[s].leased

\* The first rows to claim, by next_attempt_at, as places in due.
ReadyAt == {i \in 1 .. Len(due) : due[i] \in DOMAIN outbox /\ Claimable(due[i])}

Batch == {i \in ReadyAt : Cardinality({j \in ReadyAt : j < i}) < ClaimLimit}

\* The table bounds the attempts of a row: one row without an attempt left makes
\* the statement fail for the whole batch, which comes back in no order.
Claim(d) ==
  LET rows == {due[i] : i \in Batch} IN
  /\ cycle[d] = NoCycle
  /\ rows # {}
  /\ \A s \in rows : outbox[s].attempts < MaxAttempts
  /\ outbox' = [s \in DOMAIN outbox |->
       IF s \in rows
         THEN [status |-> "processing", attempts |-> outbox[s].attempts + 1, leased |-> TRUE]
         ELSE outbox[s]]
  /\ \E order \in AnyOrder(Batch) :
       cycle' = [cycle EXCEPT ![d] =
         [batch |-> [i \in DOMAIN order |->
                      [item |-> due[order[i]], token |-> outbox[due[order[i]]].attempts + 1]],
          at |-> "sending"]]
  /\ UNCHANGED <<sourceVars, notices, due, late, ingressVars, faults>>

Works(d, s) ==
  \E i \in 1 .. Len(cycle[d].batch) :
    cycle[d].batch[i] = [item |-> s, token |-> outbox[s].attempts]

\* The time of a claim is up: a fault unless its cycle has ended.
LeaseRunsOutOn(s) ==
  /\ outbox[s].status = "processing" /\ outbox[s].leased
  /\ IF \E d \in Dispatchers : Works(d, s) THEN Fault ELSE UNCHANGED faults
  /\ outbox' = [outbox EXCEPT ![s].leased = FALSE]
  /\ UNCHANGED <<sourceVars, notices, due, cycle, late, ingressVars>>

BackoffOver(s) ==
  /\ outbox[s].status = "pending"
  /\ \A i \in 1 .. Len(due) : due[i] # s
  /\ due' = Append(due, s)
  /\ UNCHANGED <<sourceVars, notices, outbox, cycle, late, ingressVars, faults>>

----------------------------------------------------------------------------
Reserved(records) == Cardinality({r \in Reservations : records[r].state = "active"})

With(s) ==
  [projected EXCEPT ![s.of] = [at |-> s.at, state |-> s.state, quantity |-> s.quantity]]

\* Mistake: a level may be below what is reserved.
FitsAnyway(records) == records[Stock].at > 0

\* The constraints of the position.
Fits(records) == records[Stock].at > 0 /\ Reserved(records) <= records[Stock].quantity

Older(s) == s.at < projected[s.of].at

\* Mistake: a snapshot older than the one projected is applied.
VerdictAnyOrder(s) ==
  CASE s \in seen -> "known"
    [] s \notin seen /\ Fits(With(s)) -> "applied"
    [] OTHER -> "error"

\* What the ingress does with a snapshot: an error aborts its transaction.
Verdict(s) ==
  CASE s \in seen -> "known"
    [] s \notin seen /\ Older(s) -> "stale"
    [] s \notin seen /\ ~Older(s) /\ Fits(With(s)) -> "applied"
    [] OTHER -> "error"

Ingest(s) ==
  /\ Verdict(s) # "error"
  /\ seen' = seen \cup {s}
  /\ IF Verdict(s) = "applied"
       THEN /\ projected' = With(s)
            /\ position' = [on_hand |-> With(s)[Stock].quantity, reserved |-> Reserved(With(s))]
       ELSE UNCHANGED <<projected, position>>

Sending(d) == cycle[d].at = "sending"
Sent(d) == Head(cycle[d].batch).item

Conclude(d, outcome) ==
  /\ cycle' = [cycle EXCEPT ![d].at = outcome]
  /\ UNCHANGED <<sourceVars, notices, outboxVars>>

\* One POST of the cycle is answered.
PostSnapshot(d) ==
  /\ Sending(d)
  /\ \/ Ingest(Sent(d)) /\ Conclude(d, "taken")
     \/ Verdict(Sent(d)) = "error" /\ Conclude(d, "refused") /\ UNCHANGED ingressVars
  /\ UNCHANGED <<late, faults>>

\* Its time is up first: the ingress has taken the snapshot, or may take it later,
\* or never.
LoseAnswer(d) ==
  /\ Sending(d)
  /\ Fault
  /\ Conclude(d, "refused")
  /\ \/ Ingest(Sent(d)) /\ UNCHANGED late
     \/ late' \in {late, late \cup {Sent(d)}} /\ UNCHANGED ingressVars

Land(s) ==
  /\ late' = late \ {s}
  /\ \/ Ingest(s)
     \/ Verdict(s) = "error" /\ UNCHANGED ingressVars
  /\ UNCHANGED <<sourceVars, notices, outboxVars, cycle, faults>>

Proceed(d) ==
  LET rest == Tail(cycle[d].batch)
  IN  cycle' = [cycle EXCEPT ![d] =
        IF rest = <<>> THEN NoCycle ELSE [batch |-> rest, at |-> "sending"]]

ClaimHeld(claim) ==
  LET r == outbox[claim.item]
  IN  r.status = "processing" /\ r.attempts = claim.token /\ r.leased

Settle(d, status) ==
  LET claim == Head(cycle[d].batch) IN
  /\ outbox' = IF ClaimHeld(claim)
       THEN [outbox EXCEPT ![claim.item].status = status, ![claim.item].leased = FALSE]
       ELSE outbox
  /\ IF ClaimHeld(claim) THEN due' \in Without(due, claim.item) ELSE UNCHANGED due
  /\ Proceed(d)
  /\ UNCHANGED <<sourceVars, notices, late, ingressVars>>

CompleteRow(d) == cycle[d].at = "taken" /\ Settle(d, "delivered") /\ UNCHANGED faults

\* A delivery that failed, or whose completion did.
FailRow(d) ==
  /\ \/ cycle[d].at = "refused" /\ UNCHANGED faults
     \/ cycle[d].at = "taken" /\ Fault
  /\ Settle(d, IF Head(cycle[d].batch).token >= MaxAttempts THEN "dead_letter" ELSE "pending")

\* The process stops, or the failure cannot be written and the cycle throws.
Abandon(d) ==
  /\ cycle[d] # NoCycle
  /\ Fault
  /\ cycle' = [cycle EXCEPT ![d] = NoCycle]
  /\ UNCHANGED <<sourceVars, notices, outboxVars, late, ingressVars>>

----------------------------------------------------------------------------
Work(d) == PostSnapshot(d) \/ LoseAnswer(d) \/ CompleteRow(d) \/ FailRow(d)

BridgeNext ==
  \/ \E q \in Quantities : Restock(q)
  \/ \E r \in Reservations : Reserve(r) \/ Release(r)
  \/ \E n \in 1 .. changes : Hydrate(n) \/ HydrateReleased(n) \/ Enqueue(n) \/ Drop(n)
  \/ \E d \in Dispatchers : Claim(d) \/ Work(d) \/ Abandon(d)
  \/ \E s \in DOMAIN outbox : LeaseRunsOutOn(s) \/ BackoffOver(s)
  \/ \E s \in late : Land(s)

BridgeFairness ==
  /\ WF_bridgeVars(\E d \in Dispatchers : Claim(d))
  /\ WF_bridgeVars(\E d \in Dispatchers : Work(d))
  /\ WF_bridgeVars(\E s \in DOMAIN outbox : LeaseRunsOutOn(s) \/ BackoffOver(s))

BridgeSpec == BridgeInit /\ [][BridgeNext]_bridgeVars /\ BridgeFairness

----------------------------------------------------------------------------
Captured ==
  \A n \in 1 .. changes :
    \/ notices[n].stage = "done"
    \/ notices[n].stage = "failed" /\ ~notices[n].gone /\ source[notices[n].of].state = "released"

Decided == \A s \in DOMAIN outbox : outbox[s].status \in {"delivered", "dead_letter"}

\* When every change has been captured and delivered, the platform has the stock
\* and the reservations that Medusa has, in whatever order snapshots were read,
\* filed, sent, lost and repeated (the subscriber, the outbox service and the
\* ingest functions together).
SettledProjection ==
  Captured /\ (\A s \in DOMAIN outbox : outbox[s].status = "delivered") => projected = source

\* The position shows the level and the reservations projected last, and never
\* more reserved than on hand, although either can arrive first, late or twice
\* (project_medusa_inventory_position at the end of every applied snapshot).
PositionCovers ==
  /\ position = IF projected[Stock].at = 0 THEN NoPosition
       ELSE [on_hand |-> projected[Stock].quantity, reserved |-> Reserved(projected)]
  /\ position.reserved <= position.on_hand

\* A row whose claim ran out with no attempt left.
Spent(s) ==
  outbox[s].status = "processing" /\ ~outbox[s].leased /\ outbox[s].attempts = MaxAttempts

\* Every row is delivered or dead-lettered in the end, through lapsed claims and
\* stopped cycles, unless a claim ran out on the last attempt of a row
\* (deliverPending).
EventuallyDecidedRows ==
  ~Decided ~> (Decided \/ \E s \in DOMAIN outbox : Spent(s))
============================================================================
