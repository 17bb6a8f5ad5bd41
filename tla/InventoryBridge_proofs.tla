----------------------- MODULE InventoryBridge_proofs -----------------------
(***************************************************************************)
(* Proofs about InventoryBridge, for any number of reservations and        *)
(* dispatchers and any limits.  A snapshot on file never says more than    *)
(* the source said by then, the ingress never goes back, and a delivered   *)
(* row has been seen by the ingress: when the last change of a record has  *)
(* been captured and delivered, its projection can only be that change.    *)
(***************************************************************************)
EXTENDS InventoryBridge, SequenceTheorems, FiniteSetTheorems, TLAPS

----------------------------------------------------------------------------
(* Places of a sequence.                                                   *)

LEMMA FunctionIsSequence ==
  ASSUME NEW S, NEW n \in Nat, NEW f \in [1 .. n -> S]
  PROVE  f \in Seq(S)
BY SeqDef, Zenon

\* An order of some places of a sequence is as long as there are places.
LEMMA OrderOfPlaces ==
  ASSUME NEW n \in Nat, NEW P \in SUBSET (1 .. n), NEW order \in InOrder(P) \cup AnyOrder(P)
  PROVE  /\ Cardinality(P) \in Nat
         /\ P # {} => Cardinality(P) > 0
         /\ order \in [1 .. Cardinality(P) -> P]
<1>1. IsFiniteSet(1 .. n)
  BY FS_Interval
<1>2. IsFiniteSet(P)
  BY <1>1, FS_Subset
<1>3. Cardinality(P) \in Nat /\ (Cardinality(P) = 0 <=> P = {})
  BY <1>2, FS_CardinalityType, FS_EmptySet
<1>4. order \in [1 .. Cardinality(P) -> P]
  BY DEF InOrder, AnyOrder
<1>5. ASSUME P # {} PROVE Cardinality(P) > 0
  <2>1. Cardinality(P) \in Nat /\ Cardinality(P) # 0
    BY <1>3, <1>5
  <2> QED BY <2>1, SMT
<1> QED BY <1>3, <1>4, <1>5

\* What stands at some places of a sequence, taken in some order, is a sequence.
LEMMA AtIsSequence ==
  ASSUME NEW S, NEW seq \in Seq(S), NEW P \in SUBSET (1 .. Len(seq)),
         NEW order \in InOrder(P) \cup AnyOrder(P)
  PROVE  /\ At(seq, order) \in Seq({seq[i] : i \in P})
         /\ At(seq, order) \in Seq(S)
         /\ P # {} => At(seq, order) # <<>>
<1>1. Len(seq) \in Nat /\ \A i \in 1 .. Len(seq) : seq[i] \in S
  BY LenProperties, ElementOfSeq
<1>2. /\ Cardinality(P) \in Nat /\ (P # {} => Cardinality(P) > 0)
      /\ order \in [1 .. Cardinality(P) -> P]
  BY <1>1, OrderOfPlaces
<1>3. At(seq, order) \in [1 .. Cardinality(P) -> {seq[i] : i \in P}]
  BY <1>2 DEF At
<1>4. At(seq, order) \in Seq({seq[i] : i \in P})
  BY <1>2, <1>3, FunctionIsSequence
<1>5. {seq[i] : i \in P} \subseteq S
  BY <1>1
<1>6. At(seq, order) \in Seq(S)
  BY <1>4, <1>5, SeqMonotonic
<1>7. ASSUME P # {} PROVE At(seq, order) # <<>>
  <2>1. 1 \in DOMAIN At(seq, order)
    BY <1>2, <1>3, <1>7, SMT
  <2> QED BY <2>1
<1> QED BY <1>4, <1>6, <1>7

LEMMA WithoutIsSequence ==
  ASSUME NEW S, NEW seq \in Seq(S), NEW x, NEW rest \in Without(seq, x)
  PROVE  rest \in Seq(S)
BY AtIsSequence DEF Without

----------------------------------------------------------------------------
RecordOf(s) == [at |-> s.at, state |-> s.state, quantity |-> s.quantity]

\* A record is no news of the source, and agrees with it if it is as late.
Agrees(rec, src) == rec.at <= src.at /\ (rec.at = src.at => rec = src)

Proper(s, src) == s \in Snapshots /\ Agrees(RecordOf(s), src[s.of])

\* The source and the events of its changes: the clock numbers both.
SourceInv ==
  /\ source \in [Subjects -> Records]
  /\ changes \in Nat
  /\ notices \in Seq(Events) /\ Len(notices) = changes
  /\ \A x \in Subjects :
       /\ source[x].at <= changes
       /\ source[x].at > 0 =>
            /\ source[x].state # "none"
            /\ notices[source[x].at].of = x
            /\ notices[source[x].at].gone = (source[x].state = "released")
  /\ \A n \in 1 .. changes : n <= source[notices[n].of].at

\* What has been read and filed is no news of the source and no older than the
\* change it is about.
FiledInv ==
  /\ \A s \in DOMAIN outbox : Proper(s, source)
  /\ \A n \in 1 .. changes :
       /\ notices[n].stage = "read" =>
            /\ Proper(notices[n].snapshot, source)
            /\ notices[n].snapshot.of = notices[n].of
            /\ n <= notices[n].snapshot.at
       /\ notices[n].stage = "done" =>
            \E s \in DOMAIN outbox : s.of = notices[n].of /\ n <= s.at

\* The ingress is never ahead of the source, nor behind what it has seen.
ProjectedInv ==
  /\ projected \in [Subjects -> Records]
  /\ \A x \in Subjects : Agrees(projected[x], source[x])
  /\ \A s \in seen : s \in Snapshots /\ s.at <= projected[s.of].at

CyclesOver(S) ==
  [batch : Seq([item : S, token : Nat]), at : {"idle", "sending", "taken", "refused"}]

\* What is under way is on file, and what is delivered has been seen.
SentInv ==
  /\ late \subseteq DOMAIN outbox
  /\ \A s \in DOMAIN outbox :
       outbox[s].attempts \in Nat /\ (outbox[s].status = "delivered" => s \in seen)
  /\ cycle \in [Dispatchers -> CyclesOver(DOMAIN outbox)]
  /\ \A d \in Dispatchers :
       /\ cycle[d].at # "idle" => cycle[d].batch # <<>>
       /\ cycle[d].at = "taken" => Head(cycle[d].batch).item \in seen

BridgeInv == SourceInv /\ FiledInv /\ ProjectedInv /\ SentInv

\* The rest of the types: what is queued and under way is on file, and the counters
\* keep to their limits.
ClaimsOnFile == [item : DOMAIN outbox, token : 1 .. MaxAttempts]

QueueTypes ==
  /\ changes <= MaxChanges
  /\ \A s \in DOMAIN outbox : outbox[s] \in Rows
  /\ due \in Seq(DOMAIN outbox)
  /\ \A d \in Dispatchers : cycle[d].batch \in Seq(ClaimsOnFile)
  /\ seen \subseteq DOMAIN outbox
  /\ position \in [on_hand : Nat, reserved : Nat]
  /\ faults \in 0 .. MaxFaults

----------------------------------------------------------------------------
LEMMA CoversInit == BridgeInit => PositionCovers
BY DEF BridgeInit, PositionCovers, NoPosition, NoRecord, Subjects

LEMMA IngestCovers ==
  ASSUME PositionCovers, NEW s, Ingest(s)
  PROVE  PositionCovers'
<1>1. CASE Verdict(s) = "applied"
  <2>1. projected' = With(s)
        /\ position' = [on_hand |-> With(s)[Stock].quantity, reserved |-> Reserved(With(s))]
    BY <1>1 DEF Ingest
  <2>2. Fits(With(s))
    BY <1>1 DEF Verdict
  <2>3. With(s)[Stock].at # 0
    BY <2>2, SMT DEF Fits
  <2>4. position'.on_hand = With(s)[Stock].quantity /\ position'.reserved = Reserved(With(s))
    BY <2>1
  <2> QED BY <2>1, <2>2, <2>3, <2>4 DEF PositionCovers, Fits, Reserved
<1>2. CASE Verdict(s) # "applied"
  BY <1>2 DEF Ingest, PositionCovers, Reserved
<1> QED BY <1>1, <1>2

LEMMA CoversStep == PositionCovers /\ [BridgeNext]_bridgeVars => PositionCovers'
<1> SUFFICES ASSUME PositionCovers, [BridgeNext]_bridgeVars PROVE PositionCovers'
  OBVIOUS
<1>1. ASSUME UNCHANGED ingressVars PROVE PositionCovers'
  BY <1>1 DEF ingressVars, PositionCovers, Reserved
<1>2. UNCHANGED ingressVars \/ \E s : Ingest(s)
  <2>1. CASE \E q \in Quantities : Restock(q)
    BY <2>1 DEF Restock, Change
  <2>2. CASE \E r \in Reservations : Reserve(r) \/ Release(r)
    BY <2>2 DEF Reserve, Release, Change
  <2>3. CASE \E n \in 1 .. changes : Hydrate(n) \/ HydrateReleased(n) \/ Enqueue(n) \/ Drop(n)
    BY <2>3 DEF Hydrate, HydrateReleased, Enqueue, Drop, Handle
  <2>4. CASE \E d \in Dispatchers : Claim(d) \/ Work(d) \/ Abandon(d)
    BY <2>4 DEF Claim, Work, Abandon, PostSnapshot, LoseAnswer, CompleteRow, FailRow, Settle
  <2>5. CASE \E s \in DOMAIN outbox : LeaseRunsOutOn(s) \/ BackoffOver(s)
    BY <2>5 DEF LeaseRunsOutOn, BackoffOver
  <2>6. CASE \E s \in late : Land(s)
    BY <2>6 DEF Land
  <2>7. CASE UNCHANGED bridgeVars
    BY <2>7 DEF bridgeVars
  <2> QED BY <2>1, <2>2, <2>3, <2>4, <2>5, <2>6, <2>7 DEF BridgeNext
<1> QED BY <1>1, <1>2, IngestCovers

\* The position shows what was projected last and is never short of what is
\* reserved, for any number of reservations and dispatchers.
THEOREM PositionsCover == BridgeSpec => []PositionCovers
BY CoversInit, CoversStep, PTL DEF BridgeSpec

----------------------------------------------------------------------------
LEMMA BridgeStart == BridgeInit => BridgeInv
<1> SUFFICES ASSUME BridgeInit PROVE BridgeInv
  OBVIOUS
<1>0. NoRecord \in Records /\ MaxChanges \in Nat
  BY BridgeAssumption, SMT DEF NoRecord, Records
<1>1. SourceInv
  <2>1. notices \in Seq(Events) /\ Len(notices) = 0 /\ changes = 0
    BY EmptySeq DEF BridgeInit
  <2>2. \A x \in Subjects : source[x].at = 0
    BY DEF BridgeInit, NoRecord
  <2> QED BY <1>0, <2>1, <2>2, SMT DEF SourceInv, BridgeInit
<1>2. FiledInv
  BY DEF BridgeInit, FiledInv
<1>3. ProjectedInv
  BY <1>0 DEF BridgeInit, ProjectedInv, Agrees, NoRecord
<1>4. SentInv
  <2>1. NoCycle \in CyclesOver(DOMAIN outbox)
    BY EmptySeq DEF NoCycle, CyclesOver
  <2> QED BY <2>1 DEF BridgeInit, SentInv, NoCycle
<1> QED BY <1>1, <1>2, <1>3, <1>4 DEF BridgeInv

\* What an event looks like.
LEMMA EventFields ==
  ASSUME NEW e \in Events
  PROVE  /\ e.of \in Subjects /\ e.gone \in BOOLEAN
         /\ e.stage \in {"emitted", "done", "failed", "read"}
         /\ e.stage = "read" => e.snapshot \in Snapshots
BY DEF Events

LEMMA NoticeFields ==
  ASSUME SourceInv, NEW n \in 1 .. changes
  PROVE  /\ n \in 1 .. Len(notices) /\ notices[n] \in Events
         /\ notices[n].of \in Subjects
         /\ source[notices[n].of] \in Records
         /\ n <= source[notices[n].of].at
BY ElementOfSeq, EventFields DEF SourceInv

LEMMA RecordFields ==
  ASSUME NEW r \in Records
  PROVE  /\ r.at \in Nat /\ r.at <= MaxChanges /\ r.quantity \in Nat
         /\ r.state \in {"none", "active", "released"}
         /\ r = [at |-> r.at, state |-> r.state, quantity |-> r.quantity]
BY BridgeAssumption, SMT DEF Records

LEMMA SnapshotFields ==
  ASSUME NEW s \in Snapshots
  PROVE  /\ s.of \in Subjects /\ s.at \in Nat /\ s.at > 0
         /\ RecordOf(s) \in Records /\ RecordOf(s).at = s.at
BY BridgeAssumption, SMT DEF Snapshots, Records, RecordOf

\* A snapshot of a record that has changed is no news of it.
LEMMA FreshSnapshot ==
  ASSUME SourceInv, NEW x \in Subjects, source[x].at > 0
  PROVE  /\ Proper(SnapshotOf(x), source) /\ SnapshotOf(x).of = x /\ SnapshotOf(x).at = source[x].at
         /\ SnapshotOf(x) \in Snapshots
<1>1. source[x] \in Records
  BY DEF SourceInv
<1>2. source[x].state \in {"active", "released"} /\ source[x].at \in 1 .. MaxChanges
      /\ source[x].quantity \in Nat
  BY <1>1, RecordFields, BridgeAssumption, SMT DEF SourceInv
<1>3. SnapshotOf(x) \in Snapshots
  BY <1>2 DEF SnapshotOf, Snapshots
<1>4. RecordOf(SnapshotOf(x)) = source[x]
  BY <1>1, RecordFields DEF RecordOf, SnapshotOf
<1>5. SnapshotOf(x).of = x /\ SnapshotOf(x).at = source[x].at
  BY DEF SnapshotOf
<1>6. source[x].at <= source[x].at
  BY <1>2, SMT
<1> QED BY <1>3, <1>4, <1>5, <1>6 DEF Proper, Agrees

----------------------------------------------------------------------------
\* A change makes every snapshot and projection of its record older than it.
LEMMA ChangeKeeps ==
  ASSUME BridgeInv, NEW x \in Subjects, NEW state \in {"active", "released"},
         NEW q \in Nat, Change(x, state, q)
  PROVE  BridgeInv'
<1> DEFINE event == [of |-> x, gone |-> state = "released", stage |-> "emitted"]
           rec == [at |-> changes', state |-> state, quantity |-> q]
<1>0. SourceInv /\ FiledInv /\ ProjectedInv /\ SentInv
  BY DEF BridgeInv
<1>1. /\ changes \in Nat /\ changes < MaxChanges /\ changes' = changes + 1
      /\ source' = [source EXCEPT ![x] = rec]
      /\ notices' = Append(notices, event)
      /\ UNCHANGED <<outbox, due, cycle, late, seen, projected, position>>
  BY <1>0 DEF Change, SourceInv, outboxVars, ingressVars
<1>2. rec \in Records /\ rec.at = changes + 1 /\ rec.state = state
  BY <1>1, BridgeAssumption, SMT DEF Records
<1>3. /\ event \in Events /\ event.of = x /\ event.gone = (state = "released")
      /\ event.stage = "emitted"
  BY DEF Events
<1> HIDE DEF rec, event
<1>4. /\ notices' \in Seq(Events) /\ Len(notices') = changes'
      /\ notices'[changes'] = event
      /\ \A n \in 1 .. changes : notices'[n] = notices[n]
  BY <1>0, <1>1, <1>3, SMT DEF SourceInv
<1>5. \A y \in Subjects : source'[y] = IF y = x THEN rec ELSE source[y]
  BY <1>0, <1>1 DEF SourceInv
<1>6. ASSUME NEW y \in Subjects, NEW r, r.at \in Nat, Agrees(r, source[y])
      PROVE  Agrees(r, source'[y])
  <2>1. source[y].at \in Nat /\ source[y].at <= changes
    BY <1>0, RecordFields DEF SourceInv
  <2>2. CASE y = x
    <3>1. r.at < source'[y].at
      BY <1>1, <1>2, <1>5, <1>6, <2>1, <2>2, SMT DEF Agrees
    <3> QED BY <1>2, <1>5, <1>6, <2>1, <2>2, <3>1, <1>1, SMT DEF Agrees
  <2>3. CASE y # x
    BY <1>5, <1>6, <2>3 DEF Agrees
  <2> QED BY <2>2, <2>3
<1>7. ASSUME NEW s, Proper(s, source) PROVE Proper(s, source')
  <2>1. s \in Snapshots /\ s.of \in Subjects /\ RecordOf(s).at \in Nat
        /\ Agrees(RecordOf(s), source[s.of])
    BY <1>7, SnapshotFields DEF Proper
  <2>2. Agrees(RecordOf(s), source'[s.of])
    BY <2>1, <1>6 DEF Agrees
  <2> QED BY <2>1, <2>2 DEF Proper
<1>8. SourceInv'
  <2>1. source' \in [Subjects -> Records] /\ changes' \in Nat
    BY <1>0, <1>1, <1>2, SMT DEF SourceInv
  <2>2. ASSUME NEW y \in Subjects
        PROVE  /\ source'[y].at <= changes'
               /\ source'[y].at > 0 =>
                    /\ source'[y].state # "none"
                    /\ notices'[source'[y].at].of = y
                    /\ notices'[source'[y].at].gone = (source'[y].state = "released")
    <3>1. CASE y = x
      <4>1. source'[y].at = changes' /\ source'[y].state = state
        BY <1>1, <1>2, <1>5, <3>1
      <4> QED BY <1>1, <1>3, <1>4, <3>1, <4>1, SMT
    <3>2. CASE y # x
      <4>1. source'[y] = source[y]
        BY <1>5, <3>2
      <4>2. source[y].at \in Nat /\ source[y].at <= changes
        BY <1>0, RecordFields DEF SourceInv
      <4>3. source[y].at <= changes' /\ (source[y].at > 0 => source[y].at \in 1 .. changes)
        BY <1>1, <4>2, SMT
      <4> QED BY <1>0, <1>4, <4>1, <4>3 DEF SourceInv
    <3> QED BY <3>1, <3>2
  <2>3. ASSUME NEW n \in 1 .. changes' PROVE n <= source'[notices'[n].of].at
    <3>1. CASE n = changes'
      <4>1. notices'[n].of = x /\ source'[x].at = changes'
        BY <1>1, <1>2, <1>3, <1>4, <1>5, <3>1
      <4> QED BY <1>1, <3>1, <4>1, SMT
    <3>2. CASE n # changes'
      <4>1. n \in 1 .. changes /\ n <= changes'
        BY <1>1, <3>2, SMT
      <4>2. notices'[n] = notices[n] /\ notices[n].of \in Subjects
            /\ n <= source[notices[n].of].at
        BY <1>0, <1>4, <4>1, NoticeFields
      <4>3. CASE notices[n].of = x
        BY <1>1, <1>2, <1>5, <4>1, <4>2, <4>3
      <4>4. CASE notices[n].of # x
        BY <1>5, <4>2, <4>4
      <4> QED BY <4>3, <4>4
    <3> QED BY <3>1, <3>2
  <2> QED BY <1>4, <2>1, <2>2, <2>3 DEF SourceInv
<1>9. FiledInv'
  <2>1. \A s \in DOMAIN outbox' : Proper(s, source')
    BY <1>0, <1>1, <1>7 DEF FiledInv
  <2>2. ASSUME NEW n \in 1 .. changes'
        PROVE  /\ notices'[n].stage = "read" =>
                    /\ Proper(notices'[n].snapshot, source')
                    /\ notices'[n].snapshot.of = notices'[n].of
                    /\ n <= notices'[n].snapshot.at
               /\ notices'[n].stage = "done" =>
                    \E s \in DOMAIN outbox' : s.of = notices'[n].of /\ n <= s.at
    <3>1. CASE n = changes'
      BY <1>3, <1>4, <3>1
    <3>2. CASE n # changes'
      <4>1. n \in 1 .. changes
        BY <1>1, <3>2, SMT
      <4>2. notices'[n] = notices[n]
        BY <1>4, <4>1
      <4>3. notices[n].stage = "read" => Proper(notices[n].snapshot, source')
        BY <1>0, <1>7, <4>1 DEF FiledInv
      <4>4. notices[n].stage = "read" =>
              notices[n].snapshot.of = notices[n].of /\ n <= notices[n].snapshot.at
        BY <1>0, <4>1 DEF FiledInv
      <4>5. notices[n].stage = "done" =>
              \E s \in DOMAIN outbox : s.of = notices[n].of /\ n <= s.at
        BY <1>0, <4>1 DEF FiledInv
      <4> QED BY <1>1, <4>2, <4>3, <4>4, <4>5
    <3> QED BY <3>1, <3>2
  <2> QED BY <2>1, <2>2 DEF FiledInv
<1>10. ProjectedInv'
  <2>1. ASSUME NEW y \in Subjects PROVE Agrees(projected[y], source[y])'
    <3>1. projected[y].at \in Nat /\ Agrees(projected[y], source[y])
      BY <1>0, RecordFields DEF ProjectedInv
    <3>2. Agrees(projected[y], source'[y])
      BY <1>6, <3>1 DEF Agrees
    <3> QED BY <1>1, <3>2 DEF Agrees
  <2> QED BY <1>0, <1>1, <2>1 DEF ProjectedInv
<1>11. SentInv'
  BY <1>0, <1>1 DEF SentInv
<1> QED BY <1>8, <1>9, <1>10, <1>11 DEF BridgeInv

----------------------------------------------------------------------------
\* A step of a subscriber: it moves one event on, and may file a snapshot.
LEMMA HandleKeeps ==
  ASSUME BridgeInv, NEW n \in 1 .. changes, NEW event \in Events, Handle(n, event),
         event.of = notices[n].of, event.gone = notices[n].gone,
         DOMAIN outbox \subseteq DOMAIN outbox',
         \A s \in DOMAIN outbox' : Proper(s, source),
         \A s \in DOMAIN outbox' :
           \/ s \in DOMAIN outbox /\ outbox'[s] = outbox[s]
           \/ outbox'[s].status = "pending" /\ outbox'[s].attempts = 0,
         event.stage = "read" =>
           Proper(event.snapshot, source) /\ event.snapshot.of = event.of /\ n <= event.snapshot.at,
         event.stage = "done" => \E s \in DOMAIN outbox' : s.of = event.of /\ n <= s.at
  PROVE  BridgeInv'
<1>0. SourceInv /\ FiledInv /\ ProjectedInv /\ SentInv
  BY DEF BridgeInv
<1>1. /\ UNCHANGED <<source, changes, cycle, late, seen, projected>>
      /\ notices' = [notices EXCEPT ![n] = event]
  BY DEF Handle, sourceVars, ingressVars
<1>2. /\ notices' \in Seq(Events) /\ Len(notices') = changes
      /\ \A m \in 1 .. changes : notices'[m] = IF m = n THEN event ELSE notices[m]
  BY <1>0, <1>1, ExceptSeq DEF SourceInv
<1>3. \A m \in 1 .. changes : notices'[m].of = notices[m].of /\ notices'[m].gone = notices[m].gone
  BY <1>2
<1>5. SourceInv'
  <2>1. ASSUME NEW x \in Subjects
        PROVE  (/\ source[x].at <= changes
                /\ source[x].at > 0 =>
                     /\ source[x].state # "none"
                     /\ notices[source[x].at].of = x
                     /\ notices[source[x].at].gone = (source[x].state = "released"))'
    <3>1. source[x].at \in Nat /\ source[x].at <= changes
      BY <1>0, RecordFields DEF SourceInv
    <3>2. source[x].at > 0 => source[x].at \in 1 .. changes
      BY <3>1, SMT
    <3> QED BY <1>0, <1>1, <1>3, <3>1, <3>2 DEF SourceInv
  <2>2. \A m \in 1 .. changes : m <= source[notices'[m].of].at
    BY <1>0, <1>3 DEF SourceInv
  <2> QED BY <1>0, <1>1, <1>2, <2>1, <2>2 DEF SourceInv
<1>6. FiledInv'
  <2>1. \A s \in DOMAIN outbox' : Proper(s, source')
    BY <1>1
  <2>2. ASSUME NEW m \in 1 .. changes, notices'[m].stage = "read"
        PROVE  /\ Proper(notices'[m].snapshot, source)
               /\ notices'[m].snapshot.of = notices'[m].of
               /\ m <= notices'[m].snapshot.at
    <3>1. CASE m = n
      BY <1>2, <2>2, <3>1
    <3>2. CASE m # n
      <4>1. notices'[m] = notices[m]
        BY <1>2, <3>2
      <4> QED BY <1>0, <2>2, <4>1 DEF FiledInv
    <3> QED BY <3>1, <3>2
  <2>3. ASSUME NEW m \in 1 .. changes, notices'[m].stage = "done"
        PROVE  \E s \in DOMAIN outbox' : s.of = notices'[m].of /\ m <= s.at
    <3>1. CASE m = n
      BY <1>2, <2>3, <3>1
    <3>2. CASE m # n
      <4>1. notices'[m] = notices[m]
        BY <1>2, <3>2
      <4>2. \E s \in DOMAIN outbox : s.of = notices[m].of /\ m <= s.at
        BY <1>0, <2>3, <4>1 DEF FiledInv
      <4> QED BY <4>1, <4>2
    <3> QED BY <3>1, <3>2
  <2>4. changes' = changes
    BY <1>1
  <2> QED BY <1>1, <2>1, <2>2, <2>3, <2>4 DEF FiledInv
<1>7. ProjectedInv'
  BY <1>0, <1>1 DEF ProjectedInv, Agrees
<1>8. SentInv'
  <2>1. late' \subseteq DOMAIN outbox'
    BY <1>0, <1>1 DEF SentInv
  <2>2. \A s \in DOMAIN outbox' :
          outbox'[s].attempts \in Nat /\ (outbox'[s].status = "delivered" => s \in seen')
    BY <1>0, <1>1 DEF SentInv
  <2>3. [item : DOMAIN outbox, token : Nat] \subseteq [item : DOMAIN outbox', token : Nat]
    OBVIOUS
  <2>4. Seq([item : DOMAIN outbox, token : Nat]) \subseteq Seq([item : DOMAIN outbox', token : Nat])
    BY <2>3, SeqMonotonic
  <2>5. cycle' \in [Dispatchers -> CyclesOver(DOMAIN outbox')]
    BY <1>0, <1>1, <2>4 DEF SentInv, CyclesOver
  <2> QED BY <1>0, <1>1, <2>1, <2>2, <2>5 DEF SentInv
<1> QED BY <1>5, <1>6, <1>7, <1>8 DEF BridgeInv

LEMMA SubscriberKeeps ==
  ASSUME BridgeInv, NEW n \in 1 .. changes,
         Hydrate(n) \/ HydrateReleased(n) \/ Enqueue(n) \/ Drop(n)
  PROVE  BridgeInv'
<1> DEFINE x == notices[n].of
<1>0. SourceInv /\ FiledInv /\ ProjectedInv /\ SentInv
  BY DEF BridgeInv
<1>1. /\ x \in Subjects /\ n \in Nat /\ n > 0 /\ source[x].at \in Nat /\ n <= source[x].at
      /\ notices[n] \in Events /\ notices[n].gone \in BOOLEAN
  BY <1>0, NoticeFields, RecordFields, EventFields, SMT
<1>2. /\ Proper(SnapshotOf(x), source) /\ SnapshotOf(x).of = x /\ n <= SnapshotOf(x).at
      /\ SnapshotOf(x) \in Snapshots
  <2>1. source[x].at > 0
    BY <1>1, SMT
  <2> QED BY <1>0, <1>1, <2>1, FreshSnapshot
<1>3. \A s \in DOMAIN outbox : Proper(s, source)
  BY <1>0 DEF FiledInv
<1> HIDE DEF x
<1>4. CASE Hydrate(n) \/ HydrateReleased(n)
  <2> DEFINE event == [of |-> x, gone |-> notices[n].gone, stage |-> "read",
                       snapshot |-> SnapshotOf(x)]
  <2>1. event \in Events
    BY <1>1, <1>2 DEF Events
  <2>2. event.of = notices[n].of /\ event.gone = notices[n].gone /\ event.stage = "read"
        /\ event.snapshot = SnapshotOf(x) /\ event.of = x
    BY DEF x
  <2>3. Handle(n, event)
    BY <1>1, <1>4, Zenon DEF Hydrate, HydrateReleased, x
  <2>4. outbox' = outbox
    BY <1>4 DEF Hydrate, HydrateReleased, outboxVars
  <2> HIDE DEF event
  <2> QED BY <1>2, <1>3, <2>1, <2>2, <2>3, <2>4, HandleKeeps
<1>5. CASE Enqueue(n)
  <2> DEFINE s == notices[n].snapshot
             event == [of |-> s.of, gone |-> notices[n].gone, stage |-> "done"]
  <2>1. Handle(n, event) /\ notices[n].stage = "read"
    BY <1>5 DEF Enqueue
  <2>2. Proper(s, source) /\ s.of = x /\ n <= s.at
    BY <1>0, <2>1 DEF FiledInv, x
  <2>3. event \in Events /\ event.of = notices[n].of /\ event.gone = notices[n].gone
        /\ event.stage = "done" /\ event.of = s.of
    BY <1>1, <2>2 DEF Events, x
  <2>4. \/ s \in DOMAIN outbox /\ outbox' = outbox
        \/ /\ s \notin DOMAIN outbox
           /\ outbox' = [k \in DOMAIN outbox \cup {s} |->
                IF k = s THEN [status |-> "pending", attempts |-> 0, leased |-> FALSE]
                         ELSE outbox[k]]
    BY <1>5 DEF Enqueue, outboxVars
  <2> HIDE DEF event, s
  <2>5. s \in DOMAIN outbox' /\ DOMAIN outbox \subseteq DOMAIN outbox'
        /\ DOMAIN outbox' \subseteq DOMAIN outbox \cup {s}
    BY <2>4
  <2>6. \A k \in DOMAIN outbox' :
          \/ k \in DOMAIN outbox /\ outbox'[k] = outbox[k]
          \/ outbox'[k].status = "pending" /\ outbox'[k].attempts = 0
    BY <2>4
  <2> QED BY <1>3, <2>1, <2>2, <2>3, <2>5, <2>6, HandleKeeps
<1>6. CASE Drop(n)
  <2> DEFINE event == [of |-> notices[n].of, gone |-> notices[n].gone, stage |-> "failed"]
  <2>1. event \in Events
    BY <1>1 DEF Events, x
  <2>2. event.of = notices[n].of /\ event.gone = notices[n].gone /\ event.stage = "failed"
    OBVIOUS
  <2>3. Handle(n, event) /\ outbox' = outbox
    BY <1>6 DEF Drop, outboxVars
  <2> HIDE DEF event
  <2> QED BY <1>3, <2>1, <2>2, <2>3, HandleKeeps
<1> QED BY <1>4, <1>5, <1>6

----------------------------------------------------------------------------
\* The dispatchers and the ingress leave the source and the events alone, and
\* file nothing.
LEMMA NothingFiled ==
  ASSUME SourceInv, FiledInv, UNCHANGED <<source, changes, notices>>,
         DOMAIN outbox' = DOMAIN outbox
  PROVE  SourceInv' /\ FiledInv'
<1>1. SourceInv'
  BY DEF SourceInv
<1>2. FiledInv'
  BY DEF FiledInv
<1> QED BY <1>1, <1>2

LEMMA NothingProjected ==
  ASSUME ProjectedInv, UNCHANGED <<source, seen, projected>>
  PROVE  ProjectedInv'
BY DEF ProjectedInv

\* What SentInv asks of a step, with one cycle that moves on and with none.
LEMMA CycleMoves ==
  ASSUME SentInv, DOMAIN outbox' = DOMAIN outbox, seen \subseteq seen',
         late' \subseteq DOMAIN outbox,
         \A s \in DOMAIN outbox :
           outbox'[s].attempts \in Nat /\ (outbox'[s].status = "delivered" => s \in seen'),
         NEW d \in Dispatchers, NEW p \in CyclesOver(DOMAIN outbox),
         p.at # "idle" => p.batch # <<>>,
         p.at = "taken" => Head(p.batch).item \in seen',
         cycle' = [cycle EXCEPT ![d] = p]
  PROVE  SentInv'
<1>1. cycle' \in [Dispatchers -> CyclesOver(DOMAIN outbox')]
  BY DEF SentInv
<1>2. ASSUME NEW e \in Dispatchers
      PROVE  /\ cycle'[e].at # "idle" => cycle'[e].batch # <<>>
             /\ cycle'[e].at = "taken" => Head(cycle'[e].batch).item \in seen'
  <2>1. CASE e = d
    BY <2>1 DEF SentInv
  <2>2. CASE e # d
    <3>1. cycle'[e] = cycle[e]
      BY <2>2 DEF SentInv
    <3> QED BY <3>1 DEF SentInv
  <2> QED BY <2>1, <2>2
<1> QED BY <1>1, <1>2 DEF SentInv

LEMMA CyclesStay ==
  ASSUME SentInv, DOMAIN outbox' = DOMAIN outbox, seen \subseteq seen',
         late' \subseteq DOMAIN outbox,
         \A s \in DOMAIN outbox :
           outbox'[s].attempts \in Nat /\ (outbox'[s].status = "delivered" => s \in seen'),
         cycle' = cycle
  PROVE  SentInv'
BY DEF SentInv

LEMMA CycleFields ==
  ASSUME SentInv, NEW d \in Dispatchers, cycle[d].at # "idle"
  PROVE  /\ cycle[d] = [batch |-> cycle[d].batch, at |-> cycle[d].at]
         /\ cycle[d].batch \in Seq([item : DOMAIN outbox, token : Nat])
         /\ cycle[d].batch # <<>>
         /\ Head(cycle[d].batch).item \in DOMAIN outbox
         /\ Tail(cycle[d].batch) \in Seq([item : DOMAIN outbox, token : Nat])
<1>1. cycle[d] \in CyclesOver(DOMAIN outbox) /\ cycle[d].batch # <<>>
  BY DEF SentInv
<1>2. cycle[d] = [batch |-> cycle[d].batch, at |-> cycle[d].at]
      /\ cycle[d].batch \in Seq([item : DOMAIN outbox, token : Nat])
  BY <1>1 DEF CyclesOver
<1>3. Head(cycle[d].batch) \in [item : DOMAIN outbox, token : Nat]
      /\ Tail(cycle[d].batch) \in Seq([item : DOMAIN outbox, token : Nat])
  BY <1>1, <1>2, HeadTailProperties
<1> QED BY <1>1, <1>2, <1>3

----------------------------------------------------------------------------
\* A snapshot that is applied is no older than the projection and no news of
\* the source, and one that is stale is older than the projection.
LEMMA IngestKeeps ==
  ASSUME BridgeInv, NEW s \in DOMAIN outbox, Ingest(s), source' = source
  PROVE  ProjectedInv' /\ seen \subseteq seen' /\ s \in seen'
<1>0. ProjectedInv /\ Proper(s, source)
  BY DEF BridgeInv, FiledInv
<1>1. seen' = seen \cup {s} /\ Verdict(s) # "error"
  BY DEF Ingest
<1>2. /\ s \in Snapshots /\ s.of \in Subjects /\ s.at \in Nat
      /\ RecordOf(s) \in Records /\ RecordOf(s).at = s.at
      /\ Agrees(RecordOf(s), source[s.of])
  BY <1>0, SnapshotFields DEF Proper
<1>3. \A x \in Subjects : projected[x].at \in Nat
  BY <1>0, RecordFields DEF ProjectedInv
<1>4. \A k \in seen : k \in Snapshots /\ k.of \in Subjects /\ k.at \in Nat
                   /\ k.at <= projected[k.of].at
  BY <1>0, SnapshotFields DEF ProjectedInv
<1>5. CASE Verdict(s) = "applied"
  <2>1. projected' = [projected EXCEPT ![s.of] = RecordOf(s)]
    BY <1>5 DEF Ingest, With, RecordOf
  <2>2. ~Older(s)
    BY <1>5 DEF Verdict
  <2>3. projected[s.of].at <= s.at
    BY <1>2, <1>3, <2>2, SMT DEF Older
  <2>4. \A x \in Subjects : projected'[x] = IF x = s.of THEN RecordOf(s) ELSE projected[x]
    BY <1>0, <2>1 DEF ProjectedInv
  <2>5. projected' \in [Subjects -> Records]
    BY <1>0, <1>2, <2>1 DEF ProjectedInv
  <2>6. \A x \in Subjects : Agrees(projected'[x], source[x])
    BY <1>0, <1>2, <2>4 DEF ProjectedInv
  <2>7. ASSUME NEW k \in seen' PROVE k \in Snapshots /\ k.at <= projected'[k.of].at
    <3>1. CASE k = s
      <4>1. projected'[k.of].at = k.at
        BY <1>2, <2>4, <3>1
      <4> QED BY <1>2, <3>1, <4>1, SMT
    <3>2. CASE k # s
      <4>1. k \in seen
        BY <1>1, <3>2
      <4>2. CASE k.of = s.of
        <5>1. projected'[k.of].at = s.at
          BY <1>2, <2>4, <4>2
        <5>2. k.at <= projected[s.of].at
          BY <1>4, <4>1, <4>2
        <5> QED BY <1>2, <1>3, <1>4, <2>3, <4>1, <5>1, <5>2, SMT
      <4>3. CASE k.of # s.of
        BY <1>4, <2>4, <4>1, <4>3
      <4> QED BY <4>2, <4>3
    <3> QED BY <3>1, <3>2
  <2> QED BY <1>1, <2>5, <2>6, <2>7 DEF ProjectedInv
<1>6. CASE Verdict(s) # "applied"
  <2>1. projected' = projected
    BY <1>6 DEF Ingest
  <2>2. s.at <= projected[s.of].at
    <3>1. CASE s \in seen
      BY <1>4, <3>1
    <3>2. CASE s \notin seen
      <4>1. Older(s)
        BY <1>1, <1>6, <3>2 DEF Verdict
      <4> QED BY <1>2, <1>3, <4>1, SMT DEF Older
    <3> QED BY <3>1, <3>2
  <2> QED BY <1>0, <1>1, <1>2, <2>1, <2>2 DEF ProjectedInv
<1> QED BY <1>1, <1>5, <1>6

LEMMA ClaimKeeps ==
  ASSUME BridgeInv, QueueTypes, NEW d \in Dispatchers, Claim(d)
  PROVE  BridgeInv'
<1>0. SourceInv /\ FiledInv /\ ProjectedInv /\ SentInv
  BY DEF BridgeInv
<1>1. UNCHANGED <<source, changes, notices, due, late, seen, projected>>
  BY DEF Claim, sourceVars, ingressVars
<1>2. PICK order \in AnyOrder(Batch) :
        cycle' = [cycle EXCEPT ![d] =
          [batch |-> [i \in DOMAIN order |->
                       [item |-> due[order[i]], token |-> outbox[due[order[i]]].attempts + 1]],
           at |-> "sending"]]
  BY DEF Claim
<1>3. /\ DOMAIN outbox' = DOMAIN outbox
      /\ \A s \in DOMAIN outbox :
           outbox'[s].attempts \in Nat /\ (outbox'[s].status = "delivered" => s \in seen')
  <2>1. outbox' = [s \in DOMAIN outbox |->
          IF s \in {due[i] : i \in Batch}
            THEN [status |-> "processing", attempts |-> outbox[s].attempts + 1, leased |-> TRUE]
            ELSE outbox[s]]
    BY DEF Claim
  <2> QED BY <1>0, <1>1, <2>1, SMT DEF SentInv
<1> DEFINE batch == [i \in DOMAIN order |->
                      [item |-> due[order[i]], token |-> outbox[due[order[i]]].attempts + 1]]
<1> DEFINE n == Cardinality(Batch)
<1>4. Batch \subseteq 1 .. Len(due) /\ Batch # {}
  BY DEF Batch, ReadyAt, Claim
<1>5. \A i \in Batch : due[i] \in DOMAIN outbox
  BY DEF Batch, ReadyAt
<1>6. order \in [1 .. n -> Batch] /\ n \in Nat /\ n > 0 /\ 1 \in 1 .. n
  <2>1. n \in Nat /\ n > 0 /\ order \in [1 .. n -> Batch]
    BY <1>4, OrderOfPlaces, LenProperties DEF QueueTypes
  <2> QED BY <2>1, SMT
<1> HIDE DEF n
<1>7. \A i \in 1 .. n : order[i] \in Batch /\ due[order[i]] \in DOMAIN outbox
                     /\ outbox[due[order[i]]].attempts + 1 \in Nat
  BY <1>0, <1>5, <1>6 DEF SentInv
<1>8. batch \in [1 .. n -> [item : DOMAIN outbox, token : Nat]]
  BY <1>6, <1>7
<1>9. batch \in Seq([item : DOMAIN outbox, token : Nat])
  BY <1>6, <1>8, FunctionIsSequence
<1>10. batch # <<>>
  <2>1. 1 .. Len(batch) = 1 .. n /\ Len(batch) \in Nat
    BY <1>8, <1>9, LenProperties
  <2>2. Len(batch) # 0
    BY <1>6, <2>1, SMT
  <2> QED BY <2>2, EmptySeq
<1> HIDE DEF batch
<1> DEFINE p == [batch |-> batch, at |-> "sending"]
<1>11. p \in CyclesOver(DOMAIN outbox) /\ p.batch = batch /\ p.at = "sending"
  BY <1>9 DEF CyclesOver
<1>12. cycle' = [cycle EXCEPT ![d] = p]
  BY <1>2 DEF batch
<1> HIDE DEF p
<1>13. SentInv'
  <2>1. seen \subseteq seen' /\ late' \subseteq DOMAIN outbox
    BY <1>0, <1>1 DEF SentInv
  <2> QED BY <1>0, <1>3, <1>10, <1>11, <1>12, <2>1, CycleMoves
<1> QED BY <1>0, <1>1, <1>3, <1>13, NothingFiled, NothingProjected DEF BridgeInv

LEMMA SendKeeps ==
  ASSUME BridgeInv, NEW d \in Dispatchers, PostSnapshot(d) \/ LoseAnswer(d)
  PROVE  BridgeInv'
<1>0. SourceInv /\ FiledInv /\ ProjectedInv /\ SentInv
  BY DEF BridgeInv
<1> DEFINE s == Sent(d)
<1>1. cycle[d].at = "sending"
  BY DEF PostSnapshot, LoseAnswer, Sending
<1>2. /\ cycle[d].batch \in Seq([item : DOMAIN outbox, token : Nat])
      /\ cycle[d].batch # <<>> /\ s \in DOMAIN outbox
  BY <1>0, <1>1, CycleFields DEF Sent
<1>3. PICK outcome \in {"taken", "refused"} :
        /\ Conclude(d, outcome)
        /\ outcome = "taken" => Ingest(s)
  BY DEF PostSnapshot, LoseAnswer
<1>4. UNCHANGED <<source, changes, notices, outbox>>
      /\ cycle' = [cycle EXCEPT ![d].at = outcome]
  BY <1>3 DEF Conclude, sourceVars, outboxVars
<1>5. late' \subseteq DOMAIN outbox
  BY <1>0, <1>2 DEF PostSnapshot, LoseAnswer, SentInv
<1>6. ProjectedInv' /\ seen \subseteq seen' /\ (outcome = "taken" => s \in seen')
  <2>1. CASE Ingest(s)
    BY <1>2, <1>4, <2>1, IngestKeeps
  <2>2. CASE ~Ingest(s)
    <3>1. UNCHANGED <<seen, projected>>
      BY <2>2 DEF PostSnapshot, LoseAnswer, ingressVars
    <3> QED BY <1>0, <1>3, <1>4, <2>2, <3>1, NothingProjected
  <2> QED BY <2>1, <2>2
<1> DEFINE p == [batch |-> cycle[d].batch, at |-> outcome]
<1>7. /\ p \in CyclesOver(DOMAIN outbox) /\ p.batch = cycle[d].batch /\ p.at = outcome
      /\ cycle' = [cycle EXCEPT ![d] = p]
  <2>1. p \in CyclesOver(DOMAIN outbox)
    BY <1>2 DEF CyclesOver
  <2>2. cycle[d] = [batch |-> cycle[d].batch, at |-> cycle[d].at]
    BY <1>0, <1>1, CycleFields
  <2>3. [cycle[d] EXCEPT !.at = outcome] = p
    BY <2>2
  <2> QED BY <1>4, <2>1, <2>3
<1>8. Head(p.batch).item = s
  BY DEF Sent
<1> HIDE DEF p, s
<1>9. SentInv'
  <2>1. \A k \in DOMAIN outbox :
          outbox'[k].attempts \in Nat /\ (outbox'[k].status = "delivered" => k \in seen')
    BY <1>0, <1>4, <1>6 DEF SentInv
  <2>2. p.batch # <<>> /\ (p.at = "taken" => Head(p.batch).item \in seen')
    BY <1>2, <1>6, <1>7, <1>8
  <2> QED BY <1>0, <1>4, <1>5, <1>6, <1>7, <2>1, <2>2, CycleMoves
<1> QED BY <1>0, <1>4, <1>6, <1>9, NothingFiled DEF BridgeInv

LEMMA LandKeeps ==
  ASSUME BridgeInv, NEW s \in late, Land(s)
  PROVE  BridgeInv'
<1>0. SourceInv /\ FiledInv /\ ProjectedInv /\ SentInv
  BY DEF BridgeInv
<1>1. UNCHANGED <<source, changes, notices, outbox, cycle>>
  BY DEF Land, sourceVars, outboxVars
<1>2. late' \subseteq DOMAIN outbox /\ s \in DOMAIN outbox
  BY <1>0 DEF Land, SentInv
<1>3. ProjectedInv' /\ seen \subseteq seen'
  <2>1. CASE Ingest(s)
    BY <1>1, <1>2, <2>1, IngestKeeps
  <2>2. CASE UNCHANGED ingressVars
    BY <1>0, <1>1, <2>2, NothingProjected DEF ingressVars
  <2> QED BY <2>1, <2>2 DEF Land
<1>4. SentInv'
  BY <1>0, <1>1, <1>2, <1>3, CyclesStay DEF SentInv
<1> QED BY <1>0, <1>1, <1>3, <1>4, NothingFiled DEF BridgeInv

----------------------------------------------------------------------------
\* The end of a row's delivery: only what was taken becomes delivered.
LEMMA SettleKeeps ==
  ASSUME BridgeInv, NEW d \in Dispatchers, NEW status, Settle(d, status),
         cycle[d].at \in {"taken", "refused"},
         status = "delivered" => cycle[d].at = "taken"
  PROVE  BridgeInv'
<1> DEFINE claim == Head(cycle[d].batch)
           rest == Tail(cycle[d].batch)
           p == IF rest = <<>> THEN NoCycle ELSE [batch |-> rest, at |-> "sending"]
<1>0. SourceInv /\ FiledInv /\ ProjectedInv /\ SentInv
  BY DEF BridgeInv
<1>1. UNCHANGED <<source, changes, notices, late, seen, projected>>
  BY DEF Settle, sourceVars, ingressVars
<1>2. rest \in Seq([item : DOMAIN outbox, token : Nat]) /\ claim.item \in DOMAIN outbox
      /\ (cycle[d].at = "taken" => claim.item \in seen)
  BY <1>0, CycleFields DEF SentInv
<1>3. cycle' = [cycle EXCEPT ![d] = p]
  BY DEF Settle, Proceed
<1>4. p \in CyclesOver(DOMAIN outbox) /\ (p.at # "idle" => p.batch # <<>>) /\ p.at # "taken"
  <2>1. NoCycle \in CyclesOver(DOMAIN outbox) /\ NoCycle.at = "idle"
    BY EmptySeq DEF NoCycle, CyclesOver
  <2>2. CASE rest = <<>>
    BY <2>1, <2>2
  <2>3. CASE rest # <<>>
    BY <1>2, <2>3 DEF CyclesOver
  <2> QED BY <2>2, <2>3
<1> HIDE DEF p, rest
<1>5. /\ DOMAIN outbox' = DOMAIN outbox
      /\ \A s \in DOMAIN outbox :
           outbox'[s].attempts \in Nat /\ (outbox'[s].status = "delivered" => s \in seen')
  <2>1. CASE ~ClaimHeld(claim)
    BY <1>0, <1>1, <2>1 DEF Settle, SentInv
  <2>2. CASE ClaimHeld(claim)
    <3> DEFINE half == [outbox EXCEPT ![claim.item].status = status]
    <3>1. outbox' = [half EXCEPT ![claim.item].leased = FALSE]
      BY <2>2 DEF Settle
    <3>2. /\ DOMAIN half = DOMAIN outbox
          /\ \A s \in DOMAIN outbox :
               half[s].attempts \in Nat /\ (half[s].status = "delivered" => s \in seen)
      BY <1>0, <1>2 DEF SentInv
    <3> HIDE DEF half
    <3> QED BY <1>1, <3>1, <3>2
  <2> QED BY <2>1, <2>2
<1>6. SentInv'
  <2>1. seen \subseteq seen' /\ late' \subseteq DOMAIN outbox
    BY <1>0, <1>1 DEF SentInv
  <2> QED BY <1>0, <1>3, <1>4, <1>5, <2>1, CycleMoves
<1> QED BY <1>0, <1>1, <1>5, <1>6, NothingFiled, NothingProjected DEF BridgeInv

LEMMA AbandonKeeps ==
  ASSUME BridgeInv, NEW d \in Dispatchers, Abandon(d)
  PROVE  BridgeInv'
<1>0. SourceInv /\ FiledInv /\ ProjectedInv /\ SentInv
  BY DEF BridgeInv
<1>1. UNCHANGED <<source, changes, notices, outbox, late, seen, projected>>
      /\ cycle' = [cycle EXCEPT ![d] = NoCycle]
  BY DEF Abandon, sourceVars, outboxVars, ingressVars
<1>2. NoCycle \in CyclesOver(DOMAIN outbox) /\ NoCycle.at = "idle"
  BY EmptySeq DEF NoCycle, CyclesOver
<1>3. /\ DOMAIN outbox' = DOMAIN outbox /\ seen \subseteq seen' /\ late' \subseteq DOMAIN outbox
      /\ \A s \in DOMAIN outbox :
           outbox'[s].attempts \in Nat /\ (outbox'[s].status = "delivered" => s \in seen')
  BY <1>0, <1>1 DEF SentInv
<1>4. SentInv'
  BY <1>0, <1>1, <1>2, <1>3, CycleMoves
<1> QED BY <1>0, <1>1, <1>4, NothingFiled, NothingProjected DEF BridgeInv

\* Time passes for a row.
LEMMA TimeKeeps ==
  ASSUME BridgeInv, NEW s \in DOMAIN outbox, LeaseRunsOutOn(s) \/ BackoffOver(s)
  PROVE  BridgeInv'
<1>0. SourceInv /\ FiledInv /\ ProjectedInv /\ SentInv
  BY DEF BridgeInv
<1>1. UNCHANGED <<source, changes, notices, cycle, late, seen, projected>>
      /\ outbox' \in {outbox, [outbox EXCEPT ![s].leased = FALSE]}
  BY DEF LeaseRunsOutOn, BackoffOver, sourceVars, ingressVars
<1>2. /\ DOMAIN outbox' = DOMAIN outbox
      /\ \A k \in DOMAIN outbox :
           outbox'[k].attempts \in Nat /\ (outbox'[k].status = "delivered" => k \in seen')
  <2>1. CASE outbox' = outbox
    BY <1>0, <1>1, <2>1 DEF SentInv
  <2>2. CASE outbox' = [outbox EXCEPT ![s].leased = FALSE]
    <3>1. \A k \in DOMAIN outbox :
            outbox'[k].attempts = outbox[k].attempts /\ outbox'[k].status = outbox[k].status
      BY <2>2
    <3> QED BY <1>0, <1>1, <2>2, <3>1 DEF SentInv
  <2> QED BY <1>1, <2>1, <2>2
<1>3. SentInv'
  <2>1. seen \subseteq seen' /\ late' \subseteq DOMAIN outbox
    BY <1>0, <1>1 DEF SentInv
  <2> QED BY <1>0, <1>1, <1>2, <2>1, CyclesStay
<1> QED BY <1>0, <1>1, <1>2, <1>3, NothingFiled, NothingProjected DEF BridgeInv

----------------------------------------------------------------------------
LEMMA BridgeStep == BridgeInv /\ QueueTypes /\ [BridgeNext]_bridgeVars => BridgeInv'
<1> SUFFICES ASSUME BridgeInv, QueueTypes, [BridgeNext]_bridgeVars PROVE BridgeInv'
  OBVIOUS
<1>1. CASE \E q \in Quantities : Restock(q)
  <2>1. PICK q \in Quantities : Change(Stock, "active", q)
    BY <1>1 DEF Restock
  <2>2. Stock \in Subjects /\ q \in Nat
    BY BridgeAssumption DEF Subjects
  <2> QED BY <2>1, <2>2, ChangeKeeps
<1>2. CASE \E r \in Reservations : Reserve(r) \/ Release(r)
  <2>1. PICK r \in Reservations : Change(r, "active", 1) \/ Change(r, "released", 1)
    BY <1>2 DEF Reserve, Release
  <2>2. r \in Subjects /\ 1 \in Nat
    BY DEF Subjects
  <2> QED BY <2>1, <2>2, ChangeKeeps
<1>3. CASE \E n \in 1 .. changes : Hydrate(n) \/ HydrateReleased(n) \/ Enqueue(n) \/ Drop(n)
  BY <1>3, SubscriberKeeps
<1>4. CASE \E d \in Dispatchers : Claim(d) \/ Work(d) \/ Abandon(d)
  <2>1. PICK d \in Dispatchers : Claim(d) \/ Work(d) \/ Abandon(d)
    BY <1>4
  <2>2. CASE Claim(d)
    BY <2>2, ClaimKeeps
  <2>3. CASE PostSnapshot(d) \/ LoseAnswer(d)
    BY <2>3, SendKeeps
  <2>4. CASE CompleteRow(d)
    BY <2>4, SettleKeeps DEF CompleteRow
  <2>5. CASE FailRow(d)
    <3>1. PICK status \in {"dead_letter", "pending"} : Settle(d, status)
      BY <2>5 DEF FailRow
    <3>2. cycle[d].at \in {"taken", "refused"}
      BY <2>5 DEF FailRow
    <3> QED BY <3>1, <3>2, SettleKeeps
  <2>6. CASE Abandon(d)
    BY <2>6, AbandonKeeps
  <2> QED BY <2>1, <2>2, <2>3, <2>4, <2>5, <2>6 DEF Work
<1>5. CASE \E s \in DOMAIN outbox : LeaseRunsOutOn(s) \/ BackoffOver(s)
  BY <1>5, TimeKeeps
<1>6. CASE \E s \in late : Land(s)
  BY <1>6, LandKeeps
<1>7. CASE UNCHANGED bridgeVars
  <2>1. UNCHANGED <<source, changes, notices, outbox, cycle, late, seen, projected>>
    BY <1>7 DEF bridgeVars, sourceVars, outboxVars, ingressVars
  <2> QED BY <2>1 DEF BridgeInv, SourceInv, FiledInv, ProjectedInv, SentInv
<1> QED BY <1>1, <1>2, <1>3, <1>4, <1>5, <1>6, <1>7 DEF BridgeNext

\* The last change of a record was captured by a snapshot at least as late, which
\* was delivered and seen: the projection is as late, so it is that change.
LEMMA CapturedIsProjected == BridgeInv => SettledProjection
<1> SUFFICES ASSUME BridgeInv, Captured,
                    \A s \in DOMAIN outbox : outbox[s].status = "delivered",
                    NEW x \in Subjects
             PROVE  projected[x] = source[x]
  BY DEF SettledProjection, BridgeInv, SourceInv, ProjectedInv
<1>0. SourceInv /\ FiledInv /\ ProjectedInv /\ SentInv
  BY DEF BridgeInv
<1> DEFINE n == source[x].at
<1>1. n \in Nat /\ projected[x].at \in Nat /\ Agrees(projected[x], source[x])
  BY <1>0, RecordFields DEF SourceInv, ProjectedInv
<1>2. CASE n = 0
  BY <1>1, <1>2, SMT DEF Agrees
<1>3. CASE n # 0
  <2>1. n \in 1 .. changes
    BY <1>0, <1>1, <1>3, SMT DEF SourceInv
  <2>2. notices[n].of = x /\ notices[n].gone = (source[x].state = "released")
    BY <1>0, <2>1 DEF SourceInv
  <2>3. notices[n].stage = "done"
    BY <2>1, <2>2 DEF Captured
  <2>4. PICK s \in DOMAIN outbox : s.of = x /\ n <= s.at
    BY <1>0, <2>1, <2>2, <2>3 DEF FiledInv
  <2>5. s \in seen /\ s \in Snapshots /\ s.at <= projected[x].at /\ s.at \in Nat
    BY <1>0, <2>4, SnapshotFields DEF SentInv, ProjectedInv
  <2>6. projected[x].at = source[x].at
    BY <1>1, <2>4, <2>5, SMT DEF Agrees
  <2> QED BY <1>1, <2>6 DEF Agrees
<1> QED BY <1>2, <1>3

----------------------------------------------------------------------------
(* The types of the queue.                                                 *)

LEMMA QueueStart == BridgeInit => QueueTypes
<1> SUFFICES ASSUME BridgeInit PROVE QueueTypes
  OBVIOUS
<1>1. 0 <= MaxChanges /\ 0 \in 0 .. MaxFaults /\ 0 \in Nat
  BY BridgeAssumption, SMT
<1>2. due = <<>> /\ \A d \in Dispatchers : cycle[d].batch = <<>>
  BY DEF BridgeInit, NoCycle
<1>3. <<>> \in Seq(DOMAIN outbox) /\ <<>> \in Seq(ClaimsOnFile)
  BY EmptySeq
<1>4. NoPosition \in [on_hand : Nat, reserved : Nat]
  BY <1>1 DEF NoPosition
<1>5. /\ changes = 0 /\ faults = 0 /\ seen = {} /\ position = NoPosition
      /\ outbox = <<>>
  BY DEF BridgeInit
<1>6. \A s \in DOMAIN outbox : outbox[s] \in Rows
  BY <1>5
<1>7. due \in Seq(DOMAIN outbox) /\ \A d \in Dispatchers : cycle[d].batch \in Seq(ClaimsOnFile)
  BY <1>2, <1>3
<1> QED BY <1>1, <1>4, <1>5, <1>6, <1>7 DEF QueueTypes

\* Steps that take neither rows nor claims away.
LEMMA QueueGrows ==
  ASSUME QueueTypes, DOMAIN outbox \subseteq DOMAIN outbox',
         changes' <= MaxChanges,
         \A s \in DOMAIN outbox' : outbox'[s] \in Rows,
         due' \in Seq(DOMAIN outbox'),
         \A d \in Dispatchers :
           cycle'[d].batch \in Seq(ClaimsOnFile) \/ cycle'[d].batch = cycle[d].batch,
         seen' \subseteq DOMAIN outbox',
         position' \in [on_hand : Nat, reserved : Nat],
         faults' \in 0 .. MaxFaults
  PROVE  QueueTypes'
<1>1. ClaimsOnFile \subseteq ClaimsOnFile'
  BY DEF ClaimsOnFile
<1>2. Seq(ClaimsOnFile) \subseteq Seq(ClaimsOnFile')
  BY <1>1, SeqMonotonic
<1>3. \A d \in Dispatchers : cycle'[d].batch \in Seq(ClaimsOnFile')
  BY <1>2 DEF QueueTypes
<1> QED BY <1>3 DEF QueueTypes

LEMMA FaultType ==
  ASSUME QueueTypes, Fault \/ UNCHANGED faults
  PROVE  faults' \in 0 .. MaxFaults
BY BridgeAssumption, SMT DEF QueueTypes, Fault

\* A row that is new, and those that are on file.
LEMMA NewRowType ==
  ASSUME NEW status \in {"pending", "processing", "delivered", "dead_letter"},
         NEW attempts \in 0 .. MaxAttempts, NEW leased \in BOOLEAN
  PROVE  [status |-> status, attempts |-> attempts, leased |-> leased] \in Rows
BY DEF Rows

LEMMA SourceTypes ==
  ASSUME BridgeInv, QueueTypes, NEW x, NEW state, NEW q, Change(x, state, q)
  PROVE  QueueTypes'
<1>1. changes' <= MaxChanges
  BY BridgeAssumption, SMT DEF Change, BridgeInv, SourceInv
<1>2. UNCHANGED <<outbox, due, cycle, seen, position, faults>>
  BY DEF Change, outboxVars, ingressVars
<1> QED BY <1>1, <1>2, QueueGrows DEF QueueTypes

LEMMA SubscriberTypes ==
  ASSUME BridgeInv, QueueTypes, NEW n \in 1 .. changes,
         Hydrate(n) \/ HydrateReleased(n) \/ Enqueue(n) \/ Drop(n)
  PROVE  QueueTypes'
<1>1. UNCHANGED <<changes, cycle, seen, position>> /\ (Fault \/ UNCHANGED faults)
  BY DEF Hydrate, HydrateReleased, Enqueue, Drop, Handle, sourceVars, ingressVars
<1>2. faults' \in 0 .. MaxFaults
  BY <1>1, FaultType
<1>3. CASE UNCHANGED <<outbox, due>>
  BY <1>1, <1>2, <1>3, QueueGrows DEF QueueTypes
<1>4. CASE ~UNCHANGED <<outbox, due>>
  <2> DEFINE s == notices[n].snapshot
             new == [status |-> "pending", attempts |-> 0, leased |-> FALSE]
  <2>1. /\ outbox' = [k \in DOMAIN outbox \cup {s} |-> IF k = s THEN new ELSE outbox[k]]
        /\ due' = Append(due, s)
    BY <1>4 DEF Hydrate, HydrateReleased, Enqueue, Drop, outboxVars
  <2>2. new \in Rows
    <3>1. 0 \in 0 .. MaxAttempts
      BY BridgeAssumption, SMT
    <3> QED BY <3>1, NewRowType
  <2> HIDE DEF s, new
  <2>3. DOMAIN outbox' = DOMAIN outbox \cup {s} /\ \A k \in DOMAIN outbox' : outbox'[k] \in Rows
    BY <2>1, <2>2 DEF QueueTypes
  <2>4. due \in Seq(DOMAIN outbox') /\ s \in DOMAIN outbox'
    BY <2>3, SeqMonotonic DEF QueueTypes
  <2>5. due' \in Seq(DOMAIN outbox')
    BY <2>1, <2>4, AppendProperties
  <2> QED BY <1>1, <1>2, <2>3, <2>5, QueueGrows DEF QueueTypes
<1> QED BY <1>3, <1>4

LEMMA ClaimTypes ==
  ASSUME BridgeInv, QueueTypes, NEW d \in Dispatchers, Claim(d)
  PROVE  QueueTypes'
<1>1. UNCHANGED <<changes, due, seen, position, faults>>
  BY DEF Claim, sourceVars, ingressVars
<1> DEFINE rows == {due[i] : i \in Batch}
<1>2. /\ rows \subseteq DOMAIN outbox
      /\ \A s \in rows : outbox[s] \in Rows /\ outbox[s].attempts < MaxAttempts
      /\ Batch \subseteq 1 .. Len(due)
  BY DEF Claim, Batch, ReadyAt, QueueTypes
<1>3. \A s \in rows : outbox[s].attempts + 1 \in 0 .. MaxAttempts
                   /\ outbox[s].attempts + 1 \in 1 .. MaxAttempts
  BY <1>2, BridgeAssumption, SMT DEF Rows
<1>4. DOMAIN outbox' = DOMAIN outbox /\ \A s \in DOMAIN outbox' : outbox'[s] \in Rows
  <2>1. outbox' = [s \in DOMAIN outbox |->
          IF s \in rows
            THEN [status |-> "processing", attempts |-> outbox[s].attempts + 1, leased |-> TRUE]
            ELSE outbox[s]]
    BY DEF Claim
  <2>2. \A s \in rows :
          [status |-> "processing", attempts |-> outbox[s].attempts + 1, leased |-> TRUE] \in Rows
    BY <1>3, NewRowType
  <2> HIDE DEF rows
  <2> QED BY <2>1, <2>2 DEF QueueTypes
<1>5. PICK order \in AnyOrder(Batch) :
        cycle' = [cycle EXCEPT ![d] =
          [batch |-> [i \in DOMAIN order |->
                       [item |-> due[order[i]], token |-> outbox[due[order[i]]].attempts + 1]],
           at |-> "sending"]]
  BY DEF Claim
<1> DEFINE batch == [i \in DOMAIN order |->
                      [item |-> due[order[i]], token |-> outbox[due[order[i]]].attempts + 1]]
<1>6. Cardinality(Batch) \in Nat /\ order \in [1 .. Cardinality(Batch) -> Batch]
  BY <1>2, OrderOfPlaces, LenProperties DEF QueueTypes
<1>7. batch \in [1 .. Cardinality(Batch) -> ClaimsOnFile]
  <2>1. \A i \in Batch : [item |-> due[i], token |-> outbox[due[i]].attempts + 1] \in ClaimsOnFile
    <3>1. \A i \in Batch : due[i] \in rows
      OBVIOUS
    <3> HIDE DEF rows
    <3> QED BY <1>2, <1>3, <3>1 DEF ClaimsOnFile
  <2> QED BY <1>6, <2>1
<1>8. batch \in Seq(ClaimsOnFile)
  BY <1>6, <1>7, FunctionIsSequence
<1> HIDE DEF batch
<1>9. cycle' = [cycle EXCEPT ![d] = [batch |-> batch, at |-> "sending"]]
  BY <1>5 DEF batch
<1>10. \A e \in Dispatchers :
         cycle'[e].batch \in Seq(ClaimsOnFile) \/ cycle'[e].batch = cycle[e].batch
  BY <1>8, <1>9 DEF BridgeInv, SentInv
<1> QED BY <1>1, <1>4, <1>10, QueueGrows DEF QueueTypes

\* What the ingress takes was on file, and what it projects is what it was sent.
LEMMA IngestTypes ==
  ASSUME BridgeInv, QueueTypes, NEW s \in DOMAIN outbox, Ingest(s)
  PROVE  seen' \subseteq DOMAIN outbox /\ position' \in [on_hand : Nat, reserved : Nat]
<1>1. seen' = seen \cup {s}
  BY DEF Ingest
<1>2. s \in Snapshots /\ s.of \in Subjects /\ s.quantity \in Nat
  BY SnapshotFields DEF BridgeInv, FiledInv, Proper, Snapshots
<1>3. ASSUME Verdict(s) = "applied" PROVE position' \in [on_hand : Nat, reserved : Nat]
  <2>1. position' = [on_hand |-> With(s)[Stock].quantity, reserved |-> Reserved(With(s))]
    BY <1>3 DEF Ingest
  <2>2. Stock \in Subjects /\ projected[Stock].quantity \in Nat
    BY RecordFields DEF Subjects, BridgeInv, ProjectedInv
  <2>3. With(s)[Stock].quantity \in Nat
    BY <1>2, <2>2 DEF With, BridgeInv, ProjectedInv
  <2>4. Reserved(With(s)) \in Nat
    BY BridgeAssumption, FS_Subset, FS_CardinalityType DEF Reserved
  <2> QED BY <2>1, <2>3, <2>4
<1> QED BY <1>1, <1>3 DEF Ingest, QueueTypes

LEMMA SendTypes ==
  ASSUME BridgeInv, QueueTypes, NEW d \in Dispatchers, PostSnapshot(d) \/ LoseAnswer(d)
  PROVE  QueueTypes'
<1>1. UNCHANGED <<changes, outbox, due>> /\ faults' \in 0 .. MaxFaults
  BY FaultType DEF PostSnapshot, LoseAnswer, Conclude, sourceVars, outboxVars
<1>2. Sent(d) \in DOMAIN outbox
  BY CycleFields DEF PostSnapshot, LoseAnswer, Sending, Sent, BridgeInv
<1>3. seen' \subseteq DOMAIN outbox /\ position' \in [on_hand : Nat, reserved : Nat]
  BY <1>2, IngestTypes DEF PostSnapshot, LoseAnswer, ingressVars, QueueTypes
<1>4. PICK outcome : cycle' = [cycle EXCEPT ![d].at = outcome]
  BY DEF PostSnapshot, LoseAnswer, Conclude
<1>5. \A e \in Dispatchers : cycle'[e].batch = cycle[e].batch
  BY <1>4 DEF BridgeInv, SentInv, CyclesOver
<1> QED BY <1>1, <1>3, <1>5, QueueGrows DEF QueueTypes

LEMMA LandTypes ==
  ASSUME BridgeInv, QueueTypes, NEW s \in late, Land(s)
  PROVE  QueueTypes'
<1>1. UNCHANGED <<changes, outbox, due, cycle, faults>>
  BY DEF Land, sourceVars, outboxVars
<1>2. s \in DOMAIN outbox
  BY DEF BridgeInv, SentInv
<1>3. seen' \subseteq DOMAIN outbox /\ position' \in [on_hand : Nat, reserved : Nat]
  BY <1>2, IngestTypes DEF Land, ingressVars, QueueTypes
<1> QED BY <1>1, <1>3, QueueGrows DEF QueueTypes

LEMMA SettleTypes ==
  ASSUME BridgeInv, QueueTypes, NEW d \in Dispatchers, cycle[d].at # "idle",
         NEW status \in {"pending", "delivered", "dead_letter"}, Settle(d, status),
         Fault \/ UNCHANGED faults
  PROVE  QueueTypes'
<1> DEFINE claim == Head(cycle[d].batch)
           rest == Tail(cycle[d].batch)
<1>1. UNCHANGED <<changes, seen, position>> /\ faults' \in 0 .. MaxFaults
  BY FaultType DEF Settle, sourceVars, ingressVars
<1>2. cycle[d].batch \in Seq(ClaimsOnFile) /\ cycle[d].batch # <<>>
  BY DEF QueueTypes, BridgeInv, SentInv
<1>3. claim.item \in DOMAIN outbox /\ rest \in Seq(ClaimsOnFile) /\ <<>> \in Seq(ClaimsOnFile)
  <2>1. claim \in ClaimsOnFile /\ rest \in Seq(ClaimsOnFile)
    BY <1>2, HeadTailProperties
  <2> QED BY <2>1, EmptySeq DEF ClaimsOnFile
<1>4. due' \in Seq(DOMAIN outbox)
  BY WithoutIsSequence DEF Settle, QueueTypes
<1>5. DOMAIN outbox' = DOMAIN outbox /\ \A s \in DOMAIN outbox : outbox'[s] \in Rows
  <2>1. CASE ~ClaimHeld(claim)
    BY <2>1 DEF Settle, QueueTypes
  <2>2. CASE ClaimHeld(claim)
    <3> DEFINE half == [outbox EXCEPT ![claim.item].status = status]
    <3>1. outbox' = [half EXCEPT ![claim.item].leased = FALSE]
      BY <2>2 DEF Settle
    <3>2. DOMAIN half = DOMAIN outbox /\ \A s \in DOMAIN outbox : half[s] \in Rows
      BY DEF QueueTypes, Rows
    <3> HIDE DEF half, claim
    <3> QED BY <3>1, <3>2 DEF Rows
  <2> QED BY <2>1, <2>2
<1>6. cycle' = [cycle EXCEPT ![d] =
        IF rest = <<>> THEN NoCycle ELSE [batch |-> rest, at |-> "sending"]]
  BY DEF Settle, Proceed
<1> HIDE DEF claim, rest
<1>7. \A e \in Dispatchers :
        cycle'[e].batch \in Seq(ClaimsOnFile) \/ cycle'[e].batch = cycle[e].batch
  BY <1>3, <1>6 DEF NoCycle, BridgeInv, SentInv
<1> QED BY <1>1, <1>4, <1>5, <1>7, QueueGrows DEF QueueTypes

LEMMA AbandonTypes ==
  ASSUME BridgeInv, QueueTypes, NEW d \in Dispatchers, Abandon(d)
  PROVE  QueueTypes'
<1>1. UNCHANGED <<changes, outbox, due, seen, position>> /\ faults' \in 0 .. MaxFaults
      /\ cycle' = [cycle EXCEPT ![d] = NoCycle]
  BY FaultType DEF Abandon, sourceVars, outboxVars, ingressVars
<1>2. \A e \in Dispatchers :
        cycle'[e].batch \in Seq(ClaimsOnFile) \/ cycle'[e].batch = cycle[e].batch
  BY <1>1, EmptySeq DEF NoCycle, BridgeInv, SentInv
<1> QED BY <1>1, <1>2, QueueGrows DEF QueueTypes

LEMMA TimeTypes ==
  ASSUME BridgeInv, QueueTypes, NEW s \in DOMAIN outbox, LeaseRunsOutOn(s) \/ BackoffOver(s)
  PROVE  QueueTypes'
<1>1. UNCHANGED <<changes, cycle, seen, position>> /\ faults' \in 0 .. MaxFaults
  BY FaultType DEF LeaseRunsOutOn, BackoffOver, sourceVars, ingressVars
<1>2. DOMAIN outbox' = DOMAIN outbox /\ \A k \in DOMAIN outbox : outbox'[k] \in Rows
  <2>1. outbox' \in {outbox, [outbox EXCEPT ![s].leased = FALSE]}
    BY DEF LeaseRunsOutOn, BackoffOver
  <2>2. ASSUME outbox' = [outbox EXCEPT ![s].leased = FALSE]
        PROVE  DOMAIN outbox' = DOMAIN outbox /\ \A k \in DOMAIN outbox : outbox'[k] \in Rows
    BY <2>2 DEF QueueTypes, Rows
  <2> QED BY <2>1, <2>2 DEF QueueTypes
<1>3. due' \in Seq(DOMAIN outbox)
  BY AppendProperties DEF LeaseRunsOutOn, BackoffOver, QueueTypes
<1> QED BY <1>1, <1>2, <1>3, QueueGrows DEF QueueTypes

LEMMA QueueStep == BridgeInv /\ QueueTypes /\ [BridgeNext]_bridgeVars => QueueTypes'
<1> SUFFICES ASSUME BridgeInv, QueueTypes, [BridgeNext]_bridgeVars PROVE QueueTypes'
  OBVIOUS
<1>1. CASE \E q \in Quantities : Restock(q)
  BY <1>1, SourceTypes DEF Restock
<1>2. CASE \E r \in Reservations : Reserve(r) \/ Release(r)
  BY <1>2, SourceTypes DEF Reserve, Release
<1>3. CASE \E n \in 1 .. changes : Hydrate(n) \/ HydrateReleased(n) \/ Enqueue(n) \/ Drop(n)
  BY <1>3, SubscriberTypes
<1>4. CASE \E d \in Dispatchers : Claim(d) \/ Work(d) \/ Abandon(d)
  <2>1. PICK d \in Dispatchers : Claim(d) \/ Work(d) \/ Abandon(d)
    BY <1>4
  <2>2. CASE PostSnapshot(d) \/ LoseAnswer(d)
    BY <2>2, SendTypes
  <2>3. CASE CompleteRow(d)
    BY <2>3, SettleTypes DEF CompleteRow
  <2>4. CASE FailRow(d)
    <3>1. PICK status \in {"pending", "dead_letter"} : Settle(d, status)
      BY <2>4 DEF FailRow
    <3>2. cycle[d].at # "idle" /\ (Fault \/ UNCHANGED faults)
      BY <2>4 DEF FailRow
    <3> QED BY <3>1, <3>2, SettleTypes
  <2> QED BY <2>1, <2>2, <2>3, <2>4, ClaimTypes, AbandonTypes DEF Work
<1>5. CASE \E s \in DOMAIN outbox : LeaseRunsOutOn(s) \/ BackoffOver(s)
  BY <1>5, TimeTypes
<1>6. CASE \E s \in late : Land(s)
  BY <1>6, LandTypes
<1>7. CASE UNCHANGED bridgeVars
  BY <1>7, QueueGrows
     DEF QueueTypes, bridgeVars, sourceVars, outboxVars, ingressVars
<1> QED BY <1>1, <1>2, <1>3, <1>4, <1>5, <1>6, <1>7 DEF BridgeNext

LEMMA BridgeTyped == BridgeInv /\ QueueTypes => BridgeTypeOK
<1> SUFFICES ASSUME BridgeInv, QueueTypes PROVE BridgeTypeOK
  OBVIOUS
<1>0. SourceInv /\ FiledInv /\ ProjectedInv /\ SentInv
  BY DEF BridgeInv
<1>1. changes \in 0 .. MaxChanges
  BY <1>0, BridgeAssumption, SMT DEF SourceInv, QueueTypes
<1>2. \A s \in DOMAIN outbox : s \in Snapshots
  BY <1>0 DEF FiledInv, Proper
<1>3. ClaimsOnFile \subseteq Items
  BY <1>2 DEF ClaimsOnFile, Items
<1>4. \A d \in Dispatchers : cycle[d].batch \in Seq(Items)
  BY <1>3, SeqMonotonic DEF QueueTypes
<1>5. \A d \in Dispatchers : cycle[d].at \in {"idle", "sending", "taken", "refused"}
  BY <1>0 DEF SentInv, CyclesOver
<1> QED BY <1>0, <1>1, <1>2, <1>4, <1>5
        DEF BridgeTypeOK, QueueTypes, SourceInv, ProjectedInv, SentInv

LEMMA BridgeAll ==
  /\ BridgeInit => BridgeInv /\ QueueTypes
  /\ BridgeInv /\ QueueTypes /\ [BridgeNext]_bridgeVars => (BridgeInv /\ QueueTypes)'
BY BridgeStart, BridgeStep, QueueStart, QueueStep

\* Every reachable state of the bridge is well typed: what is queued, claimed or late
\* is on file, and no row has more attempts than its table allows.
THEOREM BridgeTypeCorrect == BridgeSpec => []BridgeTypeOK
BY BridgeAll, BridgeTyped, PTL DEF BridgeSpec

\* When every change has been captured and delivered the platform shows what
\* Medusa holds, for any number of reservations and dispatchers, and whatever is
\* lost, repeated and reordered on the way.
THEOREM SettledProjections == BridgeSpec => []SettledProjection
BY BridgeAll, CapturedIsProjected, PTL DEF BridgeSpec
=============================================================================
