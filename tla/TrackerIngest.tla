--------------------------- MODULE TrackerIngest ---------------------------
(***************************************************************************)
(* Polling one Geotab feed: vehicleTrackerProviderConsumers.ts and the     *)
(* stored procedures of migrations 0060 and 0061 behind it.  The feed is a *)
(* log whose records are its versions 1, 2, ..., and a cursor is the last  *)
(* version taken.  A claim token is drawn for each claim; since a worker   *)
(* holds one claim at a time, the name of the worker stands for it.        *)
(* Positions, payload digests and the Traccar transports are left out.     *)
(***************************************************************************)
EXTENDS Integers, FiniteSets

CONSTANTS
  Pollers,      \* ingest workers, one poll each at a time
  NoPoller,     \* claim_token is NULL
  Untracked,    \* records of devices that no active tracker is registered for
  Unusables,    \* which records may be refused for what they contain
  MaxFeed,      \* bound: records the provider has
  ResultsLimit, \* records of one answer
  BulkLimit,    \* TRACKER_BULK_RECORD_LIMIT
  MaxSetbacks   \* bound: crashes, errors and claims that run out under a poll

ASSUME IngestAssumption ==
  /\ NoPoller \notin Pollers
  /\ Untracked \subseteq 1 .. MaxFeed /\ Unusables \subseteq SUBSET (1 .. MaxFeed)
  /\ {MaxFeed, MaxSetbacks} \subseteq Nat
  /\ {ResultsLimit, BulkLimit} \subseteq Nat \ {0}

VARIABLES
  feed,      \* the last version of the provider
  unusable,  \* records that are refused in every poll
  cursor,    \* feed_cursor
  lease,     \* claim_token and whether claim_expires_at is ahead
  batches,   \* keys of tracker_provider_ingest_batch: what an answer contained
  stored,    \* signals stored for each record
  poll,      \* where each worker is
  setbacks   \* faults so far

ingestVars == <<feed, unusable, cursor, lease, batches, stored, poll, setbacks>>

Poll == [at : {"idle", "claimed", "storing", "renewed", "failing"},
         from : 0 .. MaxFeed, to : 0 .. MaxFeed, done : 0 .. MaxFeed]

IdlePoll == [at |-> "idle", from |-> 0, to |-> 0, done |-> 0]
NoLease == [token |-> NoPoller, live |-> FALSE]

IngestTypeOK ==
  /\ feed \in 0 .. MaxFeed /\ cursor \in 0 .. feed /\ unusable \in Unusables
  /\ lease \in [token : Pollers \cup {NoPoller}, live : BOOLEAN]
  /\ batches \subseteq (0 .. MaxFeed) \X (0 .. MaxFeed)
  /\ stored \in [1 .. MaxFeed -> Nat]
  /\ poll \in [Pollers -> Poll]
  /\ setbacks \in 0 .. MaxSetbacks

IngestInit ==
  /\ feed = 0 /\ cursor = 0 /\ unusable \in Unusables
  /\ lease = NoLease
  /\ batches = {}
  /\ stored = [v \in 1 .. MaxFeed |-> 0]
  /\ poll = [w \in Pollers |-> IdlePoll]
  /\ setbacks = 0

---------------------------------------------------------------------------
\* A device reports to the provider.
Report ==
  /\ feed < MaxFeed
  /\ feed' = feed + 1
  /\ UNCHANGED <<unusable, cursor, lease, batches, stored, poll, setbacks>>

\* Five minutes pass: a setback for a worker that still polls.
LeaseRunsOut ==
  /\ lease.live
  /\ lease' = [lease EXCEPT !.live = FALSE]
  /\ IF poll[lease.token] = IdlePoll
       THEN UNCHANGED setbacks
       ELSE setbacks < MaxSetbacks /\ setbacks' = setbacks + 1
  /\ UNCHANGED <<feed, unusable, cursor, batches, stored, poll>>

Abandoned == lease.live /\ poll[lease.token] = IdlePoll

To(w, at) == poll' = [poll EXCEPT ![w].at = at]

\* Mistake: a claim that has run out stays until it is released.
ClaimFeedReleased(w) ==
  /\ poll[w] = IdlePoll
  /\ lease.token = NoPoller
  /\ lease' = [token |-> w, live |-> TRUE]
  /\ poll' = [poll EXCEPT ![w] =
       [at |-> "claimed", from |-> cursor, to |-> cursor, done |-> cursor]]
  /\ UNCHANGED <<feed, unusable, cursor, batches, stored, setbacks>>

\* claim_tracker_provider_ingest.
ClaimFeed(w) ==
  /\ poll[w] = IdlePoll
  /\ ~lease.live
  /\ lease' = [token |-> w, live |-> TRUE]
  /\ poll' = [poll EXCEPT ![w] =
       [at |-> "claimed", from |-> cursor, to |-> cursor, done |-> cursor]]
  /\ UNCHANGED <<feed, unusable, cursor, batches, stored, setbacks>>

\* Mistake: an answer cut at the limit is taken to reach the end of the feed.
NextVersionAtEnd(from) == feed

\* Mistake: the version is counted up to the limit, past the end of the feed.
NextVersionAtLimit(from) == from + ResultsLimit

\* GetFeed answers with at most ResultsLimit records and the version they reach.  One
\* record without a device or a date, and persistGeotabRecords stores none of them.
NextVersion(from) == IF from + ResultsLimit < feed THEN from + ResultsLimit ELSE feed

Received(from) == {v \in from + 1 .. feed : v <= from + ResultsLimit}

GetFeed(w) ==
  /\ poll[w].at = "claimed"
  /\ \/ poll' = [poll EXCEPT ![w].at = "storing", ![w].to = NextVersion(poll[w].from)]
     \/ Received(poll[w].from) \cap unusable # {} /\ To(w, "failing")
  /\ UNCHANGED <<feed, unusable, cursor, lease, batches, stored, setbacks>>

Holds(w) == lease.token = w /\ lease.live

\* persistProviderPositions renews the claim before each bulk call.
RenewClaim(w) ==
  /\ poll[w].at = "storing" /\ poll[w].done < poll[w].to
  /\ To(w, IF Holds(w) THEN "renewed" ELSE "failing")
  /\ UNCHANGED <<feed, unusable, cursor, lease, batches, stored, setbacks>>

\* The fence of the bulk call compares with a NULL token when nobody holds a claim,
\* and what is neither true nor false lets the call through.
BulkFence(w) == lease.token = NoPoller \/ Holds(w)

Chunk(w) == {v \in Received(poll[w].from) :
               poll[w].done < v /\ v <= poll[w].done + BulkLimit /\ v <= poll[w].to}

\* bulk_record_tracker_provider_signals: records of unknown devices are skipped, and
\* those stored before are duplicates; one that is refused undoes the call.  An
\* answer may be lost after the commit.
BulkRecord(w) ==
  LET reached == poll[w].done + BulkLimit IN
  /\ poll[w].at = "renewed"
  /\ IF BulkFence(w) /\ Chunk(w) \cap unusable = {}
       THEN /\ stored' = [v \in DOMAIN stored |->
                 IF v \in Chunk(w) \ Untracked /\ stored[v] = 0 THEN 1 ELSE stored[v]]
            /\ \/ /\ poll' = [poll EXCEPT ![w].at = "storing",
                       ![w].done = IF reached < poll[w].to THEN reached ELSE poll[w].to]
                  /\ UNCHANGED setbacks
               \/ To(w, "failing") /\ setbacks < MaxSetbacks /\ setbacks' = setbacks + 1
       ELSE To(w, "failing") /\ UNCHANGED <<stored, setbacks>>
  /\ UNCHANGED <<feed, unusable, cursor, lease, batches>>

\* complete_tracker_provider_ingest_batch: the same answer again is a replay, which
\* leaves claim and cursor as they are; claimed_by keeps a call without a claim out.
CommitBatch(w) ==
  LET key == <<poll[w].from, poll[w].to>> IN
  /\ poll[w].at = "storing" /\ poll[w].done = poll[w].to
  /\ \/ /\ key \in batches
        /\ poll' = [poll EXCEPT ![w] = IdlePoll]
        /\ UNCHANGED <<cursor, lease, batches>>
     \/ /\ key \notin batches /\ Holds(w) /\ cursor = poll[w].from
        /\ batches' = batches \cup {key}
        /\ cursor' = poll[w].to
        /\ lease' = NoLease
        /\ poll' = [poll EXCEPT ![w] = IdlePoll]
     \/ /\ key \notin batches /\ ~(Holds(w) /\ cursor = poll[w].from)
        /\ To(w, "failing")
        /\ UNCHANGED <<cursor, lease, batches>>
  /\ UNCHANGED <<feed, unusable, stored, setbacks>>

\* releaseProviderClaim; a claim that is not held any more is left alone.
ReleaseClaim(w) ==
  /\ poll[w].at = "failing"
  /\ lease' = IF Holds(w) THEN NoLease ELSE lease
  /\ poll' = [poll EXCEPT ![w] = IdlePoll]
  /\ UNCHANGED <<feed, unusable, cursor, batches, stored, setbacks>>

\* The provider or the database fails a call.
FailPoll(w) ==
  /\ poll[w].at \in {"claimed", "storing", "renewed"}
  /\ setbacks < MaxSetbacks
  /\ setbacks' = setbacks + 1
  /\ To(w, "failing")
  /\ UNCHANGED <<feed, unusable, cursor, lease, batches, stored>>

StopPoller(w) ==
  /\ poll[w] # IdlePoll
  /\ setbacks < MaxSetbacks
  /\ setbacks' = setbacks + 1
  /\ poll' = [poll EXCEPT ![w] = IdlePoll]
  /\ UNCHANGED <<feed, unusable, cursor, lease, batches, stored>>

---------------------------------------------------------------------------
PollStep(w) ==
  GetFeed(w) \/ RenewClaim(w) \/ BulkRecord(w) \/ CommitBatch(w) \/ ReleaseClaim(w)

IngestNext ==
  \/ Report \/ LeaseRunsOut
  \/ \E w \in Pollers : ClaimFeed(w) \/ PollStep(w) \/ FailPoll(w) \/ StopPoller(w)

\* A poll goes on, since every call has a timeout; a timer starts the next one; a
\* claim that nobody works under runs out.
IngestFairness ==
  /\ \A w \in Pollers : WF_ingestVars(PollStep(w))
  /\ WF_ingestVars(\E w \in Pollers : ClaimFeed(w))
  /\ WF_ingestVars(Abandoned /\ LeaseRunsOut)

IngestSpec == IngestInit /\ [][IngestNext]_ingestVars /\ IngestFairness

---------------------------------------------------------------------------
\* The cursor never passes a record that is not stored, whatever crashes between
\* the bulk calls of an answer, and although a call without a claim may store.  So it
\* never passes one that is refused.
NothingSkipped == \A v \in (1 .. cursor) \ Untracked : stored[v] = 1

\* After the last setback every record of a known device is stored, although an
\* answer seen before leaves its claim to run out, unless an answer that holds the
\* record may reach as far as one that is refused: those hold up the feed for good.
Reachable(v) == \A u \in unusable : v + ResultsLimit <= u

EventuallyStored ==
  \A v \in (1 .. MaxFeed) \ Untracked : (feed >= v /\ Reachable(v)) ~> (stored[v] = 1)
============================================================================
