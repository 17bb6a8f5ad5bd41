----------------------------- MODULE Campaigns -----------------------------
(***************************************************************************)
(* One marketing campaign sent to its audience.  sendCampaignToAudience    *)
(* pages through the users in the background of the API process; each send *)
(* is sendCampaign under a key of the audience scope and the user, every   *)
(* statement of it committed on its own.  One audience scope is modelled:  *)
(* a trigger that is retried reuses it.  Templates, the text of a message  *)
(* and the sms channel, which differs only in the provider, are left out.  *)
(***************************************************************************)
EXTENDS IdempotencyKeys, Sequences

CONSTANTS
  Recipients,   \* user ids, in the order the pages list them
  SendKey,      \* the idempotency key of a user in the audience scope
  Runs,         \* background dispatches of the campaign that may overlap
  PageSize,     \* CAMPAIGN_AUDIENCE_PAGE_SIZE
  MaxStarts,    \* bound: dispatches started
  MaxSwitches,  \* bound: times the campaign is paused or resumed
  MaxMoves,     \* bound: times a user enters or leaves the audience
  MaxRefusals,  \* bound: provider calls and statements of a send that throw
  MaxCrashes    \* bound: runs lost with their process

ASSUME CampaignAssumption ==
  /\ Recipients \subseteq Nat /\ IsFiniteSet(Recipients)
  /\ SendKey \in [Recipients -> Keys]
  /\ \A u, v \in Recipients : SendKey[u] = SendKey[v] => u = v
  /\ PageSize \in Nat \ {0}
  /\ {MaxStarts, MaxSwitches, MaxMoves, MaxRefusals, MaxCrashes} \subseteq Nat

VARIABLES
  active,     \* marketing_campaigns.is_active
  audience,   \* users the WHERE clause of the target audience selects
  run,        \* where each dispatch is
  sendRow,    \* the latest campaign_sends row of each user
  emailed,    \* messages the provider delivered to each user
  sendCount,  \* marketing_campaigns.send_count
  events      \* how often each bounded event has happened

campaignVars == <<active, audience, run, sendRow, emailed, sendCount, events>>

\* at: "paging" fetches the next page and "choosing" takes the next user of it; the
\* others name what the send has done last.  full says that the page had PageSize
\* users.  The rest is history since the run started: how often a user left the
\* audience, and who entered or left it or had a send throw before it had a key.
Run == [at : {"idle", "paging", "choosing", "claimed", "recorded", "delivered",
              "marked", "counted", "refused", "noted", "finished"},
        offset : Nat, page : Seq(Recipients), full : BOOLEAN,
        departures : Nat, excused : SUBSET Recipients]

IdleRun ==
  [at |-> "idle", offset |-> 0, page |-> <<>>, full |-> FALSE,
   departures |-> 0, excused |-> {}]

Bounds == [starts |-> MaxStarts, switches |-> MaxSwitches, moves |-> MaxMoves,
           refusals |-> MaxRefusals, crashes |-> MaxCrashes]

Happens(event) ==
  /\ events[event] < Bounds[event]
  /\ events' = [events EXCEPT ![event] = @ + 1]

CampaignTypeOK ==
  /\ keyRow \in [Keys -> KeyStatus]
  /\ active \in BOOLEAN
  /\ audience \subseteq Recipients
  /\ run \in [Runs -> Run]
  /\ sendRow \in [Recipients -> {"none", "pending", "sent", "failed"}]
  /\ emailed \in [Recipients -> Nat]
  /\ sendCount \in Nat
  /\ events \in [DOMAIN Bounds -> Nat]
  /\ \A e \in DOMAIN Bounds : events[e] <= Bounds[e]

CampaignInit ==
  /\ KeysInit
  /\ active = TRUE
  /\ audience \in SUBSET Recipients
  /\ run = [r \in Runs |-> IdleRun]
  /\ sendRow = [u \in Recipients |-> "none"]
  /\ emailed = [u \in Recipients |-> 0]
  /\ sendCount = 0
  /\ events = [e \in DOMAIN Bounds |-> 0]

---------------------------------------------------------------------------
\* updateCampaign may pause and resume the campaign at any time.
Switch ==
  /\ Happens("switches")
  /\ active' = ~active
  /\ UNCHANGED <<keyVars, audience, run, sendRow, emailed, sendCount>>

\* An award changes the tier of a user, and with it a tier's audience.
Move(u) ==
  /\ Happens("moves")
  /\ audience' = IF u \in audience THEN audience \ {u} ELSE audience \cup {u}
  /\ run' = [r \in Runs |->
       IF run[r].at = "idle" THEN run[r]
       ELSE [run[r] EXCEPT !.excused = @ \cup {u},
                           !.departures = IF u \in audience THEN @ + 1 ELSE @]]
  /\ UNCHANGED <<keyVars, active, sendRow, emailed, sendCount>>

---------------------------------------------------------------------------
\* sendCampaignToAudience returns at once and leaves the dispatch to itself.
StartRun(r) ==
  /\ run[r].at \in {"idle", "finished"}
  /\ active
  /\ Happens("starts")
  /\ run' = [run EXCEPT ![r] = [IdleRun EXCEPT !.at = "paging"]]
  /\ UNCHANGED <<keyVars, active, audience, sendRow, emailed, sendCount>>

\* The users of S in the order of their ids: each stands where its rank is.
Rank(u, S) == Cardinality({v \in S : v <= u})
ById(S) == [i \in 1 .. Cardinality(S) |-> CHOOSE u \in S : Rank(u, S) = i]

\* Mistake: the page starts one user late.
PageAtNext(offset) ==
  LET ids == ById(audience)
      last == offset + PageSize + 1
  IN SubSeq(ids, offset + 2, IF last < Len(ids) THEN last ELSE Len(ids))

\* SELECT id ... ORDER BY id LIMIT PageSize OFFSET offset.
PageAt(offset) ==
  LET ids == ById(audience)
      last == offset + PageSize
  IN SubSeq(ids, offset + 1, IF last < Len(ids) THEN last ELSE Len(ids))

FetchPage(r) ==
  LET page == PageAt(run[r].offset) IN
  /\ run[r].at = "paging"
  /\ run' = [run EXCEPT ![r].at = "choosing", ![r].page = page,
                        ![r].full = (Len(page) = PageSize)]
  /\ UNCHANGED <<keyVars, active, audience, sendRow, emailed, sendCount, events>>

\* A page that was not full is the last one.
EndPage(r) ==
  /\ run[r].at = "choosing" /\ run[r].page = <<>>
  /\ run' = IF run[r].full
              THEN [run EXCEPT ![r].at = "paging", ![r].offset = @ + PageSize]
              ELSE [run EXCEPT ![r].at = "finished"]
  /\ UNCHANGED <<keyVars, active, audience, sendRow, emailed, sendCount, events>>

---------------------------------------------------------------------------
\* sendCampaign for the first user of the page.
Addressee(r) == Head(run[r].page)
KeyOf(r) == SendKey[Addressee(r)]

To(r, at) == run' = [run EXCEPT ![r].at = at]

\* The users of a page follow one another whatever a send returns or throws.
NextUser(r) == run' = [run EXCEPT ![r].at = "choosing", ![r].page = Tail(@)]

\* connect or the insert of the key throws: the loop counts a failure and goes on
\* with the next user, and nothing is written for this one.
MissSend(r) ==
  /\ run[r].at = "choosing" /\ run[r].page # <<>>
  /\ Happens("refusals")
  /\ run' = [run EXCEPT ![r].page = Tail(@), ![r].excused = @ \cup {Addressee(r)}]
  /\ UNCHANGED <<keyVars, active, audience, sendRow, emailed, sendCount>>

\* The insert of the key commits at once.  A send whose key is there replays it or
\* throws.
ClaimSend(r) ==
  /\ run[r].at = "choosing" /\ run[r].page # <<>>
  /\ IF Fresh(KeyOf(r))
       THEN keyRow' = [keyRow EXCEPT ![KeyOf(r)] = "in_progress"] /\ To(r, "claimed")
       ELSE UNCHANGED keyRow /\ NextUser(r)
  /\ UNCHANGED <<claim, active, audience, sendRow, emailed, sendCount, events>>

\* A campaign paused since the run started throws before a row is written.
RecordSend(r) ==
  /\ run[r].at = "claimed"
  /\ IF active
       THEN sendRow' = [sendRow EXCEPT ![Addressee(r)] = "pending"] /\ To(r, "recorded")
       ELSE UNCHANGED sendRow /\ To(r, "noted")
  /\ UNCHANGED <<keyVars, active, audience, emailed, sendCount, events>>

Deliver(r) ==
  /\ run[r].at = "recorded"
  /\ emailed' = [emailed EXCEPT ![Addressee(r)] = @ + 1]
  /\ To(r, "delivered")
  /\ UNCHANGED <<keyVars, active, audience, sendRow, sendCount, events>>

\* The provider call throws; a message may have been delivered all the same.
RefuseSend(r) ==
  /\ run[r].at = "recorded"
  /\ Happens("refusals")
  /\ \E n \in {0, 1} : emailed' = [emailed EXCEPT ![Addressee(r)] = @ + n]
  /\ To(r, "refused")
  /\ UNCHANGED <<keyVars, active, audience, sendRow, sendCount>>

\* A statement throws.  Before the row has been inserted there is none to mark as
\* failed.
BreakSend(r) ==
  /\ Happens("refusals")
  /\ \/ run[r].at = "claimed" /\ To(r, "noted")
     \/ run[r].at \in {"delivered", "marked", "counted"} /\ To(r, "refused")
  /\ UNCHANGED <<keyVars, active, audience, sendRow, emailed, sendCount>>

\* The connection of the send is lost.  The statements of its catch block throw as
\* well, so the rows stay as they are, and the loop goes on.
LeaveSend(r) ==
  /\ run[r].at \notin {"idle", "paging", "choosing", "finished"}
  /\ Happens("refusals")
  /\ NextUser(r)
  /\ UNCHANGED <<keyVars, active, audience, sendRow, emailed, sendCount>>

MarkSent(r) ==
  /\ run[r].at = "delivered"
  /\ sendRow' = [sendRow EXCEPT ![Addressee(r)] = "sent"]
  /\ To(r, "marked")
  /\ UNCHANGED <<keyVars, active, audience, emailed, sendCount, events>>

CountSend(r) ==
  /\ run[r].at = "marked"
  /\ sendCount' = sendCount + 1
  /\ To(r, "counted")
  /\ UNCHANGED <<keyVars, active, audience, sendRow, emailed, events>>

\* Mistake: the key takes the status of the send row.
CompleteSendAsSent(r) ==
  /\ run[r].at = "counted"
  /\ keyRow' = Finalized(KeyOf(r), "sent")
  /\ NextUser(r)
  /\ UNCHANGED <<claim, active, audience, sendRow, emailed, sendCount, events>>

CompleteSend(r) ==
  /\ run[r].at = "counted"
  /\ keyRow' = Finalized(KeyOf(r), "completed")
  /\ NextUser(r)
  /\ UNCHANGED <<claim, active, audience, sendRow, emailed, sendCount, events>>

\* The catch block: the row is marked as failed, then the key.
NoteFailure(r) ==
  /\ run[r].at = "refused"
  /\ sendRow' = [sendRow EXCEPT ![Addressee(r)] = "failed"]
  /\ To(r, "noted")
  /\ UNCHANGED <<keyVars, active, audience, emailed, sendCount, events>>

\* Mistake: a failure completes the key.
FailSendCompleted(r) ==
  /\ run[r].at = "noted"
  /\ keyRow' = Finalized(KeyOf(r), "completed")
  /\ NextUser(r)
  /\ UNCHANGED <<claim, active, audience, sendRow, emailed, sendCount, events>>

FailSend(r) ==
  /\ run[r].at = "noted"
  /\ keyRow' = Finalized(KeyOf(r), "failed")
  /\ NextUser(r)
  /\ UNCHANGED <<claim, active, audience, sendRow, emailed, sendCount, events>>

\* The process stops, or the query of a page throws and ends the dispatch: nothing
\* remembers the run but the rows it has written.
CrashRun(r) ==
  /\ run[r].at \notin {"idle", "finished"}
  /\ Happens("crashes")
  /\ run' = [run EXCEPT ![r] = IdleRun]
  /\ UNCHANGED <<keyVars, active, audience, sendRow, emailed, sendCount>>

---------------------------------------------------------------------------
CampaignNext ==
  \/ Switch
  \/ \E u \in Recipients : Move(u)
  \/ \E r \in Runs :
       \/ StartRun(r) \/ FetchPage(r) \/ EndPage(r) \/ ClaimSend(r) \/ RecordSend(r)
       \/ Deliver(r) \/ RefuseSend(r) \/ MarkSent(r) \/ CountSend(r)
       \/ CompleteSend(r) \/ NoteFailure(r) \/ FailSend(r)
       \/ MissSend(r) \/ BreakSend(r) \/ LeaveSend(r) \/ CrashRun(r)

CampaignSpec == CampaignInit /\ [][CampaignNext]_<<keyVars, campaignVars>>

---------------------------------------------------------------------------
\* One audience scope emails a user at most once, although runs overlap, crash
\* between the delivery and the finalization and are triggered again, and although
\* a provider may deliver a message and throw.
EmailedOnce == \A u \in Recipients : emailed[u] <= 1

\* The counter of the campaign lags the messages by the sends under way or broken,
\* and never misses one whose key says completed.
Completed == {u \in Recipients : keyRow[SendKey[u]] = "completed"}
SendsAccounted ==
  /\ Cardinality(Completed) <= sendCount
  /\ sendCount <= Cardinality({u \in Recipients : emailed[u] >= 1})
  /\ \A u \in Completed : sendRow[u] = "sent"

\* Of the users who stayed in the audience, a run that came to its end has passed
\* over no more than it saw departures, apart from those whose send threw before it
\* had a key: LIMIT and OFFSET slip by one user for each who leaves, and by nobody
\* for one who enters.
PassedOver(r) ==
  {u \in audience \ run[r].excused : keyRow[SendKey[u]] = "none"}
RunReachesAll ==
  \A r \in Runs :
    run[r].at = "finished" => Cardinality(PassedOver(r)) <= run[r].departures

\* What sendCampaignToAudience says of a run cut short: invoking it again finishes
\* the job.  With no refusal and no pause, a run that came to its end has reached
\* everyone; it has not, since the user whose send was cut short is never retried.
RerunFinishes ==
  \A r \in Runs :
    run[r].at = "finished" /\ run[r].excused = {} /\ events["refusals"] + events["switches"] = 0
      => \A u \in audience : emailed[u] >= 1
============================================================================
