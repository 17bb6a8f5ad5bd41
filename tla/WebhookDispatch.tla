-------------------------- MODULE WebhookDispatch --------------------------
(***************************************************************************)
(* The webhooks of API clients: developerWebhookDispatcher.ts and the      *)
(* stored procedures of migrations 0045, 0048 and 0049 behind it.  A claim *)
(* takes a batch under one expiry, and the batch is sent row by row; the   *)
(* number of the claim stands for the tokens of its rows.  Payloads,       *)
(* signatures and the length of a backoff are left out.                    *)
(***************************************************************************)
EXTENDS Places

CONSTANTS
  Servers,       \* API servers, each with one dispatch in flight at a time
  Endpoints,     \* active endpoints subscribed to the events
  Refused,       \* those whose address the dispatcher does not call
  Keyless,       \* those whose signing secret is not configured
  WorkEvents,    \* events of the field service outbox
  HookLimit,     \* limit of a claim
  HookAttempts   \* the sixteen attempts of a delivery

ASSUME HookAssumption ==
  /\ IsFiniteSet(Endpoints)
  /\ Refused \cup Keyless \subseteq Endpoints
  /\ {HookLimit, HookAttempts} \subseteq Nat \ {0}

VARIABLES
  unpublished,  \* field_service.outbox_event with published_at NULL
  hooks,        \* developer.webhook_delivery, by endpoint and event
  ready,        \* deliveries that are not backing off, by next_attempt_at
  claims,       \* claims made so far
  lapsed,       \* claims whose claim_expires_at has passed
  run           \* dispatchDeveloperWebhooks of each server

hookVars == <<unpublished, hooks, ready, claims, lapsed, run>>

Hooks == Endpoints \X WorkEvents
Deliveries == [state : {"pending", "retrying", "delivered", "dead_letter"},
               attempts : 0 .. HookAttempts, claim : Nat]
AtRest == [batch |-> <<>>, claim |-> 0, at |-> "rest"]

HookTypeOK ==
  /\ unpublished \subseteq WorkEvents
  /\ hooks \in [Endpoints \X (WorkEvents \ unpublished) -> Deliveries]
  /\ ready \in Seq(DOMAIN hooks)
  /\ claims \in Nat /\ lapsed \subseteq 1 .. claims
  /\ run \in [Servers -> [batch : Seq(DOMAIN hooks), claim : 0 .. claims,
                          at : {"rest", "sending", "taken", "failed"}]]
  /\ \A w \in Servers : run[w].at # "rest" => run[w].batch # <<>>

HookInit ==
  /\ unpublished = WorkEvents
  /\ hooks = <<>> /\ ready = <<>>
  /\ claims = 0 /\ lapsed = {}
  /\ run = [w \in Servers |-> AtRest]

----------------------------------------------------------------------------
\* Each event published becomes one delivery for every subscribed endpoint.
Publish(e) ==
  /\ e \in unpublished
  /\ unpublished' = unpublished \ {e}
  /\ hooks' = [x \in DOMAIN hooks \cup (Endpoints \X {e}) |->
       IF x[2] = e THEN [state |-> "pending", attempts |-> 0, claim |-> 0] ELSE hooks[x]]
  /\ \E order \in [1 .. Cardinality(Endpoints) -> Endpoints \X {e}] :
       /\ {order[i] : i \in DOMAIN order} = Endpoints \X {e}
       /\ ready' = ready \o order
  /\ UNCHANGED <<claims, lapsed, run>>

\* Mistake: a delivery whose claim has run out is not taken over.
DueUnclaimed(x) ==
  /\ hooks[x].attempts < HookAttempts
  /\ \/ hooks[x].state = "pending"
     \/ hooks[x].state = "retrying" /\ hooks[x].claim = 0

Due(x) ==
  /\ hooks[x].attempts < HookAttempts
  /\ \/ hooks[x].state = "pending"
     \/ hooks[x].state = "retrying" /\ hooks[x].claim \in {0} \cup lapsed

\* The places of the first deliveries that are due, as many as one claim takes.
Candidates ==
  LET due == {i \in 1 .. Len(ready) : Due(ready[i])}
  IN  {i \in due : Cardinality({j \in due : j <= i}) <= HookLimit}

\* The batch comes in no order: UPDATE ... RETURNING keeps none.
ClaimDeliveries(w) ==
  LET taken == {ready[i] : i \in Candidates} IN
  /\ run[w] = AtRest
  /\ Candidates # {}
  /\ claims' = claims + 1
  /\ hooks' = [x \in DOMAIN hooks |->
       IF x \in taken
         THEN [state |-> "retrying", attempts |-> hooks[x].attempts + 1, claim |-> claims']
         ELSE hooks[x]]
  /\ \E order \in AnyOrder(Candidates) :
       run' = [run EXCEPT ![w] =
         [batch |-> At(ready, order), claim |-> claims', at |-> "sending"]]
  /\ UNCHANGED <<unpublished, ready, lapsed>>

\* Thirty seconds pass, with the batch sent or not.
Lapse(c) ==
  /\ c \notin lapsed
  /\ \E x \in DOMAIN hooks : hooks[x].claim = c
  /\ lapsed' = lapsed \cup {c}
  /\ UNCHANGED <<unpublished, hooks, ready, claims, run>>

WaitOver(x) ==
  /\ hooks[x].state = "retrying" /\ hooks[x].claim = 0
  /\ \A i \in 1 .. Len(ready) : ready[i] # x
  /\ ready' = Append(ready, x)
  /\ UNCHANGED <<unpublished, hooks, claims, lapsed, run>>

----------------------------------------------------------------------------
Current(w) == Head(run[w].batch)

\* The dispatch ends with the process or with an error that nothing catches; what
\* it has not completed keeps its claim.
End(w) == run' = [run EXCEPT ![w] = AtRest]

\* The address is checked outside the try of the request.
Post(w) ==
  LET endpoint == Current(w)[1] IN
  /\ run[w].at = "sending"
  /\ \/ endpoint \in Refused \ Keyless /\ End(w)
     \/ endpoint \in Keyless /\ run' = [run EXCEPT ![w].at = "failed"]
     \/ /\ endpoint \notin Refused \cup Keyless
        /\ \E result \in {"taken", "failed"} : run' = [run EXCEPT ![w].at = result]
  /\ UNCHANGED <<unpublished, hooks, ready, claims, lapsed>>

Following(w) ==
  LET rest == Tail(run[w].batch)
  IN  run' = [run EXCEPT ![w] =
        IF rest = <<>> THEN AtRest ELSE [@ EXCEPT !.batch = rest, !.at = "sending"]]

\* The claim that a completion names is the one on the row and has not run out.
Fenced(w, x) == hooks[x].claim = run[w].claim /\ run[w].claim \notin lapsed

Outcome(w, x) ==
  CASE run[w].at = "taken" -> "delivered"
    [] run[w].at # "taken" /\ hooks[x].attempts >= HookAttempts -> "dead_letter"
    [] run[w].at # "taken" /\ hooks[x].attempts < HookAttempts -> "retrying"

\* Mistake: the completion looks neither at the state nor at the claim.
CompleteUnfenced(w) ==
  LET x == Current(w) IN
  /\ run[w].at \in {"taken", "failed"}
  /\ hooks' = [hooks EXCEPT ![x].state = Outcome(w, x), ![x].claim = 0]
  /\ ready' \in Without(ready, x)
  /\ Following(w)
  /\ UNCHANGED <<unpublished, claims, lapsed>>

CompleteDelivery(w) ==
  LET x == Current(w) IN
  /\ run[w].at \in {"taken", "failed"}
  /\ \/ /\ hooks[x].state = "retrying" /\ Fenced(w, x)
        /\ hooks' = [hooks EXCEPT ![x].state = Outcome(w, x), ![x].claim = 0]
        /\ ready' \in Without(ready, x)
        /\ Following(w)
     \/ /\ hooks[x].state # "retrying"
        /\ Following(w)
        /\ UNCHANGED <<hooks, ready>>
     \/ /\ hooks[x].state = "retrying" /\ ~Fenced(w, x)
        /\ End(w)
        /\ UNCHANGED <<hooks, ready>>
  /\ UNCHANGED <<unpublished, claims, lapsed>>

Stop(w) ==
  /\ run[w] # AtRest
  /\ End(w)
  /\ UNCHANGED <<unpublished, hooks, ready, claims, lapsed>>

----------------------------------------------------------------------------
HookNext ==
  \/ \E e \in WorkEvents : Publish(e)
  \/ \E w \in Servers : ClaimDeliveries(w) \/ Post(w) \/ CompleteDelivery(w) \/ Stop(w)
  \/ \E c \in 1 .. claims : Lapse(c)
  \/ \E x \in DOMAIN hooks : WaitOver(x)

HookFairness ==
  /\ WF_hookVars(\E e \in WorkEvents : Publish(e))
  /\ WF_hookVars(\E w \in Servers : ClaimDeliveries(w))
  /\ WF_hookVars(\E w \in Servers : Post(w) \/ CompleteDelivery(w))
  /\ WF_hookVars(\E c \in 1 .. claims : Lapse(c))
  /\ WF_hookVars(\E x \in DOMAIN hooks : WaitOver(x))

HookSpec == HookInit /\ [][HookNext]_hookVars /\ HookFairness

----------------------------------------------------------------------------
HasVerdict(x) == hooks[x].state \in {"delivered", "dead_letter"}

\* A delivery whose last claim ended without completing it: nothing claims it
\* again, and it is not a dead letter either.
Stranded(x) ==
  hooks[x].state = "retrying" /\ hooks[x].attempts = HookAttempts /\ hooks[x].claim \in lapsed

\* Every delivery is delivered, dead-lettered, or stranded on its last attempt,
\* although a refused address or an overrun batch ends the dispatch of all the
\* rows behind it (dispatchDeveloperWebhooks with claim_webhook_deliveries).
HooksDecided ==
  (\E x \in DOMAIN hooks : ~HasVerdict(x)) ~> (\A x \in DOMAIN hooks : HasVerdict(x) \/ Stranded(x))

\* A delivered or dead-lettered delivery stays so, whatever runs with lapsed
\* claims report of it afterwards (complete_webhook_delivery).
HookVerdictsStand ==
  [][\A x \in DOMAIN hooks : HasVerdict(x) => hooks'[x] = hooks[x]]_hookVars
============================================================================
