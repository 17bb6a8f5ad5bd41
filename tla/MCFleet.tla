------------------------------ MODULE MCFleet ------------------------------
(***************************************************************************)
(* Instances of four components that keep promises over time: the feed of  *)
(* a tracker provider, the prevent-next-start control, the stock that      *)
(* Medusa reports and the webhooks of API clients.  They share no row that *)
(* any of them changes, so a behaviour exercises one of them.              *)
(***************************************************************************)
EXTENDS PreventNextStart, TrackerIngest, InventoryBridge, WebhookDispatch, TLC

CONSTANTS Parts, c1, c2, c3, rental1, rental2

VARIABLE part

MCContractOf == [c \in Cases |-> IF c = c3 THEN rental2 ELSE rental1]

MCUnusables == {{}, {MaxFeed}}

MCInit ==
  /\ part \in Parts
  /\ ControlInit /\ IngestInit /\ BridgeInit /\ HookInit
  /\ part # "control" => halted = {} /\ adapter
  /\ part # "ingest" => unusable = {}

MCNext ==
  /\ UNCHANGED part
  /\ \/ part = "control" /\ ControlNext /\ UNCHANGED <<ingestVars, bridgeVars, hookVars>>
     \/ part = "ingest" /\ IngestNext /\ UNCHANGED <<controlVars, bridgeVars, hookVars>>
     \/ part = "inventory" /\ BridgeNext /\ UNCHANGED <<controlVars, ingestVars, hookVars>>
     \/ part = "webhooks" /\ HookNext /\ UNCHANGED <<controlVars, ingestVars, bridgeVars>>

MCFairness ==
  \/ part = "control"
  \/ part = "ingest" /\ IngestFairness
  \/ part = "inventory" /\ BridgeFairness
  \/ part = "webhooks" /\ HookFairness

MCVars == <<part, controlVars, ingestVars, bridgeVars, hookVars>>

MCSpec == MCInit /\ [][MCNext]_MCVars /\ MCFairness

MCTypeOK == ControlTypeOK /\ IngestTypeOK /\ BridgeTypeOK /\ HookTypeOK

MCEventuallyStored == part = "ingest" => EventuallyStored
MCEventuallyDecidedRows == part = "inventory" => EventuallyDecidedRows
MCHooksDecided == part = "webhooks" => HooksDecided
============================================================================
