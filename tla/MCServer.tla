----------------------------- MODULE MCServer -----------------------------
(***************************************************************************)
(* Instances of six components of the API server: the loyalty accounts, a  *)
(* campaign, its variants, the tenant accounts, the stock that Medusa      *)
(* reports and the rental of vehicles.  The first two share the table of   *)
(* idempotency keys under different scopes, the others share nothing that  *)
(* they change, so a behaviour exercises one of them.  What redemptions    *)
(* and leaderboard rewards do to one another goes through the balance      *)
(* only, which operators move meanwhile in both parts.                     *)
(***************************************************************************)
EXTENDS Loyalty, Campaigns, CampaignVariants, TenantAccounts, InventoryBridge,
  VehicleRentals, TLC

CONSTANTS Parts, voucher, discount, send1, send2, send3, ann, bob, root, t1, t2, crest, van

VARIABLE part

MCCostOf == (voucher :> 1) @@ (discount :> 2)
MCTierNeeded == (voucher :> 0) @@ (discount :> 1)
MCPrizeOf == [u \in Users |-> 1]
MCAdjustments == {-1, 2}
MCAbsent == -1
MCAssetOf == [r \in Contracts \cup Blocks |-> van]
MCSendKey == [u \in Recipients |-> <<send1, send2, send3>>[u]]

MCPresetTenant == crest :> t1
MCBothAdmins == {ann :> t1 @@ bob :> t1}
MCStarts == {ann :> t1 @@ bob :> t @@ root :> t1 : t \in {NoTenant, t1, t2}}

\* The two members of each of these sets are interchangeable: those of the parts
\* that share nothing are exchanged at once.
Swap(S) == CHOOSE p \in Permutations(S) : \A x \in S : p[x] # x
MCSymmetry ==
  Permutations(Editors) \cup
    {Swap(Sessions) @@ Swap(Closers) @@ Swap(Runs \cup Dispatchers) @@ Swap(Requests)
       @@ Swap(Contracts)}

MCInit ==
  /\ part \in Parts
  /\ LoyaltyInit /\ CampaignInit /\ VariantInit /\ AccountInit /\ BridgeInit /\ RentalInit
  /\ part # "campaign" => audience = Recipients
  /\ part # "accounts" => founded = Tenants

MCNext ==
  /\ UNCHANGED part
  /\ \/ /\ \/ part = "loyalty" /\ (RedeemStep \/ PointStep)
           \/ part = "leaderboard" /\ (BoardStep \/ PointStep)
        /\ UNCHANGED <<campaignVars, variantVars, accountVars, bridgeVars, rentalVars>>
     \/ /\ part = "campaign" /\ CampaignNext
        /\ UNCHANGED <<pointVars, redeemVars, expiring, boardVars, stops>>
        /\ UNCHANGED <<variantVars, accountVars, bridgeVars, rentalVars>>
     \/ /\ part = "variants" /\ VariantNext
        /\ UNCHANGED <<loyaltyVars, campaignVars, accountVars, bridgeVars, rentalVars>>
     \/ /\ part = "accounts" /\ AccountNext
        /\ UNCHANGED <<loyaltyVars, campaignVars, variantVars, bridgeVars, rentalVars>>
     \/ /\ part = "inventory" /\ BridgeNext
        /\ UNCHANGED <<loyaltyVars, campaignVars, variantVars, accountVars, rentalVars>>
     \/ /\ part = "rentals" /\ RentalNext
        /\ UNCHANGED <<loyaltyVars, campaignVars, variantVars, accountVars, bridgeVars>>

MCVars ==
  <<part, loyaltyVars, campaignVars, variantVars, accountVars, bridgeVars, rentalVars>>

MCSpec == MCInit /\ [][MCNext]_MCVars

MCTypeOK ==
  /\ LoyaltyTypeOK /\ CampaignTypeOK /\ VariantTypeOK
  /\ AccountTypeOK /\ BridgeTypeOK /\ RentalTypeOK
============================================================================
