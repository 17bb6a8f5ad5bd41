-------------------------- MODULE CampaignVariants --------------------------
(***************************************************************************)
(* The traffic allocation of the A/B variants of one campaign: the         *)
(* transactions of createCampaignVariant and updateVariantAllocation, each *)
(* of which locks the campaign row before it adds up what the other        *)
(* variants have.  Statistics and templates of a variant are left out.     *)
(***************************************************************************)
EXTENDS Integers, FiniteSets, FiniteSetsExt

CONSTANTS
  Variants,  \* variants of the campaign
  Editors,   \* requests that may overlap
  NoVariant, \* an editor at rest
  Shares,    \* allocations that are asked for, in percent
  Absent     \* allocation of a variant that does not exist

ASSUME VariantAssumption ==
  /\ IsFiniteSet(Variants) /\ NoVariant \notin Variants
  /\ Shares \subseteq 0 .. 100 /\ Absent = -1

VARIABLES
  allocation, \* campaign_variants.traffic_allocation
  editor      \* the transaction of each editor

variantVars == <<allocation, editor>>

\* others is the sum the transaction has read.
Editor == [at : {"idle", "begun", "locked"}, variant : Variants \cup {NoVariant},
           share : Shares \cup {0}, others : 0 .. 100]

IdleEditor == [at |-> "idle", variant |-> NoVariant, share |-> 0, others |-> 0]

Existing == {v \in Variants : allocation[v] # Absent}

VariantTypeOK ==
  /\ allocation \in [Variants -> 0 .. 100 \cup {Absent}]
  /\ editor \in [Editors -> Editor]

VariantInit ==
  /\ allocation = [v \in Variants |-> Absent]
  /\ editor = [e \in Editors |-> IdleEditor]

---------------------------------------------------------------------------
\* A variant is created once and its share changed any number of times.
BeginEdit(e, v, share) ==
  /\ editor[e] = IdleEditor
  /\ \A f \in Editors : editor[f].variant = v => v \in Existing
  /\ editor' = [editor EXCEPT ![e] =
       [at |-> "begun", variant |-> v, share |-> share, others |-> 0]]
  /\ UNCHANGED allocation

SumOver(vs) == MapThenSumSet(LAMBDA v : allocation[v], vs)

\* Mistake: the campaign is read without FOR UPDATE.
LockCampaignShared(e) ==
  /\ editor[e].at = "begun"
  /\ editor' = [editor EXCEPT
       ![e].at = "locked", ![e].others = SumOver(Existing \ {editor[e].variant})]
  /\ UNCHANGED allocation

\* SELECT ... FOR UPDATE of the campaign waits for the transaction that holds it;
\* the sum leaves out the variant that is edited.
LockCampaign(e) ==
  /\ editor[e].at = "begun"
  /\ \A f \in Editors : editor[f].at # "locked"
  /\ editor' = [editor EXCEPT
       ![e].at = "locked", ![e].others = SumOver(Existing \ {editor[e].variant})]
  /\ UNCHANGED allocation

\* The share is written and committed if it fits, and refused otherwise.
WriteShare(e) ==
  /\ editor[e].at = "locked"
  /\ allocation' = IF editor[e].others + editor[e].share <= 100
                     THEN [allocation EXCEPT ![editor[e].variant] = editor[e].share]
                     ELSE allocation
  /\ editor' = [editor EXCEPT ![e] = IdleEditor]

\* A transaction that fails is rolled back and lets go of the lock.
AbortEdit(e) ==
  /\ editor[e] # IdleEditor
  /\ editor' = [editor EXCEPT ![e] = IdleEditor]
  /\ UNCHANGED allocation

VariantNext ==
  \E e \in Editors :
    \/ \E v \in Variants, share \in Shares : BeginEdit(e, v, share)
    \/ LockCampaign(e) \/ WriteShare(e) \/ AbortEdit(e)

VariantSpec == VariantInit /\ [][VariantNext]_variantVars

\* Concurrent creations and changes never allocate more than the whole traffic.
AllocationsFit == SumOver(Existing) <= 100
============================================================================
