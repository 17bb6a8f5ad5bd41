------------------------------ MODULE Loyalty ------------------------------
(***************************************************************************)
(* The loyalty accounts of the API server: operator awards, redemption     *)
(* under an idempotency key, the job that expires inactive points and the  *)
(* job that closes a leaderboard period.  One transaction locks the        *)
(* account row from its first read to its commit, so what it does to the   *)
(* account is one step; what a job or a request does in several            *)
(* transactions is several.  Voucher codes, descriptions and the progress  *)
(* towards the next tier are left out.                                     *)
(***************************************************************************)
EXTENDS IdempotencyKeys

CONSTANTS
  Users,        \* account holders
  RedeemKeys,   \* the keys of the scope loyalty-redemption
  Rewards,      \* active rewards
  NoOrder,      \* a session that works on nothing
  CostOf,       \* points_cost of a reward
  TierNeeded,   \* min_tier of a reward, 0 for none
  Silver,       \* lifetime points of the silver tier; the higher ones alike
  PrizeOf,      \* reward_points of a user's leaderboard entry after ranking
  Adjustments,  \* points an operator may award; negative ones take points
  ExpiryJobs,   \* runs of pointsExpiration that may overlap
  Closers,      \* runs of closeLeaderboard that may overlap
  Periods,      \* bound: leaderboard periods, 1 .. Periods
  PointBound,   \* bound: points an operator brings an account to, either sign
  MaxStops      \* bound: operations cut short by an error or a crash

ASSUME LoyaltyAssumption ==
  /\ RedeemKeys \subseteq Keys
  /\ CostOf \in [Rewards -> Nat \ {0}] /\ TierNeeded \in [Rewards -> {0, 1}]
  /\ PrizeOf \in [Users -> Nat]
  /\ NoOrder \notin Users \X Rewards
  /\ Adjustments \subseteq Int /\ Silver \in Nat
  /\ Periods \in Nat \ {0} /\ PointBound \in Nat /\ MaxStops \in Nat

VARIABLES
  account,    \* loyalty_points
  quiet,      \* accounts without a transaction inside the expiration window
  order,      \* the request each session works on
  rolledBack, \* the key a session will mark as failed after its rollback
  redeemed,   \* loyalty_redemptions, counted by the key that made them
  expiring,   \* per run, the balance read for each candidate and not yet done
  period,     \* referral_leaderboard_periods
  closer,     \* where each closing run is
  prizes,     \* leaderboard rewards given, per period and user
  stops       \* operations cut short so far

pointVars == <<account, quiet>>
redeemVars == <<order, rolledBack, redeemed>>
boardVars == <<period, closer, prizes>>
loyaltyVars == <<keyVars, pointVars, redeemVars, expiring, boardVars, stops>>

Account == [balance: Int, lifetime: Int, tier: {0, 1}]
Closer == [at: {"idle", "paying", "opening"}, period: 0 .. Periods,
           owed: SUBSET Users]

LoyaltyTypeOK ==
  /\ KeysTypeOK
  /\ account \in [Users -> Account]
  /\ quiet \subseteq Users
  /\ order \in [Sessions -> (Users \X Rewards) \cup {NoOrder}]
  /\ rolledBack \in [Sessions -> Keys \cup {NoKey}]
  /\ redeemed \in [RedeemKeys -> Nat]
  /\ expiring \in [ExpiryJobs -> [Users -> Nat]]
  /\ period \in [1 .. Periods -> {"none", "active", "closed"}]
  /\ closer \in [Closers -> Closer]
  /\ prizes \in [1 .. Periods -> [Users -> Nat]]
  /\ stops \in 0 .. MaxStops

IdleCloser == [at |-> "idle", period |-> 0, owed |-> {}]

LoyaltyInit ==
  /\ KeysInit
  /\ account = [u \in Users |-> [balance |-> 0, lifetime |-> 0, tier |-> 0]]
  /\ quiet = {}
  /\ order = [s \in Sessions |-> NoOrder]
  /\ rolledBack = [s \in Sessions |-> NoKey]
  /\ redeemed = [k \in RedeemKeys |-> 0]
  /\ expiring = [j \in ExpiryJobs |-> [u \in Users |-> 0]]
  /\ period = [p \in 1 .. Periods |-> IF p = 1 THEN "active" ELSE "none"]
  /\ closer = [c \in Closers |-> IdleCloser]
  /\ prizes = [p \in 1 .. Periods |-> [u \in Users |-> 0]]
  /\ stops = 0

---------------------------------------------------------------------------
TierOf(lifetime) == IF lifetime >= Silver THEN 1 ELSE 0

\* awardPointsTransactional: both totals, the tier of the new lifetime total and
\* a transaction row, which makes the account active again.
Awarded(u, n) ==
  LET a == account[u] IN
  /\ account' = [account EXCEPT ![u] =
       [balance |-> a.balance + n, lifetime |-> a.lifetime + n,
        tier |-> TierOf(a.lifetime + n)]]
  /\ quiet' = quiet \ {u}

\* A debit inserts a transaction row as well and leaves the lifetime total alone.
Debited(u, n) ==
  /\ account' = [account EXCEPT ![u].balance = @ - n]
  /\ quiet' = quiet \ {u}

\* awardPoints for an operator: the only check is that points is not zero.
Adjust(u, n) ==
  /\ n # 0
  /\ account[u].lifetime + n \in -PointBound .. PointBound
  /\ account[u].balance + n \in -PointBound .. PointBound
  /\ Awarded(u, n)
  /\ UNCHANGED <<keyVars, redeemVars, expiring, boardVars, stops>>

\* loyalty_points_expiration_days pass without a transaction of the account.
FallQuiet(u) ==
  /\ quiet' = quiet \cup {u}
  /\ UNCHANGED <<keyVars, account, redeemVars, expiring, boardVars, stops>>

---------------------------------------------------------------------------
\* redeemPoints, the transaction opens and claims the key.
BeginRedeem(s, k, u, r) ==
  /\ claim[s] = NoKey /\ rolledBack[s] = NoKey
  /\ Fresh(k)
  /\ claim' = [claim EXCEPT ![s] = k]
  /\ order' = [order EXCEPT ![s] = <<u, r>>]
  /\ UNCHANGED <<keyRow, pointVars, rolledBack, redeemed, expiring, boardVars, stops>>

Affordable(u, r) ==
  account[u].balance >= CostOf[r] /\ account[u].tier >= TierNeeded[r]

\* The account is debited, the redemption inserted and the key completed in the
\* transaction that claimed it.
CommitRedeem(s) ==
  LET k == claim[s]
      u == order[s][1]
      r == order[s][2]
  IN /\ k # NoKey
     /\ Affordable(u, r)
     /\ Debited(u, CostOf[r])
     /\ redeemed' = [redeemed EXCEPT ![k] = @ + 1]
     /\ keyRow' = [keyRow EXCEPT ![k] = "completed"]
     /\ claim' = [claim EXCEPT ![s] = NoKey]
     /\ order' = [order EXCEPT ![s] = NoOrder]
     /\ UNCHANGED <<rolledBack, expiring, boardVars, stops>>

\* ROLLBACK takes the claim away; the catch block still has to mark the key.
RollBack(s) ==
  /\ claim' = [claim EXCEPT ![s] = NoKey]
  /\ order' = [order EXCEPT ![s] = NoOrder]
  /\ rolledBack' = [rolledBack EXCEPT ![s] = claim[s]]
  /\ UNCHANGED <<keyRow, pointVars, redeemed, expiring, boardVars>>

RefuseRedeem(s) ==
  /\ claim[s] # NoKey
  /\ ~Affordable(order[s][1], order[s][2])
  /\ RollBack(s)
  /\ UNCHANGED stops

\* The database fails a statement of the transaction.
BreakRedeem(s) ==
  /\ claim[s] # NoKey
  /\ stops < MaxStops
  /\ stops' = stops + 1
  /\ RollBack(s)

\* The finalization of the catch block, outside any transaction: by then another
\* session may have claimed the key, or completed it.
MarkFailed(s) ==
  /\ rolledBack[s] # NoKey
  /\ keyRow' = Finalized(rolledBack[s], "failed")
  /\ rolledBack' = [rolledBack EXCEPT ![s] = NoKey]
  /\ UNCHANGED <<claim, pointVars, order, redeemed, expiring, boardVars, stops>>

\* The process dies: its transaction is rolled back and nobody marks the key.
LoseSession(s) ==
  /\ claim[s] # NoKey \/ rolledBack[s] # NoKey
  /\ stops < MaxStops
  /\ stops' = stops + 1
  /\ claim' = [claim EXCEPT ![s] = NoKey]
  /\ order' = [order EXCEPT ![s] = NoOrder]
  /\ rolledBack' = [rolledBack EXCEPT ![s] = NoKey]
  /\ UNCHANGED <<keyRow, pointVars, redeemed, expiring, boardVars>>

---------------------------------------------------------------------------
\* expirePointsJob reads the inactive accounts with their balances first ...
ScanInactive(j) ==
  /\ \A u \in Users : expiring[j][u] = 0
  /\ expiring' = [expiring EXCEPT ![j] =
       [u \in Users |-> IF u \in quiet /\ account[u].balance > 0
                          THEN account[u].balance ELSE 0]]
  /\ UNCHANGED <<keyVars, pointVars, redeemVars, boardVars, stops>>

\* Mistake: the balance read by the scan is taken unseen.
ExpirePointsUnseen(j, u) ==
  LET n == expiring[j][u] IN
  /\ n > 0
  /\ Debited(u, n)
  /\ expiring' = [expiring EXCEPT ![j][u] = 0]
  /\ UNCHANGED <<keyVars, redeemVars, boardVars, stops>>

\* ... and takes each balance it read in a transaction of its own, if the account
\* still has that much.  Whether it is still inactive is not asked again.
ExpirePoints(j, u) ==
  LET n == expiring[j][u] IN
  /\ n > 0
  /\ IF account[u].balance >= n THEN Debited(u, n) ELSE UNCHANGED pointVars
  /\ expiring' = [expiring EXCEPT ![j][u] = 0]
  /\ UNCHANGED <<keyVars, redeemVars, boardVars, stops>>

\* An error of one account ends the run.
StopExpiry(j) ==
  /\ \E u \in Users : expiring[j][u] > 0
  /\ stops < MaxStops
  /\ stops' = stops + 1
  /\ expiring' = [expiring EXCEPT ![j] = [u \in Users |-> 0]]
  /\ UNCHANGED <<keyVars, pointVars, redeemVars, boardVars>>

---------------------------------------------------------------------------
\* closeLeaderboardJob takes the latest active period, ranks its entries and reads
\* those with a reward.  Nothing writes the entries of a period being closed, so
\* every run ranks them alike.
StartClose(c, p) ==
  /\ closer[c] = IdleCloser
  /\ period[p] = "active"
  /\ \A q \in p + 1 .. Periods : period[q] # "active"
  /\ closer' = [closer EXCEPT ![c] =
       [at |-> "paying", period |-> p, owed |-> {u \in Users : PrizeOf[u] > 0}]]
  /\ UNCHANGED <<keyVars, pointVars, redeemVars, expiring, period, prizes, stops>>

\* One awardPoints transaction for each entry; nothing on the entry records it.
PayEntry(c, u) ==
  /\ u \in closer[c].owed
  /\ Awarded(u, PrizeOf[u])
  /\ prizes' = [prizes EXCEPT ![closer[c].period][u] = @ + 1]
  /\ closer' = [closer EXCEPT ![c].owed = @ \ {u}]
  /\ UNCHANGED <<keyVars, redeemVars, expiring, period, stops>>

\* Mistake: the period is closed before the rewards are paid.
MarkInactiveFirst(c) ==
  /\ closer[c].at = "paying"
  /\ period' = [period EXCEPT ![closer[c].period] = "closed"]
  /\ closer' = [closer EXCEPT ![c].at = "opening"]
  /\ UNCHANGED <<keyVars, pointVars, redeemVars, expiring, prizes, stops>>

\* Mistake: the UPDATE finds no row.
MarkInactiveNowhere(c) ==
  /\ closer[c].at = "paying" /\ closer[c].owed = {}
  /\ closer' = [closer EXCEPT ![c].at = "opening"]
  /\ UNCHANGED <<keyVars, pointVars, redeemVars, expiring, period, prizes, stops>>

MarkInactive(c) ==
  /\ closer[c].at = "paying" /\ closer[c].owed = {}
  /\ period' = [period EXCEPT ![closer[c].period] = "closed"]
  /\ closer' = [closer EXCEPT ![c].at = "opening"]
  /\ UNCHANGED <<keyVars, pointVars, redeemVars, expiring, prizes, stops>>

\* The next period is inserted unless its name exists.
OpenNext(c) ==
  LET next == closer[c].period + 1 IN
  /\ closer[c].at = "opening"
  /\ period' = IF next \in DOMAIN period /\ period[next] = "none"
                 THEN [period EXCEPT ![next] = "active"] ELSE period
  /\ closer' = [closer EXCEPT ![c] = IdleCloser]
  /\ UNCHANGED <<keyVars, pointVars, redeemVars, expiring, prizes, stops>>

\* An error or a crash ends the run wherever it is.
StopClose(c) ==
  /\ closer[c] # IdleCloser
  /\ stops < MaxStops
  /\ stops' = stops + 1
  /\ closer' = [closer EXCEPT ![c] = IdleCloser]
  /\ UNCHANGED <<keyVars, pointVars, redeemVars, expiring, period, prizes>>

---------------------------------------------------------------------------
RedeemStep ==
  \E s \in Sessions :
    \/ \E k \in RedeemKeys, u \in Users, r \in Rewards : BeginRedeem(s, k, u, r)
    \/ CommitRedeem(s) \/ RefuseRedeem(s) \/ BreakRedeem(s)
    \/ MarkFailed(s) \/ LoseSession(s)

PointStep ==
  \/ \E u \in Users : FallQuiet(u) \/ \E n \in Adjustments : Adjust(u, n)
  \/ \E j \in ExpiryJobs :
       ScanInactive(j) \/ StopExpiry(j) \/ \E u \in Users : ExpirePoints(j, u)

BoardStep ==
  \E c \in Closers :
    \/ \E p \in 1 .. Periods : StartClose(c, p)
    \/ \E u \in Users : PayEntry(c, u)
    \/ MarkInactive(c) \/ OpenNext(c) \/ StopClose(c)

LoyaltyNext == RedeemStep \/ PointStep \/ BoardStep

LoyaltySpec == LoyaltyInit /\ [][LoyaltyNext]_loyaltyVars

---------------------------------------------------------------------------
\* A key redeems at most once, whoever retries it, and whatever the late
\* finalization of a failed attempt has written over the row in the meantime.
RedeemedOnce == \A k \in RedeemKeys : redeemed[k] <= 1

\* A debit never takes more than the account has, although the expiration job
\* works from balances it read before redemptions, awards and other runs of it.
\* Only an operator, who changes the lifetime total as well, goes below zero.
DebitsAreCovered ==
  [][\A u \in Users :
       account'[u].balance < account[u].balance /\ account'[u].lifetime = account[u].lifetime
         => account'[u].balance >= 0]_loyaltyVars

\* However many runs close the leaderboard, and wherever they stop, a period is
\* closed only when every entry with a reward has been paid at least once.
PaidBeforeClosed ==
  \A p \in 1 .. Periods, u \in Users :
    period[p] = "closed" /\ PrizeOf[u] > 0 => prizes[p][u] >= 1

\* Overlapping runs never leave two periods active.
OneActivePeriod ==
  \A p, q \in 1 .. Periods : period[p] = "active" /\ period[q] = "active" => p = q
============================================================================
