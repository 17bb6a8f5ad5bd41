--------------------------- MODULE Loyalty_proofs ---------------------------
(***************************************************************************)
(* Proofs about the loyalty accounts, for any users, rewards, keys, number *)
(* of sessions and overlapping runs of the jobs, and any bounds.           *)
(***************************************************************************)
EXTENDS Loyalty, TLAPS

---------------------------------------------------------------------------
(* Type correctness, with what an open redemption transaction works on.    *)

\* A session that holds a claim works on a request.
ClaimsHaveOrders ==
  \A s \in Sessions :
    claim[s] # NoKey => claim[s] \in RedeemKeys /\ order[s] \in Users \X Rewards

LoyaltyTypes == LoyaltyTypeOK /\ ClaimsHaveOrders

LEMMA LoyaltyTypesInit == LoyaltyInit => LoyaltyTypes
<1> SUFFICES ASSUME LoyaltyInit PROVE LoyaltyTypes
  OBVIOUS
<1>1. ClaimsHaveOrders /\ KeysTypeOK
  BY DEF LoyaltyInit, KeysInit, KeysTypeOK, KeyStatus, ClaimsHaveOrders
<1>2. IdleCloser \in Closer
  BY LoyaltyAssumption DEF IdleCloser, Closer
<1>3. account \in [Users -> Account]
  BY DEF LoyaltyInit, Account
<1> QED BY <1>1, <1>2, <1>3, LoyaltyAssumption DEF LoyaltyInit, LoyaltyTypes, LoyaltyTypeOK

LEMMA AccountSums ==
  ASSUME NEW a \in Account, NEW n \in Int
  PROVE  /\ [balance |-> a.balance + n, lifetime |-> a.lifetime + n,
             tier |-> TierOf(a.lifetime + n)] \in Account
         /\ [a EXCEPT !.balance = a.balance - n] \in Account
<1>1. a.balance + n \in Int /\ a.lifetime + n \in Int /\ a.balance - n \in Int
  BY DEF Account
<1>2. TierOf(a.lifetime + n) \in {0, 1}
  BY DEF TierOf
<1>3. ASSUME NEW b \in Int PROVE [a EXCEPT !.balance = b] \in Account
  BY DEF Account
<1> QED BY <1>1, <1>2, <1>3 DEF Account

LEMMA AwardedType ==
  ASSUME LoyaltyTypeOK, NEW u \in Users, NEW n \in Int, Awarded(u, n)
  PROVE  account' \in [Users -> Account] /\ quiet' \subseteq Users
<1>1. [balance |-> account[u].balance + n, lifetime |-> account[u].lifetime + n,
       tier |-> TierOf(account[u].lifetime + n)] \in Account
  BY AccountSums DEF LoyaltyTypeOK
<1> QED BY <1>1 DEF Awarded, LoyaltyTypeOK

LEMMA DebitedType ==
  ASSUME LoyaltyTypeOK, NEW u \in Users, NEW n \in Int, Debited(u, n)
  PROVE  account' \in [Users -> Account] /\ quiet' \subseteq Users
<1>1. [account[u] EXCEPT !.balance = account[u].balance - n] \in Account
  BY AccountSums DEF LoyaltyTypeOK
<1> QED BY <1>1 DEF Debited, LoyaltyTypeOK

LEMMA FinalizedType ==
  ASSUME KeysTypeOK, NEW k \in Keys, NEW status \in KeyStatus
  PROVE  Finalized(k, status) \in [Keys -> KeyStatus]
BY DEF Finalized, KeysTypeOK

LEMMA CloserType ==
  ASSUME NEW r \in Closer, NEW at \in {"idle", "paying", "opening"}, NEW U \in SUBSET Users
  PROVE  [r EXCEPT !.at = at] \in Closer /\ [r EXCEPT !.owed = U] \in Closer
BY DEF Closer

LEMMA CountsType ==
  ASSUME NEW A, NEW B, NEW f \in [A -> [B -> Nat]], NEW a, NEW b
  PROVE  [f EXCEPT ![a][b] = @ + 1] \in [A -> [B -> Nat]]
<1>1. CASE a \in A /\ b \in B
  <2>1. f[a] \in [B -> Nat] /\ f[a][b] + 1 \in Nat
    BY <1>1
  <2> QED BY <1>1, <2>1
<1>2. CASE ~(a \in A /\ b \in B)
  BY <1>2
<1> QED BY <1>1, <1>2

LEMMA LoyaltyTypesStep == LoyaltyTypes /\ [LoyaltyNext]_loyaltyVars => LoyaltyTypes'
<1> SUFFICES ASSUME LoyaltyTypes, [LoyaltyNext]_loyaltyVars
             PROVE  LoyaltyTypes'
  OBVIOUS
<1> USE LoyaltyAssumption, KeyAssumption
    DEF LoyaltyTypes, LoyaltyTypeOK, ClaimsHaveOrders, KeysTypeOK
<1>1. CASE UNCHANGED loyaltyVars
  BY <1>1 DEF loyaltyVars, keyVars, pointVars, redeemVars, boardVars
<1>2. ASSUME NEW s \in Sessions, NEW k \in RedeemKeys, NEW u \in Users, NEW r \in Rewards,
             BeginRedeem(s, k, u, r)
      PROVE  LoyaltyTypes'
  BY <1>2 DEF BeginRedeem, pointVars, boardVars
<1>3. ASSUME NEW s \in Sessions, CommitRedeem(s)
      PROVE  LoyaltyTypes'
  <2>1. claim[s] \in RedeemKeys /\ order[s][1] \in Users /\ order[s][2] \in Rewards
    BY <1>3 DEF CommitRedeem
  <2>2. CostOf[order[s][2]] \in Int
    BY <2>1
  <2>3. Debited(order[s][1], CostOf[order[s][2]])
    BY <1>3 DEF CommitRedeem
  <2>4. account' \in [Users -> Account] /\ quiet' \subseteq Users
    BY <2>1, <2>2, <2>3, DebitedType
  <2>5. redeemed' \in [RedeemKeys -> Nat]
    BY <1>3, <2>1 DEF CommitRedeem
  <2>6. keyRow' \in [Keys -> KeyStatus]
    BY <1>3, <2>1 DEF CommitRedeem, KeyStatus
  <2> QED BY <1>3, <2>4, <2>5, <2>6 DEF CommitRedeem, boardVars
<1>4. ASSUME NEW s \in Sessions, RollBack(s), stops' \in 0 .. MaxStops
      PROVE  LoyaltyTypes'
  BY <1>4 DEF RollBack, pointVars, boardVars
<1>5. ASSUME NEW s \in Sessions, MarkFailed(s)
      PROVE  LoyaltyTypes'
  <2>1. keyRow' \in [Keys -> KeyStatus]
    <3>1. rolledBack[s] \in Keys /\ "failed" \in KeyStatus
      BY <1>5 DEF MarkFailed, KeyStatus
    <3> QED BY <1>5, <3>1, FinalizedType DEF MarkFailed
  <2> QED BY <1>5, <2>1 DEF MarkFailed, pointVars, boardVars
<1>6. ASSUME NEW s \in Sessions, LoseSession(s)
      PROVE  LoyaltyTypes'
  BY <1>6 DEF LoseSession, pointVars, boardVars
<1>7. ASSUME NEW u \in Users, NEW n \in Adjustments, Adjust(u, n)
      PROVE  LoyaltyTypes'
  <2>1. account' \in [Users -> Account] /\ quiet' \subseteq Users
    BY <1>7, AwardedType DEF Adjust
  <2> QED BY <1>7, <2>1 DEF Adjust, keyVars, redeemVars, boardVars
<1>8. ASSUME NEW u \in Users, FallQuiet(u)
      PROVE  LoyaltyTypes'
  BY <1>8 DEF FallQuiet, keyVars, redeemVars, boardVars
<1>9. ASSUME NEW j \in ExpiryJobs, ScanInactive(j)
      PROVE  LoyaltyTypes'
  <2>1. [u \in Users |-> IF u \in quiet /\ account[u].balance > 0
                           THEN account[u].balance ELSE 0] \in [Users -> Nat]
    BY DEF Account
  <2> QED BY <1>9, <2>1 DEF ScanInactive, keyVars, pointVars, redeemVars, boardVars
<1>10. ASSUME NEW j \in ExpiryJobs, StopExpiry(j)
       PROVE  LoyaltyTypes'
  BY <1>10 DEF StopExpiry, keyVars, pointVars, redeemVars, boardVars
<1>11. ASSUME NEW j \in ExpiryJobs, NEW u \in Users, ExpirePoints(j, u)
       PROVE  LoyaltyTypes'
  <2>1. account' \in [Users -> Account] /\ quiet' \subseteq Users
    <3>1. expiring[j][u] \in Int
      OBVIOUS
    <3>2. CASE Debited(u, expiring[j][u])
      BY <3>1, <3>2, DebitedType
    <3>3. CASE UNCHANGED pointVars
      BY <3>3 DEF pointVars
    <3> QED BY <1>11, <3>2, <3>3 DEF ExpirePoints
  <2> QED BY <1>11, <2>1 DEF ExpirePoints, keyVars, redeemVars, boardVars
<1>12. ASSUME NEW c \in Closers, NEW p \in 1 .. Periods, StartClose(c, p)
       PROVE  LoyaltyTypes'
  <2>1. [at |-> "paying", period |-> p, owed |-> {u \in Users : PrizeOf[u] > 0}] \in Closer
    BY DEF Closer
  <2> QED BY <1>12, <2>1 DEF StartClose, keyVars, pointVars, redeemVars
<1>13. ASSUME NEW c \in Closers, NEW u \in Users, PayEntry(c, u)
       PROVE  LoyaltyTypes'
  <2>1. account' \in [Users -> Account] /\ quiet' \subseteq Users
    BY <1>13, AwardedType DEF PayEntry
  <2>2. [closer[c] EXCEPT !.owed = closer[c].owed \ {u}] \in Closer
    <3>1. closer[c] \in Closer /\ closer[c].owed \ {u} \in SUBSET Users
      BY DEF Closer
    <3> QED BY <3>1, CloserType
  <2>3. prizes' \in [1 .. Periods -> [Users -> Nat]]
    BY <1>13, CountsType DEF PayEntry
  <2>4. closer' \in [Closers -> Closer]
    BY <1>13, <2>2 DEF PayEntry
  <2> QED BY <1>13, <2>1, <2>3, <2>4 DEF PayEntry, keyVars, redeemVars
<1>14. ASSUME NEW c \in Closers, MarkInactive(c)
       PROVE  LoyaltyTypes'
  <2>1. [closer[c] EXCEPT !.at = "opening"] \in Closer
    BY CloserType
  <2> QED BY <1>14, <2>1 DEF MarkInactive, keyVars, pointVars, redeemVars
<1>15. ASSUME NEW c \in Closers, OpenNext(c)
       PROVE  LoyaltyTypes'
  <2>1. IdleCloser \in Closer
    BY DEF IdleCloser, Closer
  <2> QED BY <1>15, <2>1 DEF OpenNext, keyVars, pointVars, redeemVars
<1>16. ASSUME NEW c \in Closers, StopClose(c)
       PROVE  LoyaltyTypes'
  <2>1. IdleCloser \in Closer
    BY DEF IdleCloser, Closer
  <2> QED BY <1>16, <2>1 DEF StopClose, keyVars, pointVars, redeemVars
<1>17. \A s \in Sessions : RefuseRedeem(s) \/ BreakRedeem(s) => RollBack(s) /\ stops' \in 0 .. MaxStops
  BY DEF RefuseRedeem, BreakRedeem
<1> QED
  BY <1>1, <1>2, <1>3, <1>4, <1>5, <1>6, <1>7, <1>8, <1>9, <1>10, <1>11, <1>12, <1>13,
     <1>14, <1>15, <1>16, <1>17
     DEF LoyaltyNext, RedeemStep, PointStep, BoardStep

\* The accounts, jobs and keys stay well typed; in particular no award, debit or
\* expiration makes a total anything but an integer.
THEOREM LoyaltyTypeCorrect == LoyaltySpec => []LoyaltyTypeOK
<1>1. LoyaltyTypes => LoyaltyTypeOK
  BY DEF LoyaltyTypes
<1> QED BY <1>1, LoyaltyTypesInit, LoyaltyTypesStep, PTL DEF LoyaltySpec
---------------------------------------------------------------------------
(* Redemption.  A claim of an open transaction is exclusive and its key has *)
(* no row; a key without a row has redeemed nothing.  The finalization of a *)
(* failed attempt writes only over a row, so it never frees a key.          *)

ClaimsAreFresh ==
  /\ \A s \in Sessions : claim[s] # NoKey => keyRow[claim[s]] = "none"
  /\ \A r, s \in Sessions : claim[s] # NoKey /\ claim[r] = claim[s] => r = s

FreshKeysUnused == \A k \in RedeemKeys : keyRow[k] = "none" => redeemed[k] = 0

RedeemInv == ClaimsAreFresh /\ FreshKeysUnused /\ RedeemedOnce

LEMMA RedeemStepInv == LoyaltyTypes /\ RedeemInv /\ [LoyaltyNext]_loyaltyVars => RedeemInv'
<1> SUFFICES ASSUME LoyaltyTypes, RedeemInv, [LoyaltyNext]_loyaltyVars
             PROVE  RedeemInv'
  OBVIOUS
<1> USE LoyaltyAssumption, KeyAssumption
    DEF LoyaltyTypes, LoyaltyTypeOK, ClaimsHaveOrders, KeysTypeOK,
        RedeemInv, ClaimsAreFresh, FreshKeysUnused, RedeemedOnce
<1>1. CASE UNCHANGED <<keyVars, redeemed>>
  BY <1>1 DEF keyVars
<1>2. ASSUME NEW s \in Sessions, NEW k \in RedeemKeys, NEW u \in Users, NEW r \in Rewards,
             BeginRedeem(s, k, u, r)
      PROVE  RedeemInv'
  BY <1>2 DEF BeginRedeem, Fresh
<1>3. ASSUME NEW s \in Sessions, CommitRedeem(s)
      PROVE  RedeemInv'
  <2> DEFINE k == claim[s]
  <2>1. k \in RedeemKeys /\ k \in Keys /\ keyRow[k] = "none" /\ redeemed[k] = 0
    BY <1>3 DEF CommitRedeem
  <2>2. \A x \in RedeemKeys : redeemed'[x] = IF x = k THEN 1 ELSE redeemed[x]
    BY <1>3, <2>1 DEF CommitRedeem
  <2>3. \A x \in Keys : keyRow'[x] = IF x = k THEN "completed" ELSE keyRow[x]
    BY <1>3, <2>1 DEF CommitRedeem
  <2>4. \A x \in Sessions : claim'[x] = IF x = s THEN NoKey ELSE claim[x]
    BY <1>3 DEF CommitRedeem
  <2>5. \A x \in Sessions : x # s /\ claim[x] # NoKey => claim[x] # k
    BY <1>3 DEF CommitRedeem
  <2>6. ClaimsAreFresh'
    <3>1. \A x \in Sessions : claim'[x] # NoKey => claim'[x] \in Keys /\ claim'[x] # k
      BY <2>4, <2>5
    <3>2. \A x \in Sessions : claim'[x] # NoKey => keyRow'[claim'[x]] = "none"
      BY <2>3, <2>4, <3>1
    <3>3. \A x, y \in Sessions : claim'[x] # NoKey /\ claim'[y] = claim'[x] => y = x
      BY <2>4
    <3> QED BY <3>2, <3>3
  <2>7. FreshKeysUnused'
    <3> SUFFICES ASSUME NEW x \in RedeemKeys, keyRow'[x] = "none"
                 PROVE  redeemed'[x] = 0
      OBVIOUS
    <3>1. x # k /\ keyRow[x] = "none"
      BY <2>3
    <3> QED BY <2>2, <3>1
  <2>8. RedeemedOnce'
    <3>1. \A x \in RedeemKeys : redeemed[x] <= 1
      OBVIOUS
    <3> HIDE DEF k
    <3> SUFFICES ASSUME NEW x \in RedeemKeys
                 PROVE  redeemed'[x] <= 1
      OBVIOUS
    <3>2. CASE x = k
      BY <2>2, <3>2
    <3>3. CASE x # k
      BY <2>2, <3>1, <3>3
    <3> QED BY <3>2, <3>3
  <2> QED BY <2>6, <2>7, <2>8
<1>4. ASSUME NEW s \in Sessions, claim' = [claim EXCEPT ![s] = NoKey],
             UNCHANGED <<keyRow, redeemed>>
      PROVE  RedeemInv'
  BY <1>4
<1>5. ASSUME NEW s \in Sessions, MarkFailed(s)
      PROVE  RedeemInv'
  <2>1. \A k \in Keys : (keyRow'[k] = "none") <=> (keyRow[k] = "none")
    BY <1>5 DEF MarkFailed, Finalized
  <2> QED BY <1>5, <2>1 DEF MarkFailed
<1>6. CASE PointStep \/ BoardStep
  BY <1>1, <1>6
     DEF PointStep, BoardStep, FallQuiet, Adjust, ScanInactive, StopExpiry, ExpirePoints,
         StartClose, PayEntry, MarkInactive, OpenNext, StopClose, redeemVars
<1>7. CASE RedeemStep
  BY <1>2, <1>3, <1>4, <1>5, <1>7
     DEF RedeemStep, RefuseRedeem, BreakRedeem, RollBack, LoseSession
<1> QED BY <1>1, <1>6, <1>7 DEF LoyaltyNext, loyaltyVars, redeemVars

\* No key redeems twice, for any number of sessions that retry it, roll back, die
\* or mark it as failed late.
THEOREM RedemptionOnce == LoyaltySpec => []RedeemedOnce
<1>1. LoyaltyInit => RedeemInv
  BY LoyaltyAssumption
     DEF LoyaltyInit, KeysInit, RedeemInv, ClaimsAreFresh, FreshKeysUnused, RedeemedOnce
<1>2. RedeemInv => RedeemedOnce
  BY DEF RedeemInv
<1> QED
  BY <1>1, <1>2, RedeemStepInv, LoyaltyTypesInit, LoyaltyTypesStep, PTL DEF LoyaltySpec

---------------------------------------------------------------------------
(* Debits.                                                                 *)

\* Every award leaves a trace in the lifetime total, unless it is of no points.
LEMMA AwardsShow ==
  ASSUME LoyaltyTypeOK, NEW u \in Users, NEW v \in Users, NEW n \in Int, Awarded(v, n),
         account'[u].balance < account[u].balance
  PROVE  account'[u].lifetime # account[u].lifetime
<1>1. account[u] \in Account /\ account[u].balance \in Int /\ account[u].lifetime \in Int
  BY DEF LoyaltyTypeOK, Account
<1>2. CASE u = v
  <2>1. /\ account'[u].balance = account[u].balance + n
        /\ account'[u].lifetime = account[u].lifetime + n
    BY <1>2 DEF Awarded, LoyaltyTypeOK
  <2> QED BY <1>1, <2>1
<1>3. CASE u # v
  <2>1. account'[u] = account[u]
    BY <1>3 DEF Awarded, LoyaltyTypeOK
  <2> QED BY <1>1, <2>1
<1> QED BY <1>2, <1>3

LEMMA DebitsShow ==
  ASSUME LoyaltyTypeOK, NEW u \in Users, NEW v \in Users, NEW n \in Int, Debited(v, n),
         account[v].balance >= n,
         account'[u].balance < account[u].balance
  PROVE  account'[u].balance >= 0
<1>1. account[u] \in Account /\ account[u].balance \in Int
  BY DEF LoyaltyTypeOK, Account
<1>2. CASE u = v
  <2>1. account'[u] = [account[u] EXCEPT !.balance = account[u].balance - n]
    BY <1>2 DEF Debited, LoyaltyTypeOK
  <2>2. account'[u].balance = account[u].balance - n
    BY <1>1, <2>1 DEF Account
  <2> QED BY <1>1, <1>2, <2>2
<1>3. CASE u # v
  <2>1. account'[u] = account[u]
    BY <1>3 DEF Debited, LoyaltyTypeOK
  <2> QED BY <1>1, <2>1
<1> QED BY <1>2, <1>3

\* A redemption or an expiration never overdraws an account, whatever happened
\* between the job's scan and its debit.
THEOREM CoveredDebits == LoyaltySpec => DebitsAreCovered
<1>1. LoyaltyTypes /\ [LoyaltyNext]_loyaltyVars =>
        [\A u \in Users :
           account'[u].balance < account[u].balance /\ account'[u].lifetime = account[u].lifetime
             => account'[u].balance >= 0]_loyaltyVars
  <2> SUFFICES ASSUME LoyaltyTypes, [LoyaltyNext]_loyaltyVars, NEW u \in Users,
                      account'[u].balance < account[u].balance,
                      account'[u].lifetime = account[u].lifetime
               PROVE  account'[u].balance >= 0
    OBVIOUS
  <2> USE DEF LoyaltyTypes
  <2>1. CASE UNCHANGED account
    BY <2>1 DEF LoyaltyTypeOK, Account
  <2>2. ASSUME NEW s \in Sessions, CommitRedeem(s)
        PROVE  account'[u].balance >= 0
    <3>1. order[s][1] \in Users /\ CostOf[order[s][2]] \in Int
      BY <2>2, LoyaltyAssumption DEF CommitRedeem, ClaimsHaveOrders
    <3>2. /\ Debited(order[s][1], CostOf[order[s][2]])
          /\ account[order[s][1]].balance >= CostOf[order[s][2]]
      BY <2>2 DEF CommitRedeem, Affordable
    <3> QED BY <3>1, <3>2, DebitsShow
  <2>3. ASSUME NEW j \in ExpiryJobs, NEW v \in Users, ExpirePoints(j, v)
        PROVE  account'[u].balance >= 0
    <3>1. expiring[j][v] \in Int
      BY DEF LoyaltyTypeOK
    <3>2. account[v].balance >= expiring[j][v] => Debited(v, expiring[j][v])
      BY <2>3 DEF ExpirePoints
    <3> QED BY <2>1, <2>3, <3>1, <3>2, DebitsShow DEF ExpirePoints, pointVars
  <2>4. ASSUME NEW v \in Users, NEW n \in Int, Awarded(v, n)
        PROVE  FALSE
    BY <2>4, AwardsShow
  <2>5. CASE RedeemStep
    BY <2>1, <2>2, <2>5
       DEF RedeemStep, BeginRedeem, RefuseRedeem, BreakRedeem, RollBack, MarkFailed,
           LoseSession, pointVars
  <2>6. CASE PointStep
    <3>1. Adjustments \subseteq Int
      BY LoyaltyAssumption
    <3> QED BY <2>1, <2>3, <2>4, <2>6, <3>1
            DEF PointStep, FallQuiet, Adjust, ScanInactive, StopExpiry, pointVars
  <2>7. CASE BoardStep
    <3>1. \A v \in Users : PrizeOf[v] \in Int
      BY LoyaltyAssumption
    <3> QED BY <2>1, <2>4, <2>7, <3>1
            DEF BoardStep, StartClose, PayEntry, MarkInactive, OpenNext, StopClose, pointVars
  <2> QED BY <2>1, <2>5, <2>6, <2>7 DEF LoyaltyNext, loyaltyVars, pointVars
<1> QED
  BY <1>1, LoyaltyTypesInit, LoyaltyTypesStep, PTL DEF LoyaltySpec, DebitsAreCovered

---------------------------------------------------------------------------
(* Leaderboard periods, which are closed in their order.                    *)

PeriodsInOrder ==
  \A p, q \in 1 .. Periods : p < q /\ period[q] # "none" => period[p] = "closed"

\* The reward of u is paid, with what was given of it.
Paid(given, u) == PrizeOf[u] > 0 => given >= 1

\* A run r that pays owes what it has not paid, of a period that is not yet closed
\* or was closed by another run; one that opens the next has closed its own.
Owes(r, periods, given) ==
  /\ r.at = "paying" =>
       /\ r.period \in 1 .. Periods /\ periods[r.period] # "none"
       /\ \A u \in Users : Paid(given[r.period][u], u) \/ u \in r.owed
  /\ r.at = "opening" => r.period \in 1 .. Periods /\ periods[r.period] = "closed"
  /\ r.at # "paying" => r.owed = {}

ClosersOwe == \A c \in Closers : Owes(closer[c], period, prizes)

BoardInv == PeriodsInOrder /\ ClosersOwe /\ PaidBeforeClosed

BoardTypes ==
  /\ period \in [1 .. Periods -> {"none", "active", "closed"}]
  /\ closer \in [Closers -> Closer]
  /\ prizes \in [1 .. Periods -> [Users -> Nat]]

\* Rewards are only added, and periods only go on.
OnlyForward ==
  /\ \A p \in 1 .. Periods, u \in Users :
       Paid(prizes[p][u], u) => Paid(prizes'[p][u], u)
  /\ \A p \in 1 .. Periods : period[p] # "none" => period'[p] # "none"
  /\ \A p \in 1 .. Periods : period[p] = "closed" => period'[p] = "closed"

\* What a step of run c has to show for the runs.
LEMMA OneCloserMoves ==
  ASSUME ClosersOwe, OnlyForward, NEW c \in Closers,
         \A d \in Closers \ {c} : closer'[d] = closer[d],
         Owes(closer'[c], period', prizes')
  PROVE  ClosersOwe'
<1>1. ASSUME NEW d \in Closers \ {c}
      PROVE  Owes(closer'[d], period', prizes')
  <2>1. Owes(closer[d], period, prizes) /\ closer'[d] = closer[d]
    BY <1>1 DEF ClosersOwe
  <2> QED BY <2>1 DEF Owes, OnlyForward
<1> QED BY <1>1 DEF ClosersOwe

LEMMA BoardStepInv == BoardTypes /\ BoardInv /\ [LoyaltyNext]_loyaltyVars => BoardInv'
<1> SUFFICES ASSUME BoardTypes, BoardInv, [LoyaltyNext]_loyaltyVars
             PROVE  BoardInv'
  OBVIOUS
<1> USE DEF BoardInv
<1>1. CASE UNCHANGED boardVars
  BY <1>1 DEF boardVars, PeriodsInOrder, ClosersOwe, Owes, Paid, PaidBeforeClosed
<1>2. Periods \in Nat /\ \A u \in Users : PrizeOf[u] \in Nat
  BY LoyaltyAssumption
<1>3. ASSUME NEW c \in Closers
      PROVE  Owes(closer[c], period, prizes) /\ closer[c] \in Closer
  BY DEF BoardTypes, ClosersOwe
<1>4. ASSUME NEW c \in Closers, NEW p \in 1 .. Periods, StartClose(c, p)
      PROVE  BoardInv'
  <2>1. period' = period /\ prizes' = prizes /\ period[p] = "active"
    BY <1>4 DEF StartClose
  <2>2. /\ closer'[c] = [at |-> "paying", period |-> p, owed |-> {u \in Users : PrizeOf[u] > 0}]
        /\ \A d \in Closers \ {c} : closer'[d] = closer[d]
    BY <1>4 DEF StartClose, BoardTypes
  <2>3. ClosersOwe'
    BY <2>1, <2>2, OneCloserMoves DEF OnlyForward, Owes, Paid
  <2> QED BY <2>1, <2>3 DEF PeriodsInOrder, PaidBeforeClosed
<1>5. ASSUME NEW c \in Closers, NEW u \in Users, PayEntry(c, u)
      PROVE  BoardInv'
  <2> DEFINE n == closer[c].period
  <2>1. closer[c].at = "paying" /\ n \in 1 .. Periods /\ period[n] # "none"
    BY <1>3, <1>5 DEF PayEntry, Owes
  <2>2. \A p \in 1 .. Periods, v \in Users :
          prizes'[p][v] = IF p = n /\ v = u THEN prizes[p][v] + 1 ELSE prizes[p][v]
    BY <1>5, <2>1 DEF PayEntry, BoardTypes
  <2>3. \A p \in 1 .. Periods, v \in Users : prizes[p][v] \in Nat
    BY DEF BoardTypes
  <2>4. /\ Paid(prizes'[n][u], u)
        /\ \A p \in 1 .. Periods, v \in Users :
             Paid(prizes[p][v], v) => Paid(prizes'[p][v], v)
    BY <2>1, <2>2, <2>3 DEF Paid
  <2>5. \A d \in Closers \ {c} : closer'[d] = closer[d]
    BY <1>5 DEF PayEntry, BoardTypes
  <2>6. closer'[c] = [closer[c] EXCEPT !.owed = closer[c].owed \ {u}]
    BY <1>5 DEF PayEntry, BoardTypes
  <2>7. /\ closer'[c].at = "paying" /\ closer'[c].period = n
        /\ closer'[c].owed = closer[c].owed \ {u}
    BY <1>3, <2>1, <2>6 DEF Closer
  <2>8. period' = period
    BY <1>5 DEF PayEntry
  <2>9. Owes(closer'[c], period', prizes')
    <3>1. \A v \in Users : Paid(prizes[n][v], v) \/ v \in closer[c].owed
      BY <1>3, <2>1 DEF Owes
    <3>2. \A v \in Users : Paid(prizes'[n][v], v) \/ v \in closer'[c].owed
      BY <2>1, <2>4, <2>7, <3>1
    <3> QED BY <2>1, <2>7, <2>8, <3>2 DEF Owes
  <2>10. ClosersOwe'
    BY <2>4, <2>5, <2>8, <2>9, OneCloserMoves DEF OnlyForward
  <2>11. PaidBeforeClosed'
    BY <2>4, <2>8 DEF PaidBeforeClosed, Paid
  <2> QED BY <2>8, <2>10, <2>11 DEF PeriodsInOrder
<1>6. ASSUME NEW c \in Closers, MarkInactive(c)
      PROVE  BoardInv'
  <2> DEFINE n == closer[c].period
  <2>1. n \in 1 .. Periods /\ period[n] # "none" /\ \A u \in Users : Paid(prizes[n][u], u)
    BY <1>3, <1>6 DEF MarkInactive, Owes
  <2>2. \A p \in 1 .. Periods : period'[p] = IF p = n THEN "closed" ELSE period[p]
    BY <1>6, <2>1 DEF MarkInactive, BoardTypes
  <2>3. prizes' = prizes /\ \A d \in Closers \ {c} : closer'[d] = closer[d]
    BY <1>6 DEF MarkInactive, BoardTypes
  <2>4. closer'[c] = [closer[c] EXCEPT !.at = "opening"] /\ closer[c].owed = {}
    BY <1>6 DEF MarkInactive, BoardTypes
  <2>5. closer'[c].at = "opening" /\ closer'[c].period = n /\ closer'[c].owed = {}
    BY <1>3, <2>4 DEF Closer
  <2>6. PeriodsInOrder'
    BY <2>1, <2>2 DEF PeriodsInOrder
  <2>7. PaidBeforeClosed'
    BY <2>1, <2>2, <2>3 DEF PaidBeforeClosed, Paid
  <2>8. Owes(closer'[c], period', prizes')
    BY <2>1, <2>2, <2>5 DEF Owes
  <2>9. ClosersOwe'
    BY <2>2, <2>3, <2>8, OneCloserMoves DEF OnlyForward
  <2> QED BY <2>6, <2>7, <2>9
<1>7. ASSUME NEW c \in Closers, OpenNext(c)
      PROVE  BoardInv'
  <2> DEFINE n == closer[c].period
  <2>1. n \in 1 .. Periods /\ period[n] = "closed"
    BY <1>3, <1>7 DEF OpenNext, Owes
  <2>2. prizes' = prizes /\ \A d \in Closers \ {c} : closer'[d] = closer[d]
    BY <1>7 DEF OpenNext, BoardTypes
  <2>3. closer'[c].at = "idle" /\ closer'[c].owed = {}
    BY <1>7 DEF OpenNext, IdleCloser, BoardTypes
  <2>4. Owes(closer'[c], period', prizes')
    BY <2>3 DEF Owes
  <2>5. CASE period' = period
    <3>1. ClosersOwe'
      BY <2>2, <2>4, <2>5, OneCloserMoves DEF OnlyForward
    <3> QED BY <2>2, <2>5, <3>1 DEF PeriodsInOrder, PaidBeforeClosed
  <2>6. CASE n + 1 \in 1 .. Periods /\ period[n + 1] = "none"
             /\ period' = [period EXCEPT ![n + 1] = "active"]
    <3>1. \A p \in 1 .. Periods : period'[p] = IF p = n + 1 THEN "active" ELSE period[p]
      BY <2>6 DEF BoardTypes
    <3>2. \A p \in 1 .. Periods : p < n + 1 => period[p] = "closed"
      BY <1>2, <2>1 DEF PeriodsInOrder
    <3>3. \A q \in 1 .. Periods : n + 1 < q => period[q] = "none"
      BY <1>2, <2>6 DEF PeriodsInOrder
    <3>4. PeriodsInOrder'
      BY <1>2, <2>1, <2>6, <3>1, <3>2, <3>3 DEF PeriodsInOrder
    <3>5. PaidBeforeClosed'
      BY <2>2, <3>1 DEF PaidBeforeClosed
    <3>6. ClosersOwe'
      <4>1. \A p \in 1 .. Periods : period[p] # "none" => period'[p] # "none"
        BY <3>1
      <4>2. \A p \in 1 .. Periods : period[p] = "closed" => period'[p] = "closed"
        BY <2>6, <3>1
      <4> QED BY <2>2, <2>4, <4>1, <4>2, OneCloserMoves DEF OnlyForward
    <3> QED BY <3>4, <3>5, <3>6
  <2>7. DOMAIN period = 1 .. Periods
    BY DEF BoardTypes
  <2> QED BY <1>7, <2>5, <2>6, <2>7 DEF OpenNext
<1>8. ASSUME NEW c \in Closers, StopClose(c)
      PROVE  BoardInv'
  <2>1. /\ period' = period /\ prizes' = prizes
        /\ closer'[c].at = "idle" /\ closer'[c].owed = {}
        /\ \A d \in Closers \ {c} : closer'[d] = closer[d]
    BY <1>8 DEF StopClose, IdleCloser, BoardTypes
  <2>2. ClosersOwe'
    BY <2>1, OneCloserMoves DEF OnlyForward, Owes
  <2> QED BY <2>1, <2>2 DEF PeriodsInOrder, PaidBeforeClosed
<1>9. CASE RedeemStep \/ PointStep
  BY <1>1, <1>9
     DEF RedeemStep, BeginRedeem, CommitRedeem, RefuseRedeem, BreakRedeem, RollBack,
         MarkFailed, LoseSession, PointStep, FallQuiet, Adjust, ScanInactive, StopExpiry,
         ExpirePoints
<1> QED BY <1>1, <1>4, <1>5, <1>6, <1>7, <1>8, <1>9 DEF LoyaltyNext, BoardStep, loyaltyVars

LEMMA BoardAlways == LoyaltySpec => []BoardInv
<1>1. LoyaltyInit => BoardInv
  BY LoyaltyAssumption
     DEF LoyaltyInit, BoardInv, PeriodsInOrder, ClosersOwe, Owes, PaidBeforeClosed, IdleCloser
<1>2. LoyaltyTypes => BoardTypes
  BY DEF LoyaltyTypes, LoyaltyTypeOK, BoardTypes
<1> QED
  BY <1>1, <1>2, BoardStepInv, LoyaltyTypesInit, LoyaltyTypesStep, PTL DEF LoyaltySpec

\* A closed period has paid every reward it owed, for any number of runs that
\* overlap or stop half way.
THEOREM ClosedPeriodsPaid == LoyaltySpec => []PaidBeforeClosed
BY BoardAlways, PTL DEF BoardInv

\* At most one period is active, for any number of overlapping runs.
THEOREM OnePeriod == LoyaltySpec => []OneActivePeriod
<1>1. BoardInv => OneActivePeriod
  <2> SUFFICES ASSUME BoardInv, NEW p \in 1 .. Periods, NEW q \in 1 .. Periods,
                      period[p] = "active", period[q] = "active"
               PROVE  p = q
    BY DEF OneActivePeriod
  <2>1. Periods \in Nat
    BY LoyaltyAssumption
  <2> QED BY <2>1 DEF BoardInv, PeriodsInOrder
<1> QED BY <1>1, BoardAlways, PTL
=============================================================================
