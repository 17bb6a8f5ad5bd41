--------------------------- MODULE Server_proofs ---------------------------
(***************************************************************************)
(* Proofs about the accounts, memberships, tokens and presets of tenants,  *)
(* for any people, tenants and presets and any number of requests, and     *)
(* about the six components of MCServer side by side.  The requests read   *)
(* first and write later, so the invariants follow what a request or a     *)
(* token carries from the reading to the writing.                          *)
(***************************************************************************)
EXTENDS MCServer, Loyalty_proofs, Campaigns_proofs, InventoryBridge_proofs,
  VehicleRentals_proofs, FiniteSetTheorems, SequenceTheorems, TLAPS

---------------------------------------------------------------------------
(* Type correctness.                                                       *)

Token == [grant : Grant, consumed : BOOLEAN, revoked : BOOLEAN]

Issuing == [at : {"issuing", "revoking"}, grant : Grant, seen : SUBSET Nat]
Changing == [at : {"changing", "locked"}, tenant : Tenants, members : SUBSET People, role : Roles]
Transferring == [at : {"transferring"}, by : People, to : People, preset : Presets]

LEMMA RequestKinds ==
  /\ Request = {Idle} \cup Issuing \cup Changing \cup Transferring
  /\ \A c \in Request : c = Idle <=> c.at = "idle"
  /\ \A c \in Request : c.at \in {"issuing", "revoking"} => c \in Issuing
  /\ \A c \in Request : c.at \in {"changing", "locked"} => c \in Changing
  /\ \A c \in Request : c.at = "transferring" => c \in Transferring
BY DEF Request, Idle, Issuing, Changing, Transferring

LEMMA GrantTypes ==
  /\ \A u \in People, p \in {"verification", "reset"} : ForSelf(u, p) \in Grant
  /\ \A u \in People, t \in Tenants, r \in Roles :
       [purpose |-> "invitation", person |-> u, tenant |-> t, role |-> r] \in Grant
BY DEF ForSelf, Grant

\* issueToken keeps every token, revokes some, and appends the one it grants.
LEMMA IssuedTokens ==
  ASSUME AccountTypeOK, NEW q \in Requests, NEW revoked, Issued(q, revoked)
  PROVE  /\ token' \in Seq(Token) /\ Len(token') = Len(token) + 1
         /\ \A i \in 1 .. Len(token) :
              token'[i] = [token[i] EXCEPT !.revoked = token[i].revoked \/ i \in revoked]
         /\ token'[Len(token) + 1] =
              [grant |-> request[q].grant, consumed |-> FALSE, revoked |-> FALSE]
         /\ request[q].grant \in Grant
<1> DEFINE old == [i \in DOMAIN token |->
                    [token[i] EXCEPT !.revoked = token[i].revoked \/ i \in revoked]]
           new == [grant |-> request[q].grant, consumed |-> FALSE, revoked |-> FALSE]
<1>1. token \in Seq(Token)
  BY DEF AccountTypeOK, Token
<1>2. Len(token) \in Nat /\ DOMAIN token = 1 .. Len(token)
  BY <1>1, LenProperties
<1>3. \A i \in 1 .. Len(token) : token[i] \in Token
  BY <1>1, ElementOfSeq
<1>4. ASSUME NEW i \in 1 .. Len(token)
      PROVE  [token[i] EXCEPT !.revoked = token[i].revoked \/ i \in revoked] \in Token
  BY <1>3 DEF Token
<1>5. old \in Seq(Token) /\ Len(old) = Len(token)
  <2>1. old \in [1 .. Len(token) -> Token]
    BY <1>2, <1>4
  <2> HIDE DEF old
  <2> QED BY <1>2, <2>1
<1>6. request[q].grant \in Grant /\ new \in Token
  <2>1. request[q] \in Issuing
    BY RequestKinds DEF Issued, AccountTypeOK
  <2> QED BY <2>1 DEF Issuing, Token
<1>7. token' = Append(old, new)
  BY DEF Issued
<1>8. \A i \in 1 .. Len(token) :
        old[i] = [token[i] EXCEPT !.revoked = token[i].revoked \/ i \in revoked]
  BY <1>2
<1> HIDE DEF old, new
<1>9. /\ token' \in Seq(Token) /\ Len(token') = Len(token) + 1
      /\ \A i \in 1 .. Len(token) : token'[i] = old[i]
      /\ token'[Len(token) + 1] = new
  BY <1>5, <1>6, <1>7, AppendProperties
<1> QED BY <1>6, <1>8, <1>9 DEF new

LEMMA IssuedGrants ==
  ASSUME AccountTypeOK, NEW q \in Requests, NEW revoked, Issued(q, revoked)
  PROVE  /\ Len(token') = Len(token) + 1
         /\ \A i \in 1 .. Len(token) :
              /\ token'[i].grant = token[i].grant /\ token'[i].consumed = token[i].consumed
              /\ token'[i].revoked = (token[i].revoked \/ i \in revoked)
         /\ token'[Len(token) + 1].grant = request[q].grant
         /\ ~token'[Len(token) + 1].consumed
<1>1. token \in Seq(Token)
  BY DEF AccountTypeOK, Token
<1>2. ASSUME NEW i \in 1 .. Len(token)
      PROVE  /\ token'[i].grant = token[i].grant /\ token'[i].consumed = token[i].consumed
             /\ token'[i].revoked = (token[i].revoked \/ i \in revoked)
  <2>1. token[i] \in Token
    BY <1>1, ElementOfSeq
  <2>2. token'[i] = [token[i] EXCEPT !.revoked = token[i].revoked \/ i \in revoked]
    BY IssuedTokens
  <2> QED BY <2>1, <2>2 DEF Token
<1>3. /\ Len(token') = Len(token) + 1
      /\ token'[Len(token) + 1] =
           [grant |-> request[q].grant, consumed |-> FALSE, revoked |-> FALSE]
  BY IssuedTokens
<1> QED BY <1>2, <1>3

\* A token is consumed or revoked where it stands.
LEMMA TokenSet ==
  ASSUME AccountTypeOK, NEW i \in DOMAIN token,
         \/ Consumed(i)
         \/ token' = [token EXCEPT ![i].revoked = TRUE]
  PROVE  /\ token' \in Seq(Token) /\ Len(token') = Len(token)
         /\ \A j \in 1 .. Len(token) : j # i => token'[j] = token[j]
         /\ token'[i].grant = token[i].grant
         /\ i \in 1 .. Len(token) /\ token[i] \in Token
<1>1. token \in Seq(Token)
  BY DEF AccountTypeOK, Token
<1>2. Len(token) \in Nat /\ i \in 1 .. Len(token)
  BY <1>1, LenProperties
<1>3. token[i] \in Token
  BY <1>1, <1>2, ElementOfSeq
<1>4. PICK e \in Token : token' = [token EXCEPT ![i] = e] /\ e.grant = token[i].grant
  <2>1. CASE Consumed(i)
    <3>1. [token[i] EXCEPT !.consumed = TRUE] \in Token
      BY <1>3 DEF Token
    <3> QED BY <1>3, <2>1, <3>1 DEF Consumed, Token
  <2>2. CASE token' = [token EXCEPT ![i].revoked = TRUE]
    <3>1. [token[i] EXCEPT !.revoked = TRUE] \in Token
      BY <1>3 DEF Token
    <3> QED BY <1>3, <2>2, <3>1 DEF Token
  <2> QED BY <2>1, <2>2
<1>5. /\ token' \in Seq(Token) /\ Len(token') = Len(token)
      /\ \A j \in 1 .. Len(token) : token'[j] = IF j = i THEN e ELSE token[j]
  BY <1>1, <1>2, <1>4, ExceptSeq
<1> QED BY <1>2, <1>3, <1>4, <1>5

LEMMA GrantOf ==
  ASSUME AccountTypeOK, NEW i \in DOMAIN token
  PROVE  /\ i \in 1 .. Len(token) /\ token[i] \in Token /\ token[i].grant \in Grant
         /\ token[i].grant.person \in People
<1>1. token \in Seq(Token)
  BY DEF AccountTypeOK, Token
<1>2. i \in 1 .. Len(token)
  BY <1>1, LenProperties
<1>3. token[i] \in Token
  BY <1>1, <1>2, ElementOfSeq
<1> QED BY <1>2, <1>3 DEF Token, Grant

LEMMA RequestType ==
  ASSUME AccountTypeOK, NEW q \in Requests, NEW c \in Request,
         request' = [request EXCEPT ![q] = c]
  PROVE  /\ request' \in [Requests -> Request] /\ request'[q] = c
         /\ \A p \in Requests \ {q} : request'[p] = request[p]
BY DEF AccountTypeOK

LEMMA IssueType ==
  ASSUME AccountTypeOK, NEW q \in Requests, NEW g \in Grant, Issue(q, g)
  PROVE  /\ request' = [request EXCEPT ![q] = [at |-> "issuing", grant |-> g, seen |-> {}]]
         /\ [at |-> "issuing", grant |-> g, seen |-> {}] \in Request
         /\ asked' \in 0 .. MaxRequests
<1>1. [at |-> "issuing", grant |-> g, seen |-> {}] \in Issuing
  BY DEF Issuing
<1>2. asked' \in 0 .. MaxRequests
  BY AccountAssumption DEF AccountTypeOK, Issue, Begin
<1> QED BY <1>1, <1>2, RequestKinds DEF Issue


\* Well typed from the start, and after every step.
LEMMA AccountTypesInit == AccountInit => AccountTypeOK
<1> SUFFICES ASSUME NEW start \in Starts,
                    LET Admin(u) == start[u] # NoTenant
                        Member(u) == Admin(u) /\ u # Bootstrap
                    IN
                    /\ operator = [u \in People |->
                         [role |-> IF Admin(u) THEN "admin" ELSE "none",
                          verified |-> Member(u), active |-> Admin(u), tenant |-> start[u]]]
                    /\ membership = [u \in People |-> [t \in Tenants |->
                         IF Member(u) /\ start[u] = t THEN "admin" ELSE "none"]]
                    /\ founded = {start[u] : u \in People \ {Bootstrap}} \ {NoTenant}
                    /\ token = <<>>
                    /\ request = [q \in Requests |-> Idle]
                    /\ preset = [p \in Presets |-> NoOne]
                    /\ trail = [p \in Presets |-> <<>>]
                    /\ asked = 0
             PROVE  AccountTypeOK
  BY DEF AccountInit
<1>1. start \in [People -> Tenants \cup {NoTenant}]
  BY AccountAssumption
<1>2. operator \in [People -> Operator]
  <2>1. \A u \in People : /\ start[u] \in Tenants \cup {NoTenant}
                           /\ (start[u] # NoTenant) \in BOOLEAN
                           /\ (start[u] # NoTenant /\ u # Bootstrap) \in BOOLEAN
    BY <1>1
  <2> QED BY <2>1 DEF Operator, Roles
<1>3. membership \in [People -> [Tenants -> Roles \cup {"none"}]]
  BY DEF Roles
<1>4. founded \subseteq Tenants
  BY <1>1
<1>5. token \in Seq(Token) /\ <<>> \in Seq(People \X People)
  BY EmptySeq
<1>6. request \in [Requests -> Request]
  BY DEF Request
<1> QED BY <1>2, <1>3, <1>4, <1>5, <1>6, AccountAssumption DEF AccountTypeOK, Token

LEMMA TransferTypes ==
  ASSUME AccountTypeOK, NEW q \in Requests, request[q].at = "transferring"
  PROVE  request[q].by \in People /\ request[q].to \in People /\ request[q].preset \in Presets
<1>1. request[q] \in Transferring
  BY RequestKinds DEF AccountTypeOK
<1> QED BY <1>1 DEF Transferring

LEMMA ChangeTypes ==
  ASSUME AccountTypeOK, NEW q \in Requests, request[q].at \in {"changing", "locked"}
  PROVE  /\ request[q].tenant \in Tenants /\ request[q].members \subseteq People
         /\ request[q].role \in Roles /\ request[q] \in Changing
<1>1. request[q] \in Changing
  BY RequestKinds DEF AccountTypeOK
<1> QED BY <1>1 DEF Changing

LEMMA AdminTenant ==
  ASSUME AccountTypeOK, NEW u \in People, IsAdmin(u) PROVE operator[u].tenant \in Tenants
BY DEF AccountTypeOK, IsAdmin

\* What becomes of an account.
LEMMA OperatorType ==
  ASSUME AccountTypeOK, NEW u \in People
  PROVE  /\ operator[u] \in Operator
         /\ operator[u].verified \in BOOLEAN /\ operator[u].active \in BOOLEAN
         /\ operator[u].role \in Roles \cup {"none"}
         /\ operator[u].tenant \in Tenants \cup {NoTenant}
         /\ \A b \in BOOLEAN : [operator[u] EXCEPT !.active = b] \in Operator
         /\ \A r \in Roles : [operator[u] EXCEPT !.role = r] \in Operator
         /\ \A t \in Tenants : [operator[u] EXCEPT !.tenant = t] \in Operator
         /\ [operator[u] EXCEPT !.verified = TRUE, !.active = TRUE] \in Operator
<1>1. operator[u] \in Operator
  BY DEF AccountTypeOK
<1> QED BY <1>1 DEF Operator

LEMMA AccountTypesStep == AccountTypeOK /\ [AccountNext]_accountVars => AccountTypeOK'
<1> SUFFICES ASSUME AccountTypeOK, [AccountNext]_accountVars PROVE AccountTypeOK'
  OBVIOUS
<1>1. CASE UNCHANGED accountVars
  BY <1>1 DEF accountVars, AccountTypeOK
<1>2. ASSUME NEW q \in Requests, NEW u \in People, SignUp(q, u) PROVE AccountTypeOK'
  <2>1. ForSelf(u, "verification") \in Grant
    BY GrantTypes
  <2>2. request' \in [Requests -> Request] /\ asked' \in 0 .. MaxRequests
    BY <1>2, <2>1, IssueType, RequestType DEF SignUp
  <2>3. [role |-> "admin", verified |-> FALSE, active |-> FALSE, tenant |-> NoTenant] \in Operator
    BY DEF Operator, Roles
  <2>4. operator' \in [People -> Operator]
    BY <1>2, <2>3, OperatorType DEF SignUp, AccountTypeOK
  <2> QED BY <1>2, <2>2, <2>4 DEF SignUp, AccountTypeOK
<1>3. ASSUME NEW q \in Requests, NEW g \in Grant, Issue(q, g),
             UNCHANGED <<operator, membership, founded, token, preset, trail>>
      PROVE  AccountTypeOK'
  BY <1>3, IssueType, RequestType DEF AccountTypeOK
<1>4. ASSUME NEW i \in DOMAIN token,
             Consumed(i) \/ token' = [token EXCEPT ![i].revoked = TRUE],
             UNCHANGED <<founded, request, preset, trail, asked>>,
             operator' \in [People -> Operator],
             membership' \in [People -> [Tenants -> Roles \cup {"none"}]]
      PROVE  AccountTypeOK'
  BY <1>4, TokenSet DEF AccountTypeOK, Token
<1>5. ASSUME NEW q \in Requests, NEW c \in Request, request' = [request EXCEPT ![q] = c],
             UNCHANGED <<operator, membership, founded, token, preset, trail>>,
             asked' \in 0 .. MaxRequests
      PROVE  AccountTypeOK'
  BY <1>5, RequestType DEF AccountTypeOK
<1>6. Idle \in Request
  BY DEF Request
<1>7. ASSUME NEW q \in Requests, Begin(q) PROVE asked' \in 0 .. MaxRequests
  BY <1>7, AccountAssumption DEF AccountTypeOK, Begin
<1>8. CASE TokenStep
  <2>1. ASSUME NEW q \in Requests, NEW u \in People, ResendVerification(q, u) \/ RequestReset(q, u)
        PROVE  AccountTypeOK'
    BY <1>3, <2>1, GrantTypes DEF ResendVerification, RequestReset
  <2>2. ASSUME NEW q \in Requests, NEW u \in People, NEW by \in People, NEW role \in Roles,
               CreateInvitation(q, by, u, role)
        PROVE  AccountTypeOK'
    <3>1. operator[by].tenant \in Tenants
      BY <2>2, AdminTenant DEF CreateInvitation
    <3> QED BY <1>3, <2>2, <3>1, GrantTypes DEF CreateInvitation
  <2>3. ASSUME NEW q \in Requests, NEW u \in People, NEW i \in DOMAIN token,
               ResendInvitation(q, u, i)
        PROVE  AccountTypeOK'
    BY <1>3, <2>3, GrantOf DEF ResendInvitation
  <2>4. ASSUME NEW q \in Requests, FindEarlier(q)
        PROVE  AccountTypeOK'
    <3> DEFINE live == {i \in DOMAIN token : /\ Live(i)
                                             /\ token[i].grant.purpose = request[q].grant.purpose
                                             /\ token[i].grant.person = request[q].grant.person}
               c == [request[q] EXCEPT !.at = "revoking", !.seen = live]
    <3>1. request[q] \in Issuing
      BY <2>4, RequestKinds DEF FindEarlier, AccountTypeOK
    <3>2. live \subseteq Nat
      BY GrantOf
    <3> HIDE DEF live
    <3>3. c \in Issuing
      BY <3>1, <3>2 DEF Issuing
    <3>4. c \in Request
      BY <3>3, RequestKinds
    <3>5. request' = [request EXCEPT ![q] = c]
      BY <2>4 DEF FindEarlier, live
    <3> HIDE DEF c
    <3> QED BY <1>5, <2>4, <3>4, <3>5 DEF FindEarlier, AccountTypeOK
  <2>5. ASSUME NEW q \in Requests, IssueToken(q)
        PROVE  AccountTypeOK'
    <3>1. PICK revoked : Issued(q, revoked)
      BY <2>5 DEF IssueToken
    <3>2. token' \in Seq(Token)
      BY <3>1, IssuedTokens
    <3> QED BY <1>6, <3>1, <3>2 DEF Issued, AccountTypeOK, Token
  <2>6. ASSUME NEW q \in Requests, DropRequest(q)
        PROVE  AccountTypeOK'
    BY <1>5, <1>6, <2>6 DEF DropRequest, AccountTypeOK
  <2>7. ASSUME NEW i \in DOMAIN token, ConfirmVerification(i)
        PROVE  AccountTypeOK'
    <3>1. token[i].grant.person \in People
      BY GrantOf
    <3>2. operator' \in [People -> Operator]
      BY <2>7, <3>1, OperatorType DEF ConfirmVerification, AccountTypeOK
    <3> QED BY <1>4, <2>7, <3>2 DEF ConfirmVerification, AccountTypeOK
  <2>8. ASSUME NEW i \in DOMAIN token, ConfirmReset(i)
        PROVE  AccountTypeOK'
    BY <1>4, <2>8 DEF ConfirmReset, AccountTypeOK
  <2>9. ASSUME NEW i \in DOMAIN token, AcceptInvitation(i)
        PROVE  AccountTypeOK'
    <3> DEFINE g == token[i].grant
    <3>1. g \in Grant
      BY GrantOf
    <3>2. [role |-> g.role, verified |-> TRUE, active |-> TRUE, tenant |-> g.tenant] \in Operator
      BY <3>1 DEF Grant, Operator
    <3>3. operator' \in [People -> Operator]
      BY <2>9, <3>2 DEF AcceptInvitation, AccountTypeOK
    <3>4. membership' \in [People -> [Tenants -> Roles \cup {"none"}]]
      <4>1. g.role \in Roles \cup {"none"} /\ g.person \in People
        BY <3>1 DEF Grant
      <4>2. [membership[g.person] EXCEPT ![g.tenant] = g.role] \in [Tenants -> Roles \cup {"none"}]
        BY <4>1 DEF AccountTypeOK
      <4>3. membership' = [membership EXCEPT ![g.person] =
              [membership[g.person] EXCEPT ![g.tenant] = g.role]]
        BY <2>9 DEF AcceptInvitation
      <4> HIDE DEF g
      <4> QED BY <4>2, <4>3 DEF AccountTypeOK
    <3> HIDE DEF g
    <3> QED BY <1>4, <2>9, <3>3, <3>4 DEF AcceptInvitation, AccountTypeOK
  <2>10. ASSUME NEW i \in DOMAIN token, NEW by \in People, RevokeInvitation(by, i)
         PROVE  AccountTypeOK'
    BY <1>4, <2>10 DEF RevokeInvitation, AccountTypeOK
  <2> QED BY <1>2, <1>8, <2>1, <2>2, <2>3, <2>4, <2>5, <2>6, <2>7, <2>8, <2>9, <2>10 DEF TokenStep
<1>9. CASE TenantStep
  <2>1. ASSUME NEW u \in People, NEW t \in Tenants, CreateTenant(u, t)
        PROVE  AccountTypeOK'
    <3>1. operator' \in [People -> Operator]
      BY <2>1, OperatorType DEF CreateTenant, AccountTypeOK
    <3>2. membership' \in [People -> [Tenants -> Roles \cup {"none"}]]
      <4>1. [membership[u] EXCEPT ![t] = "admin"] \in [Tenants -> Roles \cup {"none"}]
        BY DEF AccountTypeOK, Roles
      <4> QED BY <2>1, <4>1 DEF CreateTenant, AccountTypeOK
    <3> QED BY <2>1, <3>1, <3>2 DEF CreateTenant, AccountTypeOK
  <2>2. ASSUME NEW q \in Requests, NEW by \in People, NEW members \in SUBSET People,
               NEW role \in Roles, BeginRoleChange(q, by, members, role)
        PROVE  AccountTypeOK'
    <3> DEFINE c == [at |-> "changing", tenant |-> operator[by].tenant, members |-> members,
                     role |-> role]
    <3>1. operator[by].tenant \in Tenants
      BY <2>2, AdminTenant DEF BeginRoleChange
    <3>2. c \in Changing
      BY <3>1 DEF Changing
    <3>3. c \in Request
      BY <3>2, RequestKinds
    <3> QED BY <1>5, <1>7, <2>2, <3>3 DEF BeginRoleChange
  <2>3. ASSUME NEW q \in Requests, LockMembers(q)
        PROVE  AccountTypeOK'
    <3> DEFINE c == [request[q] EXCEPT !.at = "locked"]
    <3>1. c \in Changing
      BY <2>3, ChangeTypes DEF LockMembers, Changing
    <3>2. c \in Request
      BY <3>1, RequestKinds
    <3>3. \/ request' = [request EXCEPT ![q] = c]
          \/ request' = [request EXCEPT ![q] = Idle]
      BY <2>3 DEF LockMembers
    <3> HIDE DEF c
    <3> QED BY <1>5, <1>6, <2>3, <3>2, <3>3 DEF LockMembers, AccountTypeOK
  <2>4. ASSUME NEW q \in Requests, ChangeRoles(q)
        PROVE  AccountTypeOK'
    <3>1. request[q].tenant \in Tenants /\ request[q].role \in Roles
      BY <2>4, ChangeTypes DEF ChangeRoles
    <3>2. operator' \in [People -> Operator]
      BY <2>4, <3>1, OperatorType DEF ChangeRoles
    <3>3. membership' \in [People -> [Tenants -> Roles \cup {"none"}]]
      <4>1. \A u \in People :
              [membership[u] EXCEPT ![request[q].tenant] = request[q].role]
                \in [Tenants -> Roles \cup {"none"}]
        BY <3>1 DEF AccountTypeOK
      <4> QED BY <2>4, <4>1 DEF ChangeRoles, AccountTypeOK
    <3> QED BY <1>6, <2>4, <3>2, <3>3 DEF ChangeRoles, AccountTypeOK
  <2> QED BY <1>9, <2>1, <2>2, <2>3, <2>4 DEF TenantStep
<1>10. CASE PresetStep
  <2>1. ASSUME NEW by \in People, NEW p \in Presets, SavePreset(by, p) \/ DeletePreset(by, p)
        PROVE  AccountTypeOK'
    BY <2>1 DEF SavePreset, DeletePreset, AccountTypeOK
  <2>2. ASSUME NEW by \in People, NEW p \in Presets, NEW q \in Requests, NEW to \in People,
               BeginTransfer(q, by, to, p)
        PROVE  AccountTypeOK'
    <3>1. [at |-> "transferring", by |-> by, to |-> to, preset |-> p] \in Transferring
      BY DEF Transferring
    <3>2. [at |-> "transferring", by |-> by, to |-> to, preset |-> p] \in Request
      BY <3>1, RequestKinds
    <3> QED BY <1>5, <1>7, <2>2, <3>2 DEF BeginTransfer
  <2>3. ASSUME NEW q \in Requests, TransferPreset(q)
        PROVE  AccountTypeOK'
    <3>1. request[q].by \in People /\ request[q].to \in People /\ request[q].preset \in Presets
      BY <2>3, TransferTypes DEF TransferPreset
    <3>2. preset' \in [Presets -> People \cup {NoOne, Deleted}]
      BY <2>3, <3>1 DEF TransferPreset, Transferred, AccountTypeOK
    <3>3. trail' \in [Presets -> Seq(People \X People)]
      <4>1. Append(trail[request[q].preset], <<request[q].by, request[q].to>>)
              \in Seq(People \X People)
        <5>1. trail[request[q].preset] \in Seq(People \X People)
          BY <3>1 DEF AccountTypeOK
        <5>2. <<request[q].by, request[q].to>> \in People \X People
          BY <3>1
        <5> QED BY <5>1, <5>2, AppendProperties
      <4> QED BY <2>3, <4>1 DEF TransferPreset, Transferred, AccountTypeOK
    <3> QED BY <1>6, <2>3, <3>2, <3>3 DEF TransferPreset, AccountTypeOK
  <2> QED BY <1>10, <2>1, <2>2, <2>3 DEF PresetStep
<1> QED BY <1>1, <1>8, <1>9, <1>10 DEF AccountNext

---------------------------------------------------------------------------
(* The tables that say who belongs to which tenant.                        *)

\* What a grant lets its holder do: an invitation is to a tenant, and a verification
\* is of an account that has signed up.
GrantInv(g) ==
  /\ g.purpose = "invitation" => g.tenant \in Tenants /\ g.role \in Roles
  /\ g.purpose = "verification" => operator[g.person].role # "none"

GrantsInv ==
  /\ \A i \in 1 .. Len(token) : GrantInv(token[i].grant)
  /\ \A q \in Requests : request[q].at \in {"issuing", "revoking"} => GrantInv(request[q].grant)

\* An account that has signed up and has no tenant yet may found one.
Founders ==
  \A u \in People :
    /\ operator[u].verified \/ operator[u].tenant # NoTenant => operator[u].role # "none"
    /\ operator[u].tenant = NoTenant => operator[u].role \in {"none", "admin"}

\* A role change that has locked its members changes members of its tenant.
LockedMembers ==
  \A q \in Requests : request[q].at = "locked" =>
    \A u \in request[q].members :
      /\ operator[u].tenant = request[q].tenant
      /\ membership[u][request[q].tenant] # "none"

MemberInv == GrantsInv /\ Founders /\ LockedMembers /\ MembershipsAgree

\* The agreement for one person and tenant.
AgreesAt(u, t) ==
  /\ membership[u][t] # "none" =>
       /\ operator[u].tenant = t /\ operator[u].role = membership[u][t]
       /\ operator[u].verified /\ operator[u].active
  /\ operator[u].tenant = t /\ u # Bootstrap => membership[u][t] # "none"

\* Accounts only ever gain: a role, a tenant once, and memberships.
AccountsGrow ==
  \A u \in People :
    /\ operator[u].role # "none" => operator'[u].role # "none"
    /\ operator[u].tenant # NoTenant => operator'[u].tenant = operator[u].tenant
    /\ \A t \in Tenants : membership[u][t] # "none" => membership'[u][t] # "none"

\* A token carries what a token or a request has carried before, and so does a
\* request, unless it asks for a grant that is in order.
TokensFrom ==
  \A i \in 1 .. Len(token') :
    \/ \E j \in 1 .. Len(token) : token'[i].grant = token[j].grant
    \/ \E q \in Requests : /\ request[q].at \in {"issuing", "revoking"}
                           /\ token'[i].grant = request[q].grant

Asked(g) ==
  /\ g.purpose = "invitation" => g.tenant \in Tenants /\ g.role \in Roles
  /\ g.purpose = "verification" => operator'[g.person].role # "none"

RequestsFrom ==
  \A q \in Requests : request'[q].at \in {"issuing", "revoking"} =>
    \/ /\ request[q].at \in {"issuing", "revoking"}
       /\ request'[q].grant = request[q].grant
    \/ \E j \in 1 .. Len(token) : request'[q].grant = token[j].grant
    \/ Asked(request'[q].grant)

LEMMA GrantsStep ==
  ASSUME AccountTypeOK, GrantsInv, AccountsGrow, TokensFrom, RequestsFrom
  PROVE  GrantsInv'
<1>1. ASSUME NEW g \in Grant, GrantInv(g) PROVE Asked(g)
  BY <1>1 DEF GrantInv, Asked, AccountsGrow, Grant
<1>2. \A j \in 1 .. Len(token) : token[j].grant \in Grant /\ GrantInv(token[j].grant)
  <2>1. token \in Seq(Token)
    BY DEF AccountTypeOK, Token
  <2>2. \A j \in 1 .. Len(token) : token[j] \in Token
    BY <2>1, ElementOfSeq
  <2>3. \A j \in 1 .. Len(token) : token[j].grant \in Grant
    BY <2>2 DEF Token
  <2> QED BY <2>3 DEF GrantsInv
<1>3. \A q \in Requests : request[q].at \in {"issuing", "revoking"} =>
        request[q].grant \in Grant /\ GrantInv(request[q].grant)
  BY RequestKinds DEF AccountTypeOK, Issuing, GrantsInv
<1>4. \A i \in 1 .. Len(token') : Asked(token'[i].grant)
  BY <1>1, <1>2, <1>3 DEF TokensFrom
<1>5. \A q \in Requests : request'[q].at \in {"issuing", "revoking"} => Asked(request'[q].grant)
  BY <1>1, <1>2, <1>3 DEF RequestsFrom
<1> QED BY <1>4, <1>5 DEF GrantsInv, GrantInv, Asked

LEMMA LockedStep ==
  ASSUME AccountTypeOK, LockedMembers, AccountsGrow,
         \A q \in Requests : request'[q].at = "locked" =>
           \/ request'[q] = request[q]
           \/ \A u \in request'[q].members :
                /\ operator'[u].tenant = request'[q].tenant
                /\ membership'[u][request'[q].tenant] # "none"
  PROVE  LockedMembers'
<1> SUFFICES ASSUME NEW q \in Requests, request'[q].at = "locked", NEW u \in request'[q].members
             PROVE  /\ operator'[u].tenant = request'[q].tenant
                    /\ membership'[u][request'[q].tenant] # "none"
  BY DEF LockedMembers
<1>1. CASE request'[q] = request[q]
  <2>1. /\ operator[u].tenant = request[q].tenant
        /\ membership[u][request[q].tenant] # "none"
    BY <1>1 DEF LockedMembers
  <2>2. request[q].tenant \in Tenants /\ u \in People
    BY <1>1, ChangeTypes
  <2> QED BY <1>1, <2>1, <2>2, AccountAssumption DEF AccountsGrow
<1> QED BY <1>1

\* A step that moves one request and no account.
LEMMA RequestStep ==
  ASSUME AccountTypeOK, MemberInv, UNCHANGED <<operator, membership>>, TokensFrom, RequestsFrom,
         \A q \in Requests : request'[q].at = "locked" =>
           \/ request'[q] = request[q]
           \/ \A u \in request'[q].members :
                /\ operator[u].tenant = request'[q].tenant
                /\ membership[u][request'[q].tenant] # "none"
  PROVE  MemberInv'
<1>1. AccountsGrow
  BY DEF AccountsGrow
<1>2. GrantsInv' /\ LockedMembers'
  BY <1>1, GrantsStep, LockedStep DEF MemberInv
<1>3. Founders' /\ MembershipsAgree'
  BY DEF MemberInv, Founders, MembershipsAgree
<1> QED BY <1>2, <1>3 DEF MemberInv

LEMMA SameRequests == request' = request => RequestsFrom
BY DEF RequestsFrom

LEMMA SameTokens == token' = token => TokensFrom
BY DEF TokensFrom

LEMMA SetTokens ==
  ASSUME AccountTypeOK, NEW i \in DOMAIN token,
         Consumed(i) \/ token' = [token EXCEPT ![i].revoked = TRUE]
  PROVE  TokensFrom
BY TokenSet DEF TokensFrom

LEMMA NewRequest ==
  ASSUME AccountTypeOK, NEW q \in Requests, NEW c \in Request,
         request' = [request EXCEPT ![q] = c],
         c.at \in {"issuing", "revoking"} =>
           \/ request[q].at \in {"issuing", "revoking"} /\ c.grant = request[q].grant
           \/ \E j \in 1 .. Len(token) : c.grant = token[j].grant
           \/ Asked(c.grant)
  PROVE  RequestsFrom
BY RequestType DEF RequestsFrom

LEMMA MemberInvStep ==
  ASSUME AccountTypeOK, MemberInv, [AccountNext]_accountVars PROVE MemberInv'
<1>1. CASE UNCHANGED accountVars
  BY <1>1, RequestStep, SameRequests, SameTokens DEF accountVars
<1>3. ASSUME NEW q \in Requests, NEW c \in Request, request' = [request EXCEPT ![q] = c],
             c.at = "idle" \/ c.at \in {"changing", "transferring"},
             UNCHANGED <<operator, membership>>, TokensFrom
      PROVE  MemberInv'
  <2>1. RequestsFrom
    BY <1>3, NewRequest
  <2> QED BY <1>3, <2>1, RequestType, RequestStep
<1>4. ASSUME NEW q \in Requests, NEW g \in Grant, Issue(q, g),
             Asked(g) \/ \E j \in 1 .. Len(token) : g = token[j].grant,
             UNCHANGED <<operator, membership, token>>
      PROVE  MemberInv'
  <2>1. PICK c \in Request : request' = [request EXCEPT ![q] = c] /\ c.at = "issuing" /\ c.grant = g
    BY <1>4, IssueType
  <2>2. RequestsFrom
    BY <1>4, <2>1, NewRequest
  <2> QED BY <1>4, <2>1, <2>2, RequestType, RequestStep, SameTokens
<1>5. Idle \in Request /\ Idle.at = "idle"
  BY DEF Request, Idle
<1>6. ASSUME NEW q \in Requests, NEW u \in People, SignUp(q, u) PROVE MemberInv'
  <2>1. ~operator[u].verified /\ \A t \in Tenants : membership[u][t] = "none"
    <3>1. ~operator[u].verified
      BY <1>6 DEF SignUp
    <3> QED BY <3>1 DEF MemberInv, MembershipsAgree
  <2>2. /\ operator'[u].role # "none" /\ operator'[u].tenant = operator[u].tenant
        /\ operator'[u].verified = FALSE
        /\ operator[u].tenant = NoTenant => operator'[u].role \in {"none", "admin"}
        /\ \A v \in People \ {u} : operator'[v] = operator[v]
        /\ membership' = membership /\ token' = token
    <3>1. operator[u] \in Operator /\ operator[u].verified = FALSE
      BY <2>1, OperatorType
    <3>2. operator'[u] = IF operator[u].role = "none"
            THEN [role |-> "admin", verified |-> FALSE, active |-> FALSE, tenant |-> NoTenant]
            ELSE [operator[u] EXCEPT !.active = FALSE]
      BY <1>6 DEF SignUp, AccountTypeOK
    <3>3. \A v \in People \ {u} : operator'[v] = operator[v]
      BY <1>6 DEF SignUp, AccountTypeOK
    <3>4. /\ operator[u].tenant = NoTenant => operator[u].role \in {"none", "admin"}
          /\ operator[u].role = "none" => operator[u].tenant = NoTenant
      BY DEF MemberInv, Founders
    <3> QED BY <1>6, <2>1, <3>1, <3>2, <3>3, <3>4 DEF SignUp, Operator
  <2>3. AccountsGrow
    BY <2>1, <2>2 DEF AccountsGrow
  <2>4. Founders' /\ MembershipsAgree'
    BY <2>1, <2>2, AccountAssumption DEF MemberInv, Founders, MembershipsAgree
  <2>5. ForSelf(u, "verification") \in Grant /\ Asked(ForSelf(u, "verification"))
    BY <2>2, GrantTypes DEF Asked, ForSelf
  <2>6. PICK c \in Request : /\ request' = [request EXCEPT ![q] = c]
                             /\ c.at = "issuing" /\ c.grant = ForSelf(u, "verification")
    BY <1>6, <2>5, IssueType DEF SignUp
  <2>7. RequestsFrom
    BY <2>5, <2>6, NewRequest
  <2>8. \A p \in Requests : request'[p].at = "locked" => request'[p] = request[p]
    BY <2>6, RequestType
  <2> QED BY <2>2, <2>3, <2>4, <2>7, <2>8, SameTokens, GrantsStep, LockedStep DEF MemberInv
<1>7. CASE TokenStep
  <2>1. ASSUME NEW q \in Requests, NEW u \in People, ResendVerification(q, u)
        PROVE  MemberInv'
    <3>1. Asked(ForSelf(u, "verification"))
      BY <2>1 DEF ResendVerification, Asked, ForSelf
    <3> QED BY <1>4, <2>1, <3>1, GrantTypes DEF ResendVerification
  <2>2. ASSUME NEW q \in Requests, NEW u \in People, RequestReset(q, u)
        PROVE  MemberInv'
    <3>1. Asked(ForSelf(u, "reset"))
      BY DEF Asked, ForSelf
    <3> QED BY <1>4, <2>2, <3>1, GrantTypes DEF RequestReset
  <2>3. ASSUME NEW q \in Requests, NEW u \in People, NEW by \in People, NEW role \in Roles,
               CreateInvitation(q, by, u, role)
        PROVE  MemberInv'
    <3> DEFINE g == [purpose |-> "invitation", person |-> u, tenant |-> operator[by].tenant,
                     role |-> role]
    <3>1. operator[by].tenant \in Tenants
      BY <2>3, AdminTenant DEF CreateInvitation
    <3>2. g \in Grant /\ Asked(g)
      BY <3>1, GrantTypes DEF Asked
    <3>3. Issue(q, g) /\ UNCHANGED <<operator, membership, token>>
      BY <2>3 DEF CreateInvitation
    <3> HIDE DEF g
    <3>4. PICK h \in Grant : Issue(q, h) /\ Asked(h)
      BY <3>2, <3>3
    <3> QED BY <1>4, <3>3, <3>4
  <2>4. ASSUME NEW q \in Requests, NEW u \in People, NEW i \in DOMAIN token,
               ResendInvitation(q, u, i)
        PROVE  MemberInv'
    <3>1. PICK h \in Grant : Issue(q, h) /\ \E j \in 1 .. Len(token) : h = token[j].grant
      BY <2>4, GrantOf DEF ResendInvitation
    <3> QED BY <1>4, <2>4, <3>1 DEF ResendInvitation
  <2>5. ASSUME NEW q \in Requests, FindEarlier(q)
        PROVE  MemberInv'
    <3>1. request[q] \in Issuing /\ request[q].at = "issuing"
      BY <2>5, RequestKinds DEF FindEarlier, AccountTypeOK
    <3>2. PICK live : request' = [request EXCEPT ![q].at = "revoking", ![q].seen = live]
      BY <2>5 DEF FindEarlier
    <3>3. /\ request'[q].at = "revoking" /\ request'[q].grant = request[q].grant
          /\ \A p \in Requests \ {q} : request'[p] = request[p]
      BY <3>1, <3>2 DEF Issuing, AccountTypeOK
    <3>4. RequestsFrom
      BY <3>1, <3>3 DEF RequestsFrom
    <3>5. \A p \in Requests : request'[p].at = "locked" => request'[p] = request[p]
      BY <3>3
    <3> QED BY <2>5, <3>4, <3>5, SameTokens, RequestStep DEF FindEarlier
  <2>6. ASSUME NEW q \in Requests, IssueToken(q)
        PROVE  MemberInv'
    <3>1. PICK revoked : Issued(q, revoked)
      BY <2>6 DEF IssueToken
    <3>2. TokensFrom
      <4>1. \A i \in 1 .. Len(token) : token'[i].grant = token[i].grant
        BY <3>1, IssuedGrants
      <4>2. Len(token) \in Nat
        BY LenProperties DEF AccountTypeOK
      <4>3. Len(token') = Len(token) + 1 /\ token'[Len(token) + 1].grant = request[q].grant
        BY <3>1, IssuedGrants
      <4>4. request[q].at = "revoking"
        BY <3>1 DEF Issued
      <4> QED BY <4>1, <4>2, <4>3, <4>4 DEF TokensFrom
    <3> QED BY <1>3, <1>5, <3>1, <3>2 DEF Issued
  <2>7. ASSUME NEW q \in Requests, DropRequest(q)
        PROVE  MemberInv'
    BY <1>3, <1>5, <2>7, SameTokens DEF DropRequest
  <2>8. ASSUME NEW i \in DOMAIN token, ConfirmVerification(i)
        PROVE  MemberInv'
    <3>1. PICK u \in People : u = token[i].grant.person
      BY GrantOf
    <3>2. operator[u].role # "none"
      BY <2>8, <3>1, GrantOf DEF ConfirmVerification, MemberInv, GrantsInv, GrantInv
    <3>3. /\ operator'[u] = [operator[u] EXCEPT !.verified = TRUE, !.active = TRUE]
          /\ \A v \in People \ {u} : operator'[v] = operator[v]
          /\ membership' = membership
      BY <2>8, <3>1 DEF ConfirmVerification, AccountTypeOK
    <3>4. /\ operator'[u].role = operator[u].role /\ operator'[u].tenant = operator[u].tenant
          /\ operator'[u].verified /\ operator'[u].active
      BY <3>3, OperatorType DEF Operator
    <3>5. AccountsGrow
      BY <3>3, <3>4 DEF AccountsGrow
    <3>6. Founders'
      <4>1. ASSUME NEW v \in People
            PROVE  /\ operator'[v].verified \/ operator'[v].tenant # NoTenant
                        => operator'[v].role # "none"
                   /\ operator'[v].tenant = NoTenant => operator'[v].role \in {"none", "admin"}
        <5>1. CASE v = u
          BY <3>2, <3>4, <5>1 DEF MemberInv, Founders
        <5>2. CASE v # u
          BY <3>3, <5>2 DEF MemberInv, Founders
        <5> QED BY <5>1, <5>2
      <4> QED BY <4>1 DEF Founders
    <3>7. MembershipsAgree'
      <4>1. ASSUME NEW v \in People, NEW t \in Tenants
            PROVE  AgreesAt(v, t)'
        <5>1. CASE v = u
          <6>1. AgreesAt(u, t)
            BY DEF MemberInv, MembershipsAgree, AgreesAt
          <6> QED BY <3>3, <3>4, <5>1, <6>1 DEF AgreesAt
        <5>2. CASE v # u
          BY <3>3, <5>2 DEF MemberInv, MembershipsAgree, AgreesAt
        <5> QED BY <5>1, <5>2
      <4> QED BY <4>1 DEF MembershipsAgree, AgreesAt
    <3> QED BY <2>8, <3>5, <3>6, <3>7, SetTokens, SameRequests, GrantsStep, LockedStep
            DEF ConfirmVerification, MemberInv
  <2>9. ASSUME NEW i \in DOMAIN token, ConfirmReset(i)
        PROVE  MemberInv'
    BY <2>9, SetTokens, SameRequests, RequestStep DEF ConfirmReset
  <2>10. ASSUME NEW i \in DOMAIN token, AcceptInvitation(i)
         PROVE  MemberInv'
    <3>1. PICK g \in Grant : g = token[i].grant
      BY GrantOf
    <3>2. /\ g.person \in People /\ g.tenant \in Tenants /\ g.role \in Roles
          /\ operator[g.person].tenant \in {NoTenant, g.tenant}
      BY <2>10, <3>1, GrantOf DEF AcceptInvitation, MemberInv, GrantsInv, GrantInv, Grant
    <3>3. /\ operator' = [operator EXCEPT ![g.person] =
               [role |-> g.role, verified |-> TRUE, active |-> TRUE, tenant |-> g.tenant]]
          /\ membership' = [membership EXCEPT ![g.person][g.tenant] = g.role]
      BY <2>10, <3>1 DEF AcceptInvitation
    <3>4. /\ operator'[g.person].role = g.role /\ operator'[g.person].tenant = g.tenant
          /\ operator'[g.person].verified /\ operator'[g.person].active
          /\ \A v \in People \ {g.person} : operator'[v] = operator[v]
      BY <3>2, <3>3 DEF AccountTypeOK
    <3>5. \A v \in People, t \in Tenants :
            membership'[v][t] = IF v = g.person /\ t = g.tenant THEN g.role ELSE membership[v][t]
      BY <3>2, <3>3 DEF AccountTypeOK
    <3>6. g.role # "none" /\ g.tenant # NoTenant
      BY <3>2, AccountAssumption DEF Roles
    <3>7. AccountsGrow
      BY <3>2, <3>4, <3>5, <3>6 DEF AccountsGrow
    <3>8. Founders'
      BY <3>4, <3>6 DEF MemberInv, Founders
    <3>9. MembershipsAgree'
      <4>1. ASSUME NEW v \in People, NEW t \in Tenants
            PROVE  AgreesAt(v, t)'
        <5>1. CASE v # g.person
          BY <3>4, <3>5, <5>1 DEF MemberInv, MembershipsAgree, AgreesAt
        <5>2. CASE v = g.person /\ t = g.tenant
          BY <3>2, <3>4, <3>5, <3>6, <5>2 DEF AgreesAt
        <5>3. CASE v = g.person /\ t # g.tenant
          <6>1. operator[v].tenant # t
            BY <3>2, <5>3, AccountAssumption
          <6> QED BY <3>2, <3>4, <3>5, <5>3, <6>1 DEF MemberInv, MembershipsAgree, AgreesAt
        <5> QED BY <5>1, <5>2, <5>3
      <4> QED BY <4>1 DEF MembershipsAgree, AgreesAt
    <3> QED BY <2>10, <3>7, <3>8, <3>9, SetTokens, SameRequests, GrantsStep, LockedStep
            DEF AcceptInvitation, MemberInv
  <2>11. ASSUME NEW i \in DOMAIN token, NEW by \in People, RevokeInvitation(by, i)
         PROVE  MemberInv'
    BY <2>11, SetTokens, SameRequests, RequestStep DEF RevokeInvitation
  <2> QED BY <1>6, <1>7, <2>1, <2>2, <2>3, <2>4, <2>5, <2>6, <2>7, <2>8, <2>9, <2>10, <2>11
          DEF TokenStep
<1>8. CASE TenantStep
  <2>1. ASSUME NEW u \in People, NEW t \in Tenants, CreateTenant(u, t)
        PROVE  MemberInv'
    <3>1. /\ operator[u].verified /\ operator[u].active /\ operator[u].tenant = NoTenant
          /\ operator[u].role = "admin" /\ t # NoTenant
      <4>1. operator[u].verified /\ operator[u].active /\ operator[u].tenant = NoTenant
        BY <2>1 DEF CreateTenant
      <4> QED BY <4>1, AccountAssumption DEF MemberInv, Founders
    <3>2. /\ operator'[u] = [operator[u] EXCEPT !.tenant = t]
          /\ \A v \in People \ {u} : operator'[v] = operator[v]
          /\ \A v \in People, s \in Tenants :
               membership'[v][s] = IF v = u /\ s = t THEN "admin" ELSE membership[v][s]
      BY <2>1 DEF CreateTenant, AccountTypeOK
    <3>3. /\ operator'[u].tenant = t /\ operator'[u].role = "admin"
          /\ operator'[u].verified /\ operator'[u].active
      BY <3>1, <3>2, OperatorType DEF Operator
    <3>4. AccountsGrow
      <4>1. ASSUME NEW v \in People
            PROVE  /\ operator[v].role # "none" => operator'[v].role # "none"
                   /\ operator[v].tenant # NoTenant => operator'[v].tenant = operator[v].tenant
        <5>1. CASE v = u
          BY <3>1, <3>3, <5>1
        <5>2. CASE v # u
          BY <3>2, <5>2
        <5> QED BY <5>1, <5>2
      <4>2. ASSUME NEW v \in People, NEW s \in Tenants, membership[v][s] # "none"
            PROVE  membership'[v][s] # "none"
        BY <3>2, <4>2
      <4> QED BY <4>1, <4>2 DEF AccountsGrow
    <3>5. Founders'
      BY <3>1, <3>2, <3>3 DEF MemberInv, Founders
    <3>6. MembershipsAgree'
      <4>1. ASSUME NEW v \in People, NEW s \in Tenants
            PROVE  AgreesAt(v, s)'
        <5>1. CASE v # u
          BY <3>2, <5>1 DEF MemberInv, MembershipsAgree, AgreesAt
        <5>2. CASE v = u /\ s = t
          BY <3>2, <3>3, <5>2 DEF AgreesAt
        <5>3. CASE v = u /\ s # t
          <6>1. operator[v].tenant # s
            BY <3>1, <5>3, AccountAssumption
          <6>2. membership[v][s] = "none"
            BY <6>1 DEF MemberInv, MembershipsAgree
          <6> QED BY <3>2, <3>3, <5>3, <6>2 DEF AgreesAt
        <5> QED BY <5>1, <5>2, <5>3
      <4> QED BY <4>1 DEF MembershipsAgree, AgreesAt
    <3> QED BY <2>1, <3>4, <3>5, <3>6, SameTokens, SameRequests, GrantsStep, LockedStep
            DEF CreateTenant, MemberInv
  <2>2. ASSUME NEW q \in Requests, NEW by \in People, NEW members \in SUBSET People,
               NEW role \in Roles, BeginRoleChange(q, by, members, role)
        PROVE  MemberInv'
    <3> DEFINE c == [at |-> "changing", tenant |-> operator[by].tenant, members |-> members,
                     role |-> role]
    <3>1. operator[by].tenant \in Tenants
      BY <2>2, AdminTenant DEF BeginRoleChange
    <3>2. c \in Changing /\ c.at = "changing"
      BY <3>1 DEF Changing
    <3>3. c \in Request
      BY <3>2, RequestKinds
    <3> QED BY <1>3, <2>2, <3>2, <3>3, SameTokens DEF BeginRoleChange
  <2>3. ASSUME NEW q \in Requests, LockMembers(q)
        PROVE  MemberInv'
    <3>1. CASE ~Changeable(request[q])
      BY <1>3, <1>5, <2>3, <3>1, SameTokens DEF LockMembers
    <3>2. CASE Changeable(request[q])
      <4> DEFINE c == [request[q] EXCEPT !.at = "locked"]
      <4>1. request[q] \in Changing
        BY <2>3, ChangeTypes DEF LockMembers
      <4>2. /\ c \in Changing /\ c.at = "locked"
             /\ c.members = request[q].members /\ c.tenant = request[q].tenant
        BY <4>1 DEF Changing
      <4>3. c \in Request
        BY <4>2, RequestKinds
      <4>4. request' = [request EXCEPT ![q] = c]
        BY <2>3, <3>2 DEF LockMembers
      <4>5. \A u \in c.members : operator[u].tenant = c.tenant /\ membership[u][c.tenant] # "none"
        BY <3>2, <4>2 DEF Changeable
      <4> HIDE DEF c
      <4>6. PICK d \in Request : request' = [request EXCEPT ![q] = d] /\ d.at = "locked"
                                 /\ \A u \in d.members :
                                      /\ operator[u].tenant = d.tenant
                                      /\ membership[u][d.tenant] # "none"
        BY <4>2, <4>3, <4>4, <4>5
      <4>7. RequestsFrom
        BY <4>6, NewRequest
      <4> QED BY <2>3, <4>6, <4>7, RequestType, RequestStep, SameTokens DEF LockMembers
    <3> QED BY <3>1, <3>2
  <2>4. ASSUME NEW q \in Requests, ChangeRoles(q)
        PROVE  MemberInv'
    <3>1. PICK c \in Changing : c = request[q] /\ c.at = "locked"
      BY <2>4, ChangeTypes DEF ChangeRoles
    <3>2. /\ c.tenant \in Tenants /\ c.role \in Roles /\ c.members \subseteq People
          /\ c.role # "none" /\ c.tenant # NoTenant
      BY <3>1, AccountAssumption DEF Changing, Roles
    <3>3. \A u \in c.members : operator[u].tenant = c.tenant /\ membership[u][c.tenant] # "none"
      BY <3>1 DEF MemberInv, LockedMembers
    <3>4. \A u \in People :
            /\ operator'[u].tenant = operator[u].tenant
            /\ operator'[u].verified = operator[u].verified
            /\ operator'[u].active = operator[u].active
            /\ operator'[u].role = IF u \in c.members THEN c.role ELSE operator[u].role
      <4>1. \A u \in People : operator'[u] =
              IF u \in c.members THEN [operator[u] EXCEPT !.role = c.role] ELSE operator[u]
        BY <2>4, <3>1 DEF ChangeRoles
      <4> SUFFICES ASSUME NEW u \in People
                   PROVE  /\ operator'[u].tenant = operator[u].tenant
                          /\ operator'[u].verified = operator[u].verified
                          /\ operator'[u].active = operator[u].active
                          /\ operator'[u].role =
                               IF u \in c.members THEN c.role ELSE operator[u].role
        OBVIOUS
      <4>2. CASE u \in c.members
        <5>1. operator'[u] = [operator[u] EXCEPT !.role = c.role]
          BY <4>1, <4>2
        <5>2. operator[u] \in Operator
          BY OperatorType
        <5>3. operator'[u].tenant = operator[u].tenant /\ operator'[u].role = c.role
          BY <5>1, <5>2 DEF Operator
        <5>4. operator'[u].verified = operator[u].verified
          BY <5>1, <5>2 DEF Operator
        <5>5. operator'[u].active = operator[u].active
          BY <5>1, <5>2 DEF Operator
        <5> QED BY <4>2, <5>3, <5>4, <5>5
      <4>3. CASE u \notin c.members
        BY <4>1, <4>3
      <4> QED BY <4>2, <4>3
    <3>5. \A u \in People, t \in Tenants :
            membership'[u][t] = IF u \in c.members /\ t = c.tenant THEN c.role ELSE membership[u][t]
      BY <2>4, <3>1 DEF ChangeRoles, AccountTypeOK
    <3>6. AccountsGrow
      BY <3>2, <3>4, <3>5 DEF AccountsGrow
    <3>7. Founders'
      BY <3>2, <3>3, <3>4 DEF MemberInv, Founders
    <3>8. MembershipsAgree'
      <4>1. ASSUME NEW u \in People, NEW t \in Tenants
            PROVE  AgreesAt(u, t)'
        <5>1. AgreesAt(u, t)
          BY DEF MemberInv, MembershipsAgree, AgreesAt
        <5>2. CASE u \in c.members /\ t = c.tenant
          BY <3>2, <3>3, <3>4, <3>5, <5>1, <5>2 DEF AgreesAt
        <5>3. CASE u \in c.members /\ t # c.tenant
          BY <3>3, <3>4, <3>5, <5>1, <5>3 DEF AgreesAt
        <5>4. CASE u \notin c.members
          BY <3>4, <3>5, <5>1, <5>4 DEF AgreesAt
        <5> QED BY <5>2, <5>3, <5>4
      <4> QED BY <4>1 DEF MembershipsAgree, AgreesAt
    <3>9. request' = [request EXCEPT ![q] = Idle] /\ token' = token
      BY <2>4 DEF ChangeRoles
    <3>10. RequestsFrom
      BY <1>5, <3>9, NewRequest
    <3>11. \A p \in Requests : request'[p].at = "locked" => request'[p] = request[p]
      BY <1>5, <3>9, RequestType
    <3> QED BY <3>6, <3>7, <3>8, <3>9, <3>10, <3>11, SameTokens, GrantsStep, LockedStep
        DEF MemberInv
  <2> QED BY <1>8, <2>1, <2>2, <2>3, <2>4 DEF TenantStep
<1>9. CASE PresetStep
  <2>1. ASSUME NEW by \in People, NEW p \in Presets, SavePreset(by, p) \/ DeletePreset(by, p)
        PROVE  MemberInv'
    BY <2>1, SameTokens, SameRequests, RequestStep DEF SavePreset, DeletePreset
  <2>2. ASSUME NEW by \in People, NEW p \in Presets, NEW q \in Requests, NEW to \in People,
               BeginTransfer(q, by, to, p)
        PROVE  MemberInv'
    <3>1. [at |-> "transferring", by |-> by, to |-> to, preset |-> p] \in Transferring
      BY DEF Transferring
    <3>2. [at |-> "transferring", by |-> by, to |-> to, preset |-> p] \in Request
      BY <3>1, RequestKinds
    <3> QED BY <1>3, <2>2, <3>2, SameTokens DEF BeginTransfer
  <2>3. ASSUME NEW q \in Requests, TransferPreset(q)
        PROVE  MemberInv'
    BY <1>3, <1>5, <2>3, SameTokens DEF TransferPreset
  <2> QED BY <1>9, <2>1, <2>2, <2>3 DEF PresetStep
<1> QED BY <1>1, <1>7, <1>8, <1>9 DEF AccountNext


LEMMA MemberInvInit == AccountInit => MemberInv
<1> SUFFICES ASSUME NEW start \in Starts,
                    operator = [u \in People |->
                      [role |-> IF start[u] # NoTenant THEN "admin" ELSE "none",
                       verified |-> start[u] # NoTenant /\ u # Bootstrap,
                       active |-> start[u] # NoTenant, tenant |-> start[u]]],
                    membership = [u \in People |-> [t \in Tenants |->
                      IF start[u] # NoTenant /\ u # Bootstrap /\ start[u] = t
                        THEN "admin" ELSE "none"]],
                    token = <<>>,
                    request = [q \in Requests |-> Idle]
             PROVE  MemberInv
  BY DEF AccountInit
<1>1. /\ \A q \in Requests : request[q].at = "idle"
      /\ Len(token) = 0
  BY EmptySeq DEF Idle
<1>2. GrantsInv /\ LockedMembers
  BY <1>1 DEF GrantsInv, LockedMembers
<1>3. Founders
  BY DEF Founders
<1>4. MembershipsAgree
  BY AccountAssumption DEF MembershipsAgree
<1> QED BY <1>2, <1>3, <1>4 DEF MemberInv

\* Whoever an organization lists is verified, active and of the same tenant and role in
\* the account, and whoever has a tenant is listed, but for the bootstrap operator,
\* although an account is made by a sign-up or an invitation, confirmed by a mail and
\* promoted by a request that read it before.
THEOREM MembersAgree == AccountSpec => []MembershipsAgree
<1>1. AccountInit => AccountTypeOK /\ MemberInv
  BY AccountTypesInit, MemberInvInit
<1>2. AccountTypeOK /\ MemberInv /\ [AccountNext]_accountVars => (AccountTypeOK /\ MemberInv)'
  BY AccountTypesStep, MemberInvStep
<1>3. MemberInv => MembershipsAgree
  BY DEF MemberInv
<1> QED BY <1>1, <1>2, <1>3, PTL DEF AccountSpec

---------------------------------------------------------------------------
(* The end of a token.                                                     *)

\* What is consumed or revoked was live, and issueToken revokes live tokens only.
LEMMA TokensEndStep ==
  ASSUME AccountTypeOK, TokensEndOnce, [AccountNext]_accountVars PROVE TokensEndOnce'
<1> USE LenProperties
<1>1. token \in Seq(Token) /\ DOMAIN token = 1 .. Len(token) /\ Len(token) \in Nat
  BY DEF AccountTypeOK, Token
<1>2. ASSUME NEW i \in DOMAIN token, Live(i),
             Consumed(i) \/ token' = [token EXCEPT ![i].revoked = TRUE]
      PROVE  TokensEndOnce'
  <2>1. /\ token' \in Seq(Token) /\ Len(token') = Len(token)
        /\ \A j \in 1 .. Len(token) : j # i => token'[j] = token[j]
        /\ i \in 1 .. Len(token) /\ token[i] \in Token
    BY <1>2, TokenSet
  <2>2. DOMAIN token' = 1 .. Len(token)
    BY <2>1
  <2>3. ~(token'[i].consumed /\ token'[i].revoked)
    <3>1. CASE Consumed(i)
      <4>1. token'[i] = [token[i] EXCEPT !.consumed = TRUE]
        BY <1>1, <3>1 DEF Consumed
      <4>2. token'[i].revoked = token[i].revoked
        BY <2>1, <4>1 DEF Token
      <4> QED BY <1>2, <4>2 DEF Live
    <3>2. CASE token' = [token EXCEPT ![i].revoked = TRUE]
      <4>1. token'[i] = [token[i] EXCEPT !.revoked = TRUE]
        BY <1>1, <3>2
      <4>2. token'[i].consumed = token[i].consumed
        BY <2>1, <4>1 DEF Token
      <4> QED BY <1>2, <4>2 DEF Live
    <3> QED BY <1>2, <3>1, <3>2
  <2>4. ASSUME NEW j \in 1 .. Len(token), j # i
        PROVE  ~(token'[j].consumed /\ token'[j].revoked)
    BY <1>1, <2>1, <2>4 DEF TokensEndOnce
  <2> QED BY <2>2, <2>3, <2>4 DEF TokensEndOnce
<1>3. ASSUME NEW q \in Requests, IssueToken(q) PROVE TokensEndOnce'
  <2> DEFINE revoked == {i \in DOMAIN token : Live(i) /\ i \in request[q].seen}
  <2>1. Issued(q, revoked)
    BY <1>3 DEF IssueToken
  <2>2. PICK found : found = revoked
    OBVIOUS
  <2>3. /\ Len(token') = Len(token) + 1
        /\ \A i \in 1 .. Len(token) :
             /\ token'[i].consumed = token[i].consumed
             /\ token'[i].revoked = (token[i].revoked \/ i \in found)
        /\ ~token'[Len(token) + 1].consumed
    BY <2>1, <2>2, IssuedGrants
  <2>4. DOMAIN token' = 1 .. Len(token) + 1
    <3>1. token' \in Seq(Token)
      BY <2>1, <2>2, IssuedTokens
    <3> QED BY <2>3, <3>1
  <2>5. \A i \in found : ~token[i].consumed
    BY <2>2 DEF Live
  <2>6. ASSUME NEW i \in 1 .. Len(token) PROVE ~(token'[i].consumed /\ token'[i].revoked)
    BY <1>1, <2>3, <2>5 DEF TokensEndOnce
  <2> QED BY <1>1, <2>3, <2>4, <2>6 DEF TokensEndOnce
<1>4. CASE UNCHANGED token
  BY <1>4 DEF TokensEndOnce
<1>5. ASSUME NEW i \in DOMAIN token,
             ConfirmVerification(i) \/ ConfirmReset(i) \/ AcceptInvitation(i)
      PROVE  TokensEndOnce'
  BY <1>2, <1>5 DEF ConfirmVerification, ConfirmReset, AcceptInvitation
<1>6. ASSUME NEW i \in DOMAIN token, NEW by \in People, RevokeInvitation(by, i)
      PROVE  TokensEndOnce'
  BY <1>2, <1>6 DEF RevokeInvitation, Pending
<1>7. CASE TenantStep \/ PresetStep
  BY <1>4, <1>7 DEF TenantStep, PresetStep, CreateTenant, BeginRoleChange, LockMembers, ChangeRoles,
       SavePreset, DeletePreset, BeginTransfer, TransferPreset
<1> QED BY <1>3, <1>4, <1>5, <1>6, <1>7
        DEF AccountNext, TokenStep, accountVars, SignUp, ResendVerification, RequestReset,
            CreateInvitation, ResendInvitation, FindEarlier, DropRequest

\* A token that is replaced while its link is opened ends once: the UPDATE that revokes
\* the earlier tokens of issueToken skips those that are consumed by then, and a
\* consumption finds no revoked one.
THEOREM TokensEnd == AccountSpec => []TokensEndOnce
<1>1. AccountInit => AccountTypeOK /\ TokensEndOnce
  <2>1. AccountInit => token = <<>>
    BY DEF AccountInit
  <2> QED BY <2>1, AccountTypesInit DEF TokensEndOnce
<1>2. AccountTypeOK /\ TokensEndOnce /\ [AccountNext]_accountVars
        => (AccountTypeOK /\ TokensEndOnce)'
  BY AccountTypesStep, TokensEndStep
<1> QED BY <1>1, <1>2, PTL DEF AccountSpec

---------------------------------------------------------------------------
(* The audit of a preset.                                                  *)

\* A preset without an owner has never changed hands.
TrailInv == OwnershipTrail /\ \A p \in Presets : preset[p] = NoOne => trail[p] = <<>>

LEMMA TrailInvStep ==
  ASSUME AccountTypeOK, TrailInv, [AccountNext]_accountVars PROVE TrailInv'
<1>1. CASE UNCHANGED <<preset, trail>>
  BY <1>1 DEF TrailInv, OwnershipTrail
<1>2. \A p \in Presets : trail[p] \in Seq(People \X People) /\ Len(trail[p]) \in Nat
  BY LenProperties DEF AccountTypeOK
<1>3. ASSUME NEW by \in People, NEW p \in Presets, SavePreset(by, p) \/ DeletePreset(by, p)
      PROVE  TrailInv'
  <2>1. /\ trail' = trail /\ preset'[p] \in {by, Deleted} /\ preset'[p] # NoOne
        /\ \A r \in Presets \ {p} : preset'[r] = preset[r]
        /\ Len(trail[p]) > 0 => preset'[p] = Deleted
    <3>1. CASE SavePreset(by, p)
      <4>1. trail[p] = <<>>
        BY <3>1 DEF SavePreset, TrailInv
      <4>2. ~(Len(trail[p]) > 0)
        BY <4>1, EmptySeq
      <4> QED BY <3>1, <4>2, AccountAssumption DEF SavePreset, AccountTypeOK
    <3>2. CASE DeletePreset(by, p)
      BY <3>2, AccountAssumption DEF DeletePreset, AccountTypeOK
    <3> QED BY <1>3, <3>1, <3>2
  <2> QED BY <2>1 DEF TrailInv, OwnershipTrail
<1>4. ASSUME NEW q \in Requests, TransferPreset(q), ~UNCHANGED <<preset, trail>>
      PROVE  TrailInv'
  <2> DEFINE p == request[q].preset
             by == request[q].by
             to == request[q].to
             n == Len(trail[p])
  <2>1. p \in Presets /\ by \in People /\ to \in People
    BY <1>4, TransferTypes DEF TransferPreset
  <2>2. /\ preset[p] = by /\ preset' = [preset EXCEPT ![p] = to]
        /\ trail' = [trail EXCEPT ![p] = Append(trail[p], <<by, to>>)]
    BY <1>4 DEF TransferPreset, Transferred
  <2>3. /\ preset'[p] = to /\ trail'[p] = Append(trail[p], <<by, to>>)
        /\ \A r \in Presets \ {p} : preset'[r] = preset[r] /\ trail'[r] = trail[r]
    BY <2>1, <2>2 DEF AccountTypeOK
  <2>4. /\ n \in Nat /\ Len(trail'[p]) = n + 1
        /\ \A k \in 1 .. n : trail'[p][k] = trail[p][k]
        /\ trail'[p][n + 1] = <<by, to>>
    <3>1. trail[p] \in Seq(People \X People) /\ <<by, to>> \in People \X People
      BY <1>2, <2>1
    <3> HIDE DEF p, by, to
    <3> QED BY <1>2, <2>1, <2>3, <3>1, AppendProperties
  <2>5. n > 0 => trail[p][n][2] = by
    BY <2>1, <2>2, AccountAssumption DEF TrailInv, OwnershipTrail
  <2>6. \A k \in 1 .. n - 1 : trail[p][k][2] = trail[p][k + 1][1]
    BY <2>1 DEF TrailInv, OwnershipTrail
  <2> HIDE DEF p, by, to, n
  <2>7. ASSUME NEW k \in 1 .. n PROVE trail'[p][k][2] = trail'[p][k + 1][1]
    <3>1. CASE k = n
      BY <2>4, <2>5, <3>1
    <3>2. CASE k # n
      <4>1. k \in 1 .. n - 1 /\ k + 1 \in 1 .. n
        BY <2>4, <3>2
      <4> QED BY <2>4, <2>6, <4>1
    <3> QED BY <3>1, <3>2
  <2>8. PICK P \in Presets : P = p
    BY <2>1
  <2>9. PICK N \in Nat : N = n
    BY <2>4
  <2>10. /\ \A k \in 1 .. Len(trail'[P]) - 1 : trail'[P][k][2] = trail'[P][k + 1][1]
         /\ preset'[P] = trail'[P][Len(trail'[P])][2] /\ preset'[P] # NoOne
    <3>1. Len(trail'[P]) = N + 1 /\ Len(trail'[P]) - 1 = N
      BY <2>4, <2>8, <2>9
    <3>2. \A k \in 1 .. N : trail'[P][k][2] = trail'[P][k + 1][1]
      BY <2>7, <2>8, <2>9
    <3>3. trail'[P][N + 1] = <<by, to>> /\ preset'[P] = to
      BY <2>3, <2>4, <2>8, <2>9
    <3>4. trail'[P][N + 1][2] = to /\ to # NoOne
      BY <2>1, <3>3, AccountAssumption
    <3> QED BY <3>1, <3>2, <3>3, <3>4
  <2>11. \A r \in Presets : r # P => preset'[r] = preset[r] /\ trail'[r] = trail[r]
    BY <2>3, <2>8
  <2>12. ASSUME NEW r \in Presets
         PROVE  /\ \A k \in 1 .. Len(trail'[r]) - 1 : trail'[r][k][2] = trail'[r][k + 1][1]
                /\ Len(trail'[r]) > 0 => preset'[r] \in {trail'[r][Len(trail'[r])][2], Deleted}
                /\ preset'[r] = NoOne => trail'[r] = <<>>
    <3>1. CASE r = P
      BY <2>10, <3>1
    <3>2. CASE r # P
      <4>1. /\ \A k \in 1 .. Len(trail[r]) - 1 : trail[r][k][2] = trail[r][k + 1][1]
            /\ Len(trail[r]) > 0 => preset[r] \in {trail[r][Len(trail[r])][2], Deleted}
            /\ preset[r] = NoOne => trail[r] = <<>>
        BY DEF TrailInv, OwnershipTrail
      <4>2. preset'[r] = preset[r] /\ trail'[r] = trail[r]
        BY <2>11, <3>2
      <4> QED BY <4>1, <4>2
    <3> QED BY <3>1, <3>2
  <2> QED BY <2>12 DEF TrailInv, OwnershipTrail
<1>5. CASE TokenStep \/ TenantStep
  BY <1>1, <1>5 DEF TokenStep, TenantStep, SignUp, ResendVerification, RequestReset,
       CreateInvitation, ResendInvitation, FindEarlier, IssueToken, Issued, DropRequest,
       ConfirmVerification, ConfirmReset, AcceptInvitation, RevokeInvitation, CreateTenant,
       BeginRoleChange, LockMembers, ChangeRoles
<1>6. CASE PresetStep
  BY <1>1, <1>3, <1>4, <1>6 DEF PresetStep, BeginTransfer
<1> QED BY <1>1, <1>5, <1>6 DEF AccountNext, accountVars

\* Of two transfers begun from the same reading of a preset one takes place: the audit
\* is a chain whose last link is the owner, or the preset is deleted.
THEOREM TrailsChain == AccountSpec => []OwnershipTrail
<1>1. AccountInit => AccountTypeOK /\ TrailInv
  <2>1. AccountInit => \A p \in Presets : trail[p] = <<>>
    BY DEF AccountInit
  <2>2. Len(<<>>) = 0
    BY EmptySeq
  <2> QED BY <2>1, <2>2, AccountTypesInit DEF TrailInv, OwnershipTrail
<1>2. AccountTypeOK /\ TrailInv /\ [AccountNext]_accountVars => (AccountTypeOK /\ TrailInv)'
  BY AccountTypesStep, TrailInvStep
<1>3. TrailInv => OwnershipTrail
  BY DEF TrailInv
<1> QED BY <1>1, <1>2, <1>3, PTL DEF AccountSpec

---------------------------------------------------------------------------
(* The components side by side.  The loyalty accounts and the campaign     *)
(* share the table of keys, so each must stand the steps of the other.     *)

\* A send leaves the open transactions of the other scopes alone, and its own rows
\* are rows of the table.
LEMMA CampaignLeavesClaims == CampaignNext => UNCHANGED claim
BY Zenon DEF CampaignNext, Switch, Move, StartRun, FetchPage, EndPage, ClaimSend, RecordSend,
     MissSend, LeaveSend, Deliver, RefuseSend, BreakSend, MarkSent, CountSend, CompleteSend, NoteFailure, FailSend,
     CrashRun, keyVars

LEMMA LoyaltyStandsKeys ==
  ASSUME LoyaltyTypes, keyRow' \in [Keys -> KeyStatus],
         UNCHANGED <<claim, pointVars, redeemVars, expiring, boardVars, stops>>
  PROVE  LoyaltyTypes'
BY DEF LoyaltyTypes, LoyaltyTypeOK, KeysTypeOK, ClaimsHaveOrders, pointVars, redeemVars, boardVars

LEMMA CampaignStandsKeys ==
  ASSUME CampaignTypes, keyRow' \in [Keys -> KeyStatus], UNCHANGED campaignVars
  PROVE  CampaignTypes'
BY DEF CampaignTypes, CampaignTypeOK, PagesHeld, campaignVars

LEMMA KeySharersStart == MCInit => LoyaltyTypes /\ CampaignTypes
BY LoyaltyTypesInit, SendInvInit DEF MCInit

LEMMA KeySharersStep ==
  LoyaltyTypes /\ CampaignTypes /\ [MCNext]_MCVars => (LoyaltyTypes /\ CampaignTypes)'
<1> SUFFICES ASSUME LoyaltyTypes, CampaignTypes, [MCNext]_MCVars
             PROVE  (LoyaltyTypes /\ CampaignTypes)'
  OBVIOUS
<1>1. CASE [LoyaltyNext]_loyaltyVars /\ UNCHANGED campaignVars
  <2>1. LoyaltyTypes'
    BY <1>1, LoyaltyTypesStep
  <2>2. keyRow' \in [Keys -> KeyStatus]
    BY <2>1 DEF LoyaltyTypes, LoyaltyTypeOK, KeysTypeOK
  <2> QED BY <1>1, <2>1, <2>2, CampaignStandsKeys
<1>2. CASE CampaignNext /\ UNCHANGED <<pointVars, redeemVars, expiring, boardVars, stops>>
  <2>1. CampaignTypes'
    BY <1>2, PagesHeldStep DEF CampaignTypes
  <2>2. keyRow' \in [Keys -> KeyStatus]
    BY <2>1 DEF CampaignTypes, CampaignTypeOK
  <2> QED BY <1>2, <2>1, <2>2, CampaignLeavesClaims, LoyaltyStandsKeys
<1> QED
  BY <1>1, <1>2 DEF MCNext, MCVars, LoyaltyNext, loyaltyVars

LEMMA OthersStart == MCInit => VariantInit /\ AccountInit /\ BridgeInit /\ RentalInit
BY DEF MCInit

LEMMA OthersSteps ==
  [MCNext]_MCVars => /\ [VariantNext]_variantVars /\ [AccountNext]_accountVars
                     /\ [BridgeNext]_bridgeVars /\ [RentalNext]_rentalVars
BY DEF MCNext, MCVars

\* Every reachable state of the composed components is well typed: although awards,
\* redemptions and sends write the one table of keys, every key has a status of the
\* table, every debit and every page is of known users, every share is a percentage, a
\* token or a preset names known people, and a row of the outbox is on file.
THEOREM ServerTypeCorrect == MCSpec => []MCTypeOK
<1>1. LoyaltyTypes /\ CampaignTypes => LoyaltyTypeOK /\ CampaignTypeOK
  BY DEF LoyaltyTypes, CampaignTypes
<1>2. VariantInv => VariantTypeOK
  BY DEF VariantInv
<1>3. RentalInv => RentalTypeOK
  BY DEF RentalInv
<1> QED
  BY <1>1, <1>2, <1>3, KeySharersStart, KeySharersStep, OthersStart, OthersSteps,
     VariantInvInit, VariantInvStep, AccountTypesInit, AccountTypesStep, BridgeAll, BridgeTyped,
     RentalInit_Inv, RentalStep, PTL DEF MCSpec, MCTypeOK
============================================================================
