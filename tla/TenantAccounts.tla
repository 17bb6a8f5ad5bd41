--------------------------- MODULE TenantAccounts ---------------------------
(***************************************************************************)
(* accountLifecycleStore.ts: sign-up, one-time tokens, tenants and their   *)
(* members, role changes and the owners of branding presets.  A            *)
(* transaction whose statements depend only on rows it has locked is one   *)
(* step; a request that decides from rows it read earlier, without a lock, *)
(* is several.  An expired token is one that nobody uses.  Passwords,      *)
(* names, colours and e-mails are left out, and so are accounts that an    *)
(* external identity provider brings.                                      *)
(***************************************************************************)
EXTENDS Integers, Sequences, FiniteSets

CONSTANTS
  People,        \* owners of an e-mail address
  Tenants,       \* tenants, each with its organization
  NoTenant,      \* tenant_id is NULL
  Bootstrap,     \* the owner of BOOTSTRAP_OPERATOR_EMAIL, who may take no part
  NoOne,         \* the owner of a preset that is not saved yet
  Deleted,       \* the owner of a preset that is deleted
  Requests,      \* requests that may overlap
  Presets,       \* branding presets, each of one tenant
  PresetTenant,  \* the tenant of a preset
  Starts,        \* who administers which tenant at the start
  MaxRequests    \* bound: requests begun that read before they write

ASSUME AccountAssumption ==
  /\ NoTenant \notin Tenants /\ {NoOne, Deleted} \cap People = {} /\ NoOne # Deleted
  /\ PresetTenant \in [Presets -> Tenants]
  /\ Starts \subseteq [People -> Tenants \cup {NoTenant}]
  /\ Bootstrap \in People => \A start \in Starts : start[Bootstrap] # NoTenant
  /\ MaxRequests \in Nat

VARIABLES
  operator,    \* operator_credentials, by e-mail
  membership,  \* role in organization_memberships, by tenant
  founded,     \* rows of platform_tenants
  token,       \* account_lifecycle_tokens, oldest first
  request,     \* what each request under way has read
  preset,      \* created_by_operator_id of each preset
  trail,       \* tenant_branding_preset_ownership_audit of each preset
  asked        \* requests begun so far

accountVars ==
  <<operator, membership, founded, token, request, preset, trail, asked>>

Roles == {"admin", "operator"}  \* a viewer is treated like an operator

Operator == [role : Roles \cup {"none"}, verified : BOOLEAN, active : BOOLEAN,
             tenant : Tenants \cup {NoTenant}]

Grant == [purpose : {"verification", "reset", "invitation"}, person : People,
          tenant : Tenants \cup {NoTenant}, role : Roles \cup {"none"}]

Idle == [at |-> "idle"]

Request ==
  {Idle}
  \cup [at : {"issuing", "revoking"}, grant : Grant, seen : SUBSET Nat]
  \cup [at : {"changing", "locked"}, tenant : Tenants, members : SUBSET People, role : Roles]
  \cup [at : {"transferring"}, by : People, to : People, preset : Presets]

AccountTypeOK ==
  /\ operator \in [People -> Operator]
  /\ membership \in [People -> [Tenants -> Roles \cup {"none"}]]
  /\ founded \subseteq Tenants
  /\ token \in Seq([grant : Grant, consumed : BOOLEAN, revoked : BOOLEAN])
  /\ request \in [Requests -> Request]
  /\ preset \in [Presets -> People \cup {NoOne, Deleted}]
  /\ trail \in [Presets -> Seq(People \X People)]
  /\ asked \in 0 .. MaxRequests

\* ensureOperatorAuthStore inserts the bootstrap operator with BOOTSTRAP_TENANT_ID,
\* active, but with no verified address, no membership and no row of platform_tenants.
\* The other administrators have founded their tenants.
AccountInit ==
  \E start \in Starts :
    LET Admin(u) == start[u] # NoTenant
        Member(u) == Admin(u) /\ u # Bootstrap
    IN
    /\ operator = [u \in People |->
         [role |-> IF Admin(u) THEN "admin" ELSE "none",
          verified |-> Member(u), active |-> Admin(u), tenant |-> start[u]]]
    /\ membership = [u \in People |-> [t \in Tenants |->
         IF Member(u) /\ start[u] = t THEN "admin" ELSE "none"]]
    /\ founded = {start[u] : u \in People \ {Bootstrap}} \ {NoTenant}
    /\ token = <<>>
    /\ request = [q \in Requests |-> Idle]
    /\ preset = [p \in Presets |-> NoOne]
    /\ trail = [p \in Presets |-> <<>>]
    /\ asked = 0

---------------------------------------------------------------------------
\* getTenantAdminContext: a tenant without a row of its own has no administrator.
IsAdmin(u) ==
  operator[u].active /\ operator[u].role = "admin" /\ operator[u].tenant \in founded

Live(i) == ~token[i].consumed /\ ~token[i].revoked
Consumed(i) == token' = [token EXCEPT ![i].consumed = TRUE]

Begin(q) ==
  /\ request[q] = Idle
  /\ asked < MaxRequests
  /\ asked' = asked + 1

Issue(q, grant) ==
  /\ Begin(q)
  /\ request' = [request EXCEPT ![q] = [at |-> "issuing", grant |-> grant, seen |-> {}]]

ForSelf(u, purpose) ==
  [purpose |-> purpose, person |-> u, tenant |-> NoTenant, role |-> "none"]

\* beginSignup commits the account before it asks for a token.  A verified account
\* is left alone.
SignUp(q, u) ==
  /\ ~operator[u].verified
  /\ operator' = [operator EXCEPT ![u] =
       IF @.role = "none"
         THEN [role |-> "admin", verified |-> FALSE, active |-> FALSE, tenant |-> NoTenant]
         ELSE [@ EXCEPT !.active = FALSE]]
  /\ Issue(q, ForSelf(u, "verification"))
  /\ UNCHANGED <<membership, founded, token, preset, trail>>

ResendVerification(q, u) ==
  /\ operator[u].role # "none" /\ ~operator[u].verified
  /\ Issue(q, ForSelf(u, "verification"))
  /\ UNCHANGED <<operator, membership, founded, token, preset, trail>>

RequestReset(q, u) ==
  /\ operator[u].verified /\ operator[u].active
  /\ Issue(q, ForSelf(u, "reset"))
  /\ UNCHANGED <<operator, membership, founded, token, preset, trail>>

CreateInvitation(q, by, u, role) ==
  /\ IsAdmin(by)
  /\ Issue(q, [purpose |-> "invitation", person |-> u,
               tenant |-> operator[by].tenant, role |-> role])
  /\ UNCHANGED <<operator, membership, founded, token, preset, trail>>

Pending(i, t) ==
  /\ token[i].grant.purpose = "invitation" /\ token[i].grant.tenant = t
  /\ Live(i)

ResendInvitation(q, by, i) ==
  /\ IsAdmin(by) /\ Pending(i, operator[by].tenant)
  /\ Issue(q, token[i].grant)
  /\ UNCHANGED <<operator, membership, founded, token, preset, trail>>

RevokeInvitation(by, i) ==
  /\ IsAdmin(by) /\ Pending(i, operator[by].tenant)
  /\ token' = [token EXCEPT ![i].revoked = TRUE]
  /\ UNCHANGED <<operator, membership, founded, request, preset, trail, asked>>

\* issueToken revokes the live tokens of the purpose and the address, of whatever
\* tenant.  Its UPDATE finds the rows there are when it starts ...
FindEarlier(q) ==
  /\ request[q].at = "issuing"
  /\ request' = [request EXCEPT ![q].at = "revoking",
       ![q].seen = {i \in DOMAIN token : /\ Live(i)
                                         /\ token[i].grant.purpose = request[q].grant.purpose
                                         /\ token[i].grant.person = request[q].grant.person}]
  /\ UNCHANGED <<operator, membership, founded, token, preset, trail, asked>>

Issued(q, revoked) ==
  /\ request[q].at = "revoking"
  /\ token' = Append(
       [i \in DOMAIN token |-> [token[i] EXCEPT !.revoked = @ \/ i \in revoked]],
       [grant |-> request[q].grant, consumed |-> FALSE, revoked |-> FALSE])
  /\ request' = [request EXCEPT ![q] = Idle]
  /\ UNCHANGED <<operator, membership, founded, preset, trail, asked>>

\* Mistake: a token that was found is revoked whatever has become of it.
IssueTokenUnchecked(q) == Issued(q, IF request[q] = Idle THEN {} ELSE request[q].seen)

\* ... waits for those that another transaction works on, and skips what is consumed
\* by then.  Of two requests at once neither sees the other's token.
IssueToken(q) == Issued(q, {i \in DOMAIN token : Live(i) /\ i \in request[q].seen})

---------------------------------------------------------------------------
\* consumeToken and what it lets happen commit together.
ConfirmVerification(i) ==
  LET u == token[i].grant.person IN
  /\ Live(i) /\ token[i].grant.purpose = "verification"
  /\ Consumed(i)
  /\ operator' = [operator EXCEPT ![u].verified = TRUE, ![u].active = TRUE]
  /\ UNCHANGED <<membership, founded, request, preset, trail, asked>>

ConfirmReset(i) ==
  /\ Live(i) /\ token[i].grant.purpose = "reset"
  /\ Consumed(i)
  /\ UNCHANGED <<operator, membership, founded, request, preset, trail, asked>>

\* Mistake: a member of another tenant is let in.
AcceptFromAnyTenant(i) ==
  LET g == token[i].grant IN
  /\ Live(i) /\ g.purpose = "invitation"
  /\ Consumed(i)
  /\ operator' = [operator EXCEPT ![g.person] =
       [role |-> g.role, verified |-> TRUE, active |-> TRUE, tenant |-> g.tenant]]
  /\ membership' = [membership EXCEPT ![g.person][g.tenant] = g.role]
  /\ UNCHANGED <<founded, request, preset, trail, asked>>

\* acceptInvitation waits for the lock of the account, which a role change may hold.
Unlocked(u) ==
  \A q \in Requests : request[q].at = "locked" => u \notin request[q].members

AcceptInvitation(i) ==
  LET g == token[i].grant IN
  /\ Live(i) /\ g.purpose = "invitation"
  /\ Unlocked(g.person)
  /\ operator[g.person].tenant \in {NoTenant, g.tenant}
  /\ Consumed(i)
  /\ operator' = [operator EXCEPT ![g.person] =
       [role |-> g.role, verified |-> TRUE, active |-> TRUE, tenant |-> g.tenant]]
  /\ membership' = [membership EXCEPT ![g.person][g.tenant] = g.role]
  /\ UNCHANGED <<founded, request, preset, trail, asked>>

\* createOrganizationAndTenant: the slug is taken once.
CreateTenant(u, t) ==
  /\ operator[u].verified /\ operator[u].active /\ operator[u].tenant = NoTenant
  /\ t \notin founded
  /\ founded' = founded \cup {t}
  /\ operator' = [operator EXCEPT ![u].tenant = t]
  /\ membership' = [membership EXCEPT ![u][t] = "admin"]
  /\ UNCHANGED <<token, request, preset, trail, asked>>

---------------------------------------------------------------------------
\* bulkChangeMemberRoles: the administrator is checked before the transaction ...
BeginRoleChange(q, by, members, role) ==
  /\ Begin(q)
  /\ IsAdmin(by) /\ members # {} /\ by \notin members
  /\ request' = [request EXCEPT ![q] =
       [at |-> "changing", tenant |-> operator[by].tenant, members |-> members, role |-> role]]
  /\ UNCHANGED <<operator, membership, founded, token, preset, trail>>

Admins(t) ==
  {u \in People : operator[u].tenant = t /\ operator[u].active /\ operator[u].role = "admin"}

Changeable(c) ==
  /\ \A u \in c.members :
       operator[u].tenant = c.tenant /\ operator[u].active /\ membership[u][c.tenant] # "none"
  /\ c.role # "admin" /\ c.members \cap Admins(c.tenant) # {}
       => Cardinality(Admins(c.tenant)) > Cardinality(c.members \cap Admins(c.tenant))

\* ... which locks the members whose role changes, and counts the administrators of
\* the tenant without locking them.
LockMembers(q) ==
  /\ request[q].at = "changing"
  /\ \A u \in request[q].members : Unlocked(u)
  /\ request' = [request EXCEPT ![q] = IF Changeable(request[q])
                                         THEN [request[q] EXCEPT !.at = "locked"] ELSE Idle]
  /\ UNCHANGED <<operator, membership, founded, token, preset, trail, asked>>

ChangeRoles(q) ==
  LET c == request[q] IN
  /\ c.at = "locked"
  /\ operator' = [u \in People |->
       IF u \in c.members THEN [operator[u] EXCEPT !.role = c.role] ELSE operator[u]]
  /\ membership' = [u \in People |->
       IF u \in c.members THEN [membership[u] EXCEPT ![c.tenant] = c.role] ELSE membership[u]]
  /\ request' = [request EXCEPT ![q] = Idle]
  /\ UNCHANGED <<founded, token, preset, trail, asked>>

---------------------------------------------------------------------------
SavePreset(by, p) ==
  /\ IsAdmin(by) /\ operator[by].tenant = PresetTenant[p]
  /\ preset[p] = NoOne
  /\ preset' = [preset EXCEPT ![p] = by]
  /\ UNCHANGED <<operator, membership, founded, token, request, trail, asked>>

DeletePreset(by, p) ==
  /\ IsAdmin(by) /\ preset[p] = by
  /\ preset' = [preset EXCEPT ![p] = Deleted]
  /\ UNCHANGED <<operator, membership, founded, token, request, trail, asked>>

\* transferTenantBrandingPresetOwnership finds the recipient first.
BeginTransfer(q, by, to, p) ==
  /\ Begin(q)
  /\ IsAdmin(by) /\ operator[by].tenant = PresetTenant[p]
  /\ to \in Admins(operator[by].tenant) \ {by}
  /\ request' = [request EXCEPT ![q] =
       [at |-> "transferring", by |-> by, to |-> to, preset |-> p]]
  /\ UNCHANGED <<operator, membership, founded, token, preset, trail>>

Transferred(q) ==
  LET p == request[q].preset IN
  /\ preset' = [preset EXCEPT ![p] = request[q].to]
  /\ trail' = [trail EXCEPT ![p] = Append(@, <<request[q].by, request[q].to>>)]

\* Mistake: the preset is taken from whoever owns it by now.
TransferPresetUnfenced(q) ==
  /\ request[q].at = "transferring"
  /\ IF preset[request[q].preset] # Deleted
       THEN Transferred(q) ELSE UNCHANGED <<preset, trail>>
  /\ request' = [request EXCEPT ![q] = Idle]
  /\ UNCHANGED <<operator, membership, founded, token, asked>>

TransferPreset(q) ==
  /\ request[q].at = "transferring"
  /\ IF preset[request[q].preset] = request[q].by
       THEN Transferred(q) ELSE UNCHANGED <<preset, trail>>
  /\ request' = [request EXCEPT ![q] = Idle]
  /\ UNCHANGED <<operator, membership, founded, token, asked>>

\* The request fails or its process stops: an open transaction is rolled back.
DropRequest(q) ==
  /\ request[q] # Idle
  /\ request' = [request EXCEPT ![q] = Idle]
  /\ UNCHANGED <<operator, membership, founded, token, preset, trail, asked>>

---------------------------------------------------------------------------
TokenStep ==
  \/ \E q \in Requests, u \in People :
       \/ SignUp(q, u) \/ ResendVerification(q, u) \/ RequestReset(q, u)
       \/ \E by \in People, role \in Roles : CreateInvitation(q, by, u, role)
       \/ \E i \in DOMAIN token : ResendInvitation(q, u, i)
  \/ \E q \in Requests : FindEarlier(q) \/ IssueToken(q) \/ DropRequest(q)
  \/ \E i \in DOMAIN token :
       \/ ConfirmVerification(i) \/ ConfirmReset(i) \/ AcceptInvitation(i)
       \/ \E by \in People : RevokeInvitation(by, i)

TenantStep ==
  \/ \E u \in People, t \in Tenants : CreateTenant(u, t)
  \/ \E q \in Requests :
       \/ \E by \in People, members \in SUBSET People, role \in Roles :
            BeginRoleChange(q, by, members, role)
       \/ LockMembers(q) \/ ChangeRoles(q)

PresetStep ==
  \/ \E by \in People, p \in Presets :
       \/ SavePreset(by, p) \/ DeletePreset(by, p)
       \/ \E q \in Requests, to \in People : BeginTransfer(q, by, to, p)
  \/ \E q \in Requests : TransferPreset(q)

AccountNext == TokenStep \/ TenantStep \/ PresetStep

AccountSpec == AccountInit /\ [][AccountNext]_accountVars

---------------------------------------------------------------------------
\* A member of an organization has its tenant, the same role in the two tables that
\* hold it, a verified and active account, and no other organization; and whoever has
\* a tenant is a member, but for the bootstrap operator.  Invitations to several
\* tenants, sign-ups and role changes of the same person may interleave.
MembershipsAgree ==
  \A u \in People, t \in Tenants :
    /\ membership[u][t] # "none" =>
         /\ operator[u].tenant = t /\ operator[u].role = membership[u][t]
         /\ operator[u].verified /\ operator[u].active
    /\ operator[u].tenant = t /\ u # Bootstrap => membership[u][t] # "none"

\* A token that is replaced while its link is opened is either used or revoked.
TokensEndOnce == \A i \in DOMAIN token : ~(token[i].consumed /\ token[i].revoked)

\* The audit of a preset is a chain that ends at its owner: of two transfers begun
\* from the same reading one takes place.
OwnershipTrail ==
  \A p \in Presets :
    LET n == Len(trail[p]) IN
    /\ \A k \in 1 .. n - 1 : trail[p][k][2] = trail[p][k + 1][1]
    /\ n > 0 => preset[p] \in {trail[p][n][2], Deleted}

\* A tenant keeps an administrator, which is what the refusal
\* last_tenant_admin_role_change_not_allowed is for.  Two administrators who change
\* the role of each other at once leave none.
AnAdminRemains == \A t \in founded : Admins(t) # {}
============================================================================
