----------------------------- MODULE Membership -----------------------------
(***************************************************************************)
(* Who belongs to an organisation and how they got there: the second half  *)
(* of identity/service.py.                                                 *)
(*                                                                         *)
(* A person is one account with one address, so an invitation is addressed *)
(* to a person.  (tenant_id, subject) is unique and every path writes the  *)
(* account's id as the subject: a person has at most one row per           *)
(* organisation, which a removal deactivates and keeps.  Nothing in the    *)
(* repository but its tests calls these functions, and those one at a      *)
(* time: an action is a call.                                              *)
(***************************************************************************)
EXTENDS People, FiniteSets, Naturals

CONSTANTS
    Invitations,
    Roles,          \* "owner" among them
    Claim,          \* the active organisation that claims a person's domain
    AutoJoin,       \* the people whose domain is verified and admits them
    LateAnswers     \* whether members still accept the invitations they hold

ASSUME MembershipAssumption ==
    /\ {"owner", "viewer"} \subseteq Roles
    /\ Claim \in [Users -> Tenants \cup {NoTenant}]
    /\ AutoJoin \subseteq Users
    /\ LateAnswers \in BOOLEAN
    /\ IsFiniteSet(Users)

VARIABLES
    rows,           \* the people with a row in each organisation
    active,         \* those of them who are members
    role,           \* what the row says
    created,        \* the organisations there are
    requests,       \* join requests
    offer,          \* what each invitation says
    answer          \* what became of it

memberVars == <<rows, active, role, created, requests, offer, answer>>

Offer == [tenant: Tenants, email: Users, role: Roles]
Answers == {"unsent", "pending", "accepted", "revoked", "expired"}

MembersTypeOK ==
    /\ rows \in [Tenants -> SUBSET Users]
    /\ active \in [Tenants -> SUBSET Users]
    /\ \A t \in Tenants : active[t] \subseteq rows[t]
    /\ role \in [Tenants -> [Users -> Roles]]
    /\ created \in SUBSET Tenants
    /\ \A t \in Tenants : rows[t] # {} => t \in created
    /\ requests \in SUBSET (Tenants \X Users)
    /\ offer \in [Invitations -> Offer]
    /\ answer \in [Invitations -> Answers]
    /\ \A i \in Invitations : answer[i] # "unsent" => offer[i].tenant \in created

MembersInit ==
    /\ rows = [t \in Tenants |-> {}]
    /\ active = [t \in Tenants |-> {}]
    /\ role = [t \in Tenants |-> [u \in Users |-> "viewer"]]
    /\ created = {}
    /\ requests = {}
    /\ offer = [i \in Invitations |-> CHOOSE o \in Offer : TRUE]
    /\ answer = [i \in Invitations |-> "unsent"]

-----------------------------------------------------------------------------
Owners(t) == {u \in active[t] : role[t][u] = "owner"}
MembershipsFor(u) == {t \in Tenants : u \in active[t]}

\* A row that makes u a member of t as r, a new one or the old one again.
Enter(t, u, r) ==
    /\ rows' = [rows EXCEPT ![t] = @ \cup {u}]
    /\ active' = [active EXCEPT ![t] = @ \cup {u}]
    /\ role' = [role EXCEPT ![t][u] = r]

CreateOrganisation(t, u) ==
    /\ t \notin created
    /\ created' = created \cup {t}
    /\ Enter(t, u, "owner")
    /\ UNCHANGED <<requests, offer, answer>>

\* signup_destination for somebody who is a member nowhere: a verified domain
\* admits, an unverified one asks.  For a person who was removed the INSERT
\* meets their old row and fails, and nothing is changed.
SignUp(u) ==
    /\ MembershipsFor(u) = {}
    /\ Claim[u] \in created
    /\ LET t == Claim[u] IN
        IF u \in AutoJoin
        THEN u \notin rows[t] /\ Enter(t, u, "viewer") /\ UNCHANGED requests
        ELSE requests' = requests \cup {<<t, u>>} /\ UNCHANGED <<rows, active, role>>
    /\ UNCHANGED <<created, offer, answer>>

\* (mutant) owners who have left count
LastOwnerOfAll(t, u) == role[t][u] = "owner" /\ Cardinality({v \in rows[t] : role[t][v] = "owner"}) <= 1

\* The row need not be active for the refusal, but only members are counted.
LastOwner(t, u) == role[t][u] = "owner" /\ Cardinality(Owners(t)) <= 1

RemoveMember(t, u) ==
    /\ u \in rows[t]
    /\ ~LastOwner(t, u)
    /\ active' = [active EXCEPT ![t] = @ \ {u}]
    /\ UNCHANGED <<rows, role, created, requests, offer, answer>>

ChangeRole(t, u, r) ==
    /\ u \in rows[t]
    /\ r # "owner" => ~LastOwner(t, u)
    /\ role' = [role EXCEPT ![t][u] = r]
    /\ UNCHANGED <<rows, active, created, requests, offer, answer>>

-----------------------------------------------------------------------------
\* Live invitations to the same address and organisation are withdrawn; one
\* that has expired is withdrawn as well, and was dead already.
Superseded(t, u) ==
    {i \in Invitations : /\ answer[i] \in {"pending", "expired"}
                         /\ offer[i].tenant = t /\ offer[i].email = u}

Invite(t, u, r, i) ==
    /\ t \in created
    /\ u \notin active[t]
    /\ answer[i] = "unsent"
    /\ offer' = [offer EXCEPT ![i] = [tenant |-> t, email |-> u, role |-> r]]
    /\ answer' = [j \in Invitations |->
                    IF j = i THEN "pending"
                    ELSE IF j \in Superseded(t, u) THEN "revoked" ELSE answer[j]]
    /\ UNCHANGED <<rows, active, role, created, requests>>

\* Membership is looked at when the invitation is sent, not here: whoever has
\* become a member some other way is given the invited role instead of theirs.
AcceptInvitation(i) ==
    LET o == offer[i] IN
    /\ answer[i] = "pending"
    /\ o.email \in active[o.tenant] => LateAnswers
    /\ Enter(o.tenant, o.email, o.role)
    /\ answer' = [answer EXCEPT ![i] = "accepted"]
    /\ UNCHANGED <<created, requests, offer>>

\* Seven days have passed.
Expire(i) ==
    /\ answer[i] = "pending"
    /\ answer' = [answer EXCEPT ![i] = "expired"]
    /\ UNCHANGED <<rows, active, role, created, requests, offer>>

-----------------------------------------------------------------------------
\* Every organisation has somebody who can administer it: whatever order
\* removals, role changes, sign-ups and invitations come in, the last owner
\* neither leaves nor stops being one.
OwnerRemains == \A t \in created : Owners(t) # {}
=============================================================================
