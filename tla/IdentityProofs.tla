--------------------------- MODULE IdentityProofs ---------------------------
(***************************************************************************)
(* Theorems about Identity, for any people, organisations, invitations and *)
(* tokens: types, that families of sessions end as a whole, that whoever   *)
(* is removed is out, and that an organisation keeps an owner as long as   *)
(* no member answers an old invitation.                                    *)
(***************************************************************************)
EXTENDS Identity, FiniteSetTheorems, TLAPS

-----------------------------------------------------------------------------
(* Types.                                                                    *)

LEMMA InitTypes == Init => TypeOK
<1> SUFFICES ASSUME Init PROVE TypeOK
  OBVIOUS
<1>1. (CHOOSE o \in Offer : TRUE) \in Offer
  <2>1. \E o \in Offer : TRUE
    <3>1. PICK t \in Tenants, u \in Users : TRUE
      BY PeopleAssumption
    <3>2. [tenant |-> t, email |-> u, role |-> "viewer"] \in Offer
      BY MembershipAssumption DEF Offer
    <3> QED BY <3>2
  <2> QED BY <2>1
<1>2. (CHOOSE u \in Users : TRUE) \in Users
  BY PeopleAssumption
<1>3. MembersTypeOK
  BY <1>1, MembershipAssumption DEF Init, MembersInit, MembersTypeOK, Answers
<1>4. SessionsTypeOK
  BY <1>2 DEF Init, SessionsInit, SessionsTypeOK, Session
<1> QED BY <1>3, <1>4 DEF TypeOK

LEMMA EnterTypes ==
  ASSUME MembersTypeOK, NEW t \in Tenants, NEW u \in Users, NEW r \in Roles, Enter(t, u, r)
  PROVE  /\ rows' \in [Tenants -> SUBSET Users]
         /\ active' \in [Tenants -> SUBSET Users]
         /\ \A o \in Tenants : active'[o] \subseteq rows'[o]
         /\ \A o \in Tenants : rows'[o] # {} => rows[o] # {} \/ o = t
         /\ role' \in [Tenants -> [Users -> Roles]]
  BY DEF Enter, MembersTypeOK

\* What may happen to the memberships alone.
MemberStep ==
    \/ \E t \in Tenants, u \in Users : CreateOrganisation(t, u)
    \/ \E u \in Users : SignUp(u)
    \/ \E t \in Tenants, u \in Users : RemoveMember(t, u)
    \/ \E t \in Tenants, u \in Users, r \in Roles : ChangeRole(t, u, r)
    \/ \E t \in Tenants, u \in Users, r \in Roles, i \in Invitations : Invite(t, u, r, i)
    \/ \E i \in Invitations : AcceptInvitation(i) \/ Expire(i)
    \/ UNCHANGED memberVars

\* And to the sessions alone.
SessionStep ==
    \/ \E s \in Tokens, u \in Users, t \in Tenants \cup {NoTenant} : Issue(s, u, t)
    \/ \E s, new \in Tokens : Rotate(s, new)
    \/ \E s \in Tokens : Reuse(s) \/ Revoke(s) \/ Lapse(s)
    \/ \E u \in Users, keep \in Tokens : RevokeAllForUser(u, keep)
    \/ \E t \in Tenants, u \in Users : RevokeForMembership(u, t)
    \/ UNCHANGED sessionVars

LEMMA StepOfBoth == [Next]_vars => MemberStep /\ SessionStep
  BY DEF Next, vars, Belonging, Refreshing, SignIn, Remove, ChangePassword, MemberStep, SessionStep

LEMMA MemberTypes == ASSUME MembersTypeOK, MemberStep PROVE MembersTypeOK'
<1>1. ASSUME NEW t \in Tenants, NEW u \in Users, CreateOrganisation(t, u) PROVE MembersTypeOK'
  BY <1>1, EnterTypes, MembershipAssumption DEF CreateOrganisation, MembersTypeOK
<1>2. ASSUME NEW u \in Users, SignUp(u) PROVE MembersTypeOK'
  <2>1. Claim[u] \in Tenants
    BY <1>2 DEF SignUp, MembersTypeOK
  <2>2. CASE u \in AutoJoin
    BY <1>2, <2>1, <2>2, EnterTypes, MembershipAssumption DEF SignUp, MembersTypeOK
  <2>3. CASE u \notin AutoJoin
    BY <1>2, <2>1, <2>3 DEF SignUp, MembersTypeOK
  <2> QED BY <2>2, <2>3
<1>3. ASSUME NEW t \in Tenants, NEW u \in Users, RemoveMember(t, u) PROVE MembersTypeOK'
  BY <1>3 DEF RemoveMember, MembersTypeOK
<1>4. ASSUME NEW t \in Tenants, NEW u \in Users, NEW r \in Roles, ChangeRole(t, u, r)
      PROVE  MembersTypeOK'
  BY <1>4 DEF ChangeRole, MembersTypeOK
<1>5. ASSUME NEW t \in Tenants, NEW u \in Users, NEW r \in Roles, NEW i \in Invitations,
             Invite(t, u, r, i)
      PROVE  MembersTypeOK'
  <2>1. offer' \in [Invitations -> Offer] /\ answer' \in [Invitations -> Answers]
    BY <1>5 DEF Invite, MembersTypeOK, Offer, Answers
  <2>2. \A j \in Invitations : answer'[j] # "unsent" => offer'[j].tenant \in created'
    BY <1>5 DEF Invite, MembersTypeOK, Superseded
  <2> QED BY <1>5, <2>1, <2>2 DEF Invite, MembersTypeOK
<1>6. ASSUME NEW i \in Invitations, AcceptInvitation(i) PROVE MembersTypeOK'
  <2>1. /\ offer[i].tenant \in Tenants /\ offer[i].email \in Users /\ offer[i].role \in Roles
        /\ offer[i].tenant \in created
    BY <1>6 DEF AcceptInvitation, MembersTypeOK, Offer
  <2> QED BY <1>6, <2>1, EnterTypes DEF AcceptInvitation, MembersTypeOK, Answers
<1>7. ASSUME NEW i \in Invitations, Expire(i) PROVE MembersTypeOK'
  BY <1>7 DEF Expire, MembersTypeOK, Answers
<1>8. CASE UNCHANGED memberVars
  BY <1>8 DEF memberVars, MembersTypeOK
<1> QED BY <1>1, <1>2, <1>3, <1>4, <1>5, <1>6, <1>7, <1>8 DEF MemberStep

LEMMA RevokingTypes ==
  ASSUME SessionsTypeOK, NEW S \in SUBSET issued, RevokeRows(S)
  PROVE  SessionsTypeOK'
  BY DEF RevokeRows, SessionsTypeOK

LEMMA SessionTypes == ASSUME SessionsTypeOK, SessionStep PROVE SessionsTypeOK'
<1>1. ASSUME NEW s \in Tokens, NEW u \in Users, NEW t \in Tenants \cup {NoTenant}, Issue(s, u, t)
      PROVE  SessionsTypeOK'
  BY <1>1 DEF Issue, Issued, SessionsTypeOK, Session
<1>2. ASSUME NEW s \in Tokens, NEW new \in Tokens, Rotate(s, new) PROVE SessionsTypeOK'
  BY <1>2 DEF Rotate, Issued, SessionsTypeOK, Session
<1>3. ASSUME NEW s \in Tokens, Reuse(s) \/ Revoke(s) PROVE SessionsTypeOK'
  BY <1>3, RevokingTypes DEF Reuse, Revoke, Ended, Family
<1>4. ASSUME NEW s \in Tokens, Lapse(s) PROVE SessionsTypeOK'
  BY <1>4 DEF Lapse, SessionsTypeOK
<1>5. ASSUME NEW u \in Users, NEW keep \in Tokens, RevokeAllForUser(u, keep) PROVE SessionsTypeOK'
  BY <1>5, RevokingTypes DEF RevokeAllForUser
<1>6. ASSUME NEW t \in Tenants, NEW u \in Users, RevokeForMembership(u, t) PROVE SessionsTypeOK'
  BY <1>6, RevokingTypes DEF RevokeForMembership, InMembership
<1>7. CASE UNCHANGED sessionVars
  BY <1>7 DEF sessionVars, SessionsTypeOK
<1> QED BY <1>1, <1>2, <1>3, <1>4, <1>5, <1>6, <1>7 DEF SessionStep

\* Every reachable state of accounts and sessions is well typed: whoever is
\* active has a row, and what is rotated, revoked or expired was issued.
THEOREM IdentityTypes == Spec => []TypeOK
<1>1. TypeOK /\ [Next]_vars => TypeOK'
  BY StepOfBoth, MemberTypes, SessionTypes DEF TypeOK
<1> QED BY <1>1, InitTypes, PTL DEF Spec

-----------------------------------------------------------------------------
(* Families.                                                                 *)

\* The tokens of a family are of one person and one organisation, those of its
\* first token.
Descended ==
    \A s \in issued :
        /\ session[session[s].family].family = session[s].family
        /\ session[session[s].family].user = session[s].user
        /\ session[session[s].family].tenant = session[s].tenant

Chains == Descended /\ FamiliesAreWhole

LEMMA RevokingKeepsChains ==
  ASSUME SessionsTypeOK, Chains, NEW S \in SUBSET issued, RevokeRows(S),
         \A s, r \in issued : session[s].family = session[r].family => (s \in S <=> r \in S)
  PROVE  Chains'
  BY DEF RevokeRows, Chains, Descended, FamiliesAreWhole

LEMMA IssueKeepsChains ==
  ASSUME SessionsTypeOK, Chains, NEW s \in Tokens, NEW u \in Users,
         NEW t \in Tenants \cup {NoTenant}, Issue(s, u, t)
  PROVE  Chains'
<1>1. /\ s \notin issued /\ issued' = issued \cup {s}
      /\ session'[s] = [user |-> u, tenant |-> t, family |-> s]
      /\ \A r \in issued : session'[r] = session[r] /\ session[r].family \in issued
      /\ rotated' = rotated /\ revoked' = revoked
  BY DEF Issue, Issued, SessionsTypeOK
<1>2. Descended'
  BY <1>1 DEF Chains, Descended
<1>3. FamiliesAreWhole'
  BY <1>1 DEF Chains, FamiliesAreWhole
<1> QED BY <1>2, <1>3 DEF Chains

LEMMA RotateKeepsChains ==
  ASSUME SessionsTypeOK, Chains, NEW s \in Tokens, NEW new \in Tokens, Rotate(s, new)
  PROVE  Chains'
<1>1. /\ s \in issued /\ s \notin rotated /\ s \notin revoked
      /\ new \notin issued /\ issued' = issued \cup {new}
      /\ session'[new].family = session[s].family /\ session'[new].user = session[s].user
      /\ session'[new].tenant = session[s].tenant
      /\ \A r \in issued : session'[r] = session[r] /\ session[r].family \in issued
      /\ rotated' = rotated \cup {s} /\ revoked' = revoked /\ revoked \subseteq issued
  BY DEF Rotate, Issued, SessionsTypeOK
<1>2. Descended'
  BY <1>1 DEF Chains, Descended
<1>3. \A r \in issued : session[r].family = session[s].family => r \in rotated' /\ r \notin revoked'
  BY <1>1 DEF Chains, FamiliesAreWhole
<1>4. FamiliesAreWhole'
  BY <1>1, <1>3 DEF Chains, FamiliesAreWhole
<1> QED BY <1>2, <1>4 DEF Chains

LEMMA StepKeepsChains == ASSUME SessionsTypeOK, Chains, SessionStep PROVE Chains'
<1>1. ASSUME NEW s \in Tokens, Reuse(s) \/ Revoke(s) PROVE Chains'
  BY <1>1, RevokingKeepsChains DEF Reuse, Revoke, Ended, Family
<1>2. ASSUME NEW s \in Tokens, Lapse(s) PROVE Chains'
  BY <1>2 DEF Lapse, Chains, Descended, FamiliesAreWhole
<1>3. \A s, r \in issued : session[s].family = session[r].family =>
          session[s].user = session[r].user /\ session[s].tenant = session[r].tenant
  BY DEF Chains, Descended
<1>4. ASSUME NEW u \in Users, NEW keep \in Tokens, RevokeAllForUser(u, keep) PROVE Chains'
  BY <1>3, <1>4, RevokingKeepsChains DEF RevokeAllForUser
<1>5. ASSUME NEW t \in Tenants, NEW u \in Users, RevokeForMembership(u, t) PROVE Chains'
  BY <1>3, <1>5, RevokingKeepsChains DEF RevokeForMembership, InMembership
<1>6. CASE UNCHANGED sessionVars
  BY <1>6 DEF sessionVars, Chains, Descended, FamiliesAreWhole
<1> QED BY <1>1, <1>2, <1>4, <1>5, <1>6, IssueKeepsChains, RotateKeepsChains DEF SessionStep

LEMMA ChainsHold == Spec => []Chains
<1>1. Init => Chains
  BY DEF Init, SessionsInit, Chains, Descended, FamiliesAreWhole
<1>2. TypeOK /\ Chains /\ [Next]_vars => Chains'
  BY StepOfBoth, StepKeepsChains DEF TypeOK
<1> QED BY <1>1, <1>2, IdentityTypes, PTL DEF Spec

\* The tokens of one sign-in are a chain that is revoked as a whole, whether by
\* family, by person or by membership.
THEOREM FamiliesHold == Spec => []FamiliesAreWhole
<1>1. Chains => FamiliesAreWhole
  BY DEF Chains
<1> QED BY <1>1, ChainsHold, PTL

-----------------------------------------------------------------------------
(* Removal.                                                                  *)

LEMMA BelongingKeepsMembers ==
  ASSUME MembersTypeOK, Belonging, NEW t \in Tenants
  PROVE  active[t] \subseteq active'[t]
<1>1. ASSUME NEW o \in Tenants, NEW u \in Users, CreateOrganisation(o, u)
      PROVE  active[t] \subseteq active'[t]
  BY <1>1 DEF CreateOrganisation, Enter, MembersTypeOK
<1>2. ASSUME NEW u \in Users, SignUp(u) PROVE active[t] \subseteq active'[t]
  BY <1>2 DEF SignUp, Enter, MembersTypeOK
<1>3. ASSUME NEW i \in Invitations, AcceptInvitation(i) PROVE active[t] \subseteq active'[t]
  BY <1>3 DEF AcceptInvitation, Enter, MembersTypeOK
<1>4. CASE active' = active
  BY <1>4
<1> QED BY <1>1, <1>2, <1>3, <1>4 DEF Belonging, ChangeRole, Invite, Expire

\* A valid session is one that was valid, or the successor of one.
LEMMA RefreshingIsFaithful ==
  ASSUME SessionsTypeOK, Refreshing, NEW s \in Valid'
  PROVE  \E r \in Valid : session'[s].user = session[r].user /\ session'[s].tenant = session[r].tenant
<1>1. ASSUME NEW r \in Tokens, NEW new \in Tokens, Rotate(r, new)
      PROVE  \E o \in Valid : /\ session'[s].user = session[o].user
                              /\ session'[s].tenant = session[o].tenant
  <2>1. r \in Valid /\ session'[new].user = session[r].user /\ session'[new].tenant = session[r].tenant
    BY <1>1 DEF Rotate, Issued, Valid, SessionsTypeOK
  <2>2. s # new => s \in Valid /\ session'[s] = session[s]
    BY <1>1 DEF Rotate, Issued, Valid, SessionsTypeOK
  <2> QED BY <2>1, <2>2
<1>2. CASE /\ issued' = issued /\ session' = session
           /\ revoked \subseteq revoked' /\ expired \subseteq expired'
  BY <1>2 DEF Valid
<1>3. ASSUME NEW r \in Tokens, Reuse(r) \/ Revoke(r) \/ Lapse(r)
      PROVE  /\ issued' = issued /\ session' = session
             /\ revoked \subseteq revoked' /\ expired \subseteq expired'
  BY <1>3 DEF Reuse, Revoke, Lapse, RevokeRows
<1> QED BY <1>1, <1>2, <1>3 DEF Refreshing

LEMMA NextKeepsOut == ASSUME TypeOK, RemovedIsOut, [Next]_vars PROVE RemovedIsOut'
<1>1. CASE Belonging
  <2>1. Valid' = Valid /\ session' = session
    BY <1>1 DEF Belonging, sessionVars, Valid
  <2>2. \A s \in Valid : session[s].tenant \in Tenants \cup {NoTenant}
    BY DEF TypeOK, SessionsTypeOK, Valid, Session
  <2> QED BY <1>1, <2>1, <2>2, BelongingKeepsMembers DEF TypeOK, RemovedIsOut
<1>2. CASE Refreshing
  <2>1. active' = active
    BY <1>2 DEF Refreshing, memberVars
  <2> QED BY <1>2, <2>1, RefreshingIsFaithful DEF TypeOK, RemovedIsOut
<1>3. ASSUME NEW s \in Tokens, NEW u \in Users, NEW t \in Tenants \cup {NoTenant}, SignIn(s, u, t)
      PROVE  RemovedIsOut'
  <2>1. /\ active' = active /\ issued' = issued \cup {s} /\ s \notin issued
        /\ session'[s] = [user |-> u, tenant |-> t, family |-> s]
        /\ \A r \in issued : session'[r] = session[r]
        /\ revoked' = revoked /\ expired' = expired
    BY <1>3 DEF SignIn, Issue, Issued, memberVars, TypeOK, SessionsTypeOK
  <2>2. t # NoTenant => u \in active[t]
    BY <1>3 DEF SignIn, MembershipsFor
  <2> QED BY <2>1, <2>2 DEF RemovedIsOut, Valid
<1>4. ASSUME NEW t \in Tenants, NEW u \in Users, Remove(t, u) PROVE RemovedIsOut'
  <2>1. /\ active' = [active EXCEPT ![t] = @ \ {u}] /\ issued' = issued /\ session' = session
        /\ expired' = expired
        /\ revoked' = revoked \cup {s \in issued : session[s].user = u /\ session[s].tenant = t}
    BY <1>4 DEF Remove, RemoveMember, RevokeForMembership, RevokeRows, InMembership
  <2> SUFFICES ASSUME NEW s \in Valid', session[s].tenant # NoTenant
               PROVE  session[s].user \in active'[session[s].tenant]
    BY <2>1 DEF RemovedIsOut
  <2>2. /\ s \in Valid /\ session[s].tenant \in Tenants
        /\ ~(session[s].user = u /\ session[s].tenant = t)
    BY <2>1 DEF Valid, TypeOK, SessionsTypeOK, Session
  <2>3. session[s].user \in active[session[s].tenant]
    BY <2>2 DEF RemovedIsOut
  <2> QED BY <2>1, <2>2, <2>3 DEF TypeOK, MembersTypeOK
<1>5. ASSUME NEW u \in Users, NEW keep \in Tokens, ChangePassword(u, keep) PROVE RemovedIsOut'
  BY <1>5 DEF ChangePassword, RevokeAllForUser, RevokeRows, memberVars, RemovedIsOut, Valid
<1>6. CASE UNCHANGED vars
  BY <1>6 DEF vars, memberVars, sessionVars, RemovedIsOut, Valid
<1> QED BY <1>1, <1>2, <1>3, <1>4, <1>5, <1>6 DEF Next

\* Whoever has been removed from an organisation has no valid session in it.
THEOREM RemovalHolds == Spec => []RemovedIsOut
<1>1. Init => RemovedIsOut
  BY DEF Init, SessionsInit, RemovedIsOut, Valid
<1> QED BY <1>1, NextKeepsOut, IdentityTypes, PTL DEF Spec

-----------------------------------------------------------------------------
(* Owners.                                                                   *)

LEMMA OwnersFinite ==
  ASSUME MembersTypeOK, NEW t \in Tenants
  PROVE  IsFiniteSet(Owners(t))
  BY MembershipAssumption, FS_Subset DEF Owners, MembersTypeOK

\* Whoever may leave, or stop being an owner, leaves another owner.
LEMMA AnotherOwner ==
  ASSUME MembersTypeOK, NEW t \in Tenants, NEW u \in Users, ~LastOwner(t, u), Owners(t) # {}
  PROVE  \E v \in Owners(t) : v # u
<1>1. CASE role[t][u] # "owner"
  BY <1>1 DEF Owners
<1>2. CASE role[t][u] = "owner"
  <2>1. ~(Cardinality(Owners(t)) <= 1)
    BY <1>2 DEF LastOwner
  <2>2. Owners(t) # {u}
    BY <2>1, FS_Singleton
  <2> QED BY <2>2
<1> QED BY <1>1, <1>2

LEMMA NextKeepsOwners ==
  ASSUME ~LateAnswers, MembersTypeOK, OwnerRemains, MemberStep
  PROVE  OwnerRemains'
<1>1. ASSUME NEW t \in Tenants, NEW u \in Users, CreateOrganisation(t, u) PROVE OwnerRemains'
  <2>1. u \in Owners(t)'
    BY <1>1, MembershipAssumption DEF CreateOrganisation, Enter, Owners, MembersTypeOK
  <2>2. \A o \in created : Owners(o)' = Owners(o)
    BY <1>1 DEF CreateOrganisation, Enter, Owners, MembersTypeOK
  <2> QED BY <1>1, <2>1, <2>2 DEF CreateOrganisation, OwnerRemains
<1>2. ASSUME NEW u \in Users, SignUp(u) PROVE OwnerRemains'
  <2>1. \A o \in Tenants : u \notin active[o]
    BY <1>2 DEF SignUp, MembershipsFor
  <2>2. \A o \in Tenants : Owners(o) \subseteq Owners(o)'
    <3>1. CASE u \in AutoJoin
      <4> DEFINE t == Claim[u]
      <4>1. /\ active' = [active EXCEPT ![t] = @ \cup {u}]
            /\ role' = [role EXCEPT ![t][u] = "viewer"]
        BY <1>2, <3>1 DEF SignUp, Enter
      <4> HIDE DEF t
      <4>2. \A o \in Tenants : active[o] \subseteq active'[o] /\ active[o] \subseteq Users
        BY <4>1 DEF MembersTypeOK
      <4>3. \A o \in Tenants : \A v \in active[o] : role'[o][v] = role[o][v]
        BY <2>1, <4>1, <4>2 DEF MembersTypeOK
      <4> QED BY <4>2, <4>3 DEF Owners
    <3>2. CASE u \notin AutoJoin
      BY <1>2, <3>2 DEF SignUp, Owners
    <3> QED BY <3>1, <3>2
  <2>3. created' = created /\ created \subseteq Tenants
    BY <1>2 DEF SignUp, MembersTypeOK
  <2> QED BY <2>2, <2>3 DEF OwnerRemains
<1>3. ASSUME NEW t \in Tenants, NEW u \in Users, RemoveMember(t, u) PROVE OwnerRemains'
  <2>1. \A o \in Tenants : Owners(o)' = IF o = t THEN Owners(o) \ {u} ELSE Owners(o)
    BY <1>3 DEF RemoveMember, Owners, MembersTypeOK
  <2>2. created' = created /\ created \subseteq Tenants /\ ~LastOwner(t, u)
    BY <1>3 DEF RemoveMember, MembersTypeOK
  <2> QED BY <2>1, <2>2, AnotherOwner DEF OwnerRemains
<1>4. ASSUME NEW t \in Tenants, NEW u \in Users, NEW r \in Roles, ChangeRole(t, u, r)
      PROVE  OwnerRemains'
  <2>1. \A o \in Tenants : \A v \in Owners(o) : v # u \/ o # t \/ r = "owner" => v \in Owners(o)'
    BY <1>4 DEF ChangeRole, Owners, MembersTypeOK
  <2>2. created' = created /\ created \subseteq Tenants /\ (r # "owner" => ~LastOwner(t, u))
    BY <1>4 DEF ChangeRole, MembersTypeOK
  <2> QED BY <2>1, <2>2, AnotherOwner DEF OwnerRemains
<1>5. ASSUME NEW i \in Invitations, AcceptInvitation(i) PROVE OwnerRemains'
  <2>1. offer[i].tenant \in Tenants /\ offer[i].email \in Users
    BY <1>5 DEF MembersTypeOK, Offer
  <2>2. offer[i].email \notin active[offer[i].tenant]
    BY <1>5 DEF AcceptInvitation
  <2>3. \A o \in Tenants : Owners(o) \subseteq Owners(o)'
    <3> DEFINE t == offer[i].tenant
               u == offer[i].email
    <3>1. /\ active' = [active EXCEPT ![t] = @ \cup {u}]
          /\ role' = [role EXCEPT ![t][u] = offer[i].role]
      BY <1>5 DEF AcceptInvitation, Enter
    <3> HIDE DEF t, u
    <3>2. t \in Tenants /\ u \in Users /\ u \notin active[t]
      BY <2>1, <2>2 DEF t, u
    <3>3. \A o \in Tenants : active[o] \subseteq active'[o] /\ active[o] \subseteq Users
      BY <3>1, <3>2 DEF MembersTypeOK
    <3>4. \A o \in Tenants : \A v \in active[o] : role'[o][v] = role[o][v]
      BY <3>1, <3>2, <3>3 DEF MembersTypeOK
    <3> QED BY <3>3, <3>4 DEF Owners
  <2>4. created' = created /\ created \subseteq Tenants
    BY <1>5 DEF AcceptInvitation, MembersTypeOK
  <2> QED BY <2>3, <2>4 DEF OwnerRemains
<1>6. CASE active' = active /\ role' = role /\ created' = created
  BY <1>6 DEF OwnerRemains, Owners
<1> QED BY <1>1, <1>2, <1>3, <1>4, <1>5, <1>6 DEF MemberStep, Invite, Expire, memberVars

\* As long as nobody who is a member already answers an old invitation, every
\* organisation keeps an owner.
THEOREM OwnersHold == ASSUME ~LateAnswers PROVE Spec => []OwnerRemains
<1>1. Init => OwnerRemains
  BY DEF Init, MembersInit, OwnerRemains
<1>2. TypeOK /\ OwnerRemains /\ [Next]_vars => OwnerRemains'
  BY StepOfBoth, NextKeepsOwners DEF TypeOK
<1> QED BY <1>1, <1>2, IdentityTypes, PTL DEF Spec
=============================================================================
