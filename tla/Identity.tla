------------------------------ MODULE Identity ------------------------------
(***************************************************************************)
(* Accounts, organisations and sessions together (identity/): removing a   *)
(* member ends their sessions there, a new password ends the others, and a *)
(* session is opened for an organisation its person belongs to.            *)
(***************************************************************************)
EXTENDS Membership, Sessions

vars == <<memberVars, sessionVars>>

TypeOK == MembersTypeOK /\ SessionsTypeOK

Init == MembersInit /\ SessionsInit

\* issue is called for a membership that was checked at sign-in, or for no
\* organisation before there is one; another organisation is another sign-in.
SignIn(s, u, t) ==
    /\ t \in MembershipsFor(u) \cup {NoTenant}
    /\ Issue(s, u, t)
    /\ UNCHANGED memberVars

Remove(t, u) == RemoveMember(t, u) /\ RevokeForMembership(u, t)

\* change_password, which keeps the family it is asked from.
ChangePassword(u, keep) == RevokeAllForUser(u, keep) /\ UNCHANGED memberVars

Belonging ==
    /\ \/ \E t \in Tenants, u \in Users : CreateOrganisation(t, u)
       \/ \E u \in Users : SignUp(u)
       \/ \E t \in Tenants, u \in Users, r \in Roles : ChangeRole(t, u, r)
       \/ \E t \in Tenants, u \in Users, r \in Roles, i \in Invitations : Invite(t, u, r, i)
       \/ \E i \in Invitations : AcceptInvitation(i) \/ Expire(i)
    /\ UNCHANGED sessionVars

Refreshing ==
    /\ \/ \E s, new \in Tokens : Rotate(s, new)
       \/ \E s \in Tokens : Reuse(s) \/ Revoke(s) \/ Lapse(s)
    /\ UNCHANGED memberVars

Next ==
    \/ Belonging
    \/ Refreshing
    \/ \E s \in Tokens, u \in Users, t \in Tenants \cup {NoTenant} : SignIn(s, u, t)
    \/ \E t \in Tenants, u \in Users : Remove(t, u)
    \/ \E u \in Users, keep \in Tokens : ChangePassword(u, keep)

Spec == Init /\ [][Next]_vars

\* Whoever was removed has no session left that would be admitted to the
\* organisation, neither one opened there nor one exchanged since; only an
\* answered invitation brings them back, and not their old sessions.
RemovedIsOut ==
    \A s \in Valid : session[s].tenant # NoTenant =>
        session[s].user \in active[session[s].tenant]
=============================================================================
