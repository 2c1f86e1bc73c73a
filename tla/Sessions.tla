------------------------------ MODULE Sessions ------------------------------
(***************************************************************************)
(* Refresh tokens: identity/sessions.py.                                   *)
(*                                                                         *)
(* A row of the sessions table is one refresh token; the tokens that       *)
(* descend from one sign-in by rotation share a family.  Rows are never    *)
(* deleted.  The columns rotated_at, revoked_at and the passing of         *)
(* expires_at are sets of tokens.                                          *)
(***************************************************************************)
EXTENDS People

CONSTANT
    Tokens          \* the refresh tokens there can be

VARIABLES
    issued,
    session,        \* what each token is of: its user, organisation, family
    rotated, revoked, expired

sessionVars == <<issued, session, rotated, revoked, expired>>

\* A family is named by its first token.
Session == [user: Users, tenant: Tenants \cup {NoTenant}, family: Tokens]

SessionsTypeOK ==
    /\ issued \in SUBSET Tokens
    /\ session \in [Tokens -> Session]
    /\ rotated \subseteq issued
    /\ revoked \subseteq issued
    /\ expired \subseteq issued
    /\ \A s \in issued : session[s].family \in issued

SessionsInit ==
    /\ issued = {}
    /\ session = [s \in Tokens |->
                    [user |-> CHOOSE u \in Users : TRUE, tenant |-> NoTenant, family |-> s]]
    /\ rotated = {}
    /\ revoked = {}
    /\ expired = {}

-----------------------------------------------------------------------------
Family(s) == {r \in issued : session[r].family = session[s].family}

\* What active_sessions lists, and what load_valid admits: the token of a
\* session that has been rotated since still names a valid session.
ActiveSessions(u) == {s \in issued \ (rotated \cup revoked \cup expired) : session[s].user = u}
Valid == issued \ (revoked \cup expired)

Issued(s, u, t, f) ==
    /\ s \notin issued
    /\ issued' = issued \cup {s}
    /\ session' = [session EXCEPT ![s] = [user |-> u, tenant |-> t, family |-> f]]

\* issue for a new sign-in.
Issue(s, u, t) ==
    /\ Issued(s, u, t, s)
    /\ UNCHANGED <<rotated, revoked, expired>>

Rotate(s, new) ==
    /\ s \in issued \ (rotated \cup revoked \cup expired)
    /\ rotated' = rotated \cup {s}
    /\ Issued(new, session[s].user, session[s].tenant, session[s].family)
    /\ UNCHANGED <<revoked, expired>>

RevokeRows(S) ==
    /\ revoked' = revoked \cup S
    /\ UNCHANGED <<issued, session, rotated, expired>>

\* (mutant) only the token at hand is ended
FamilyOfOne(s) == {s}

Ended(s) == Family(s)

\* A token that was used up turns up again.
Reuse(s) ==
    /\ s \in rotated \cup revoked
    /\ RevokeRows(Ended(s))

Revoke(s) == s \in issued /\ RevokeRows(Ended(s))

RevokeAllForUser(u, keep) ==
    RevokeRows({s \in issued : session[s].user = u /\ session[s].family # keep})

\* (mutant) the sessions a person sees in their list
ListedInMembership(u, t) == {s \in ActiveSessions(u) : session[s].tenant = t}

InMembership(u, t) == {s \in issued : session[s].user = u /\ session[s].tenant = t}

RevokeForMembership(u, t) == RevokeRows(InMembership(u, t))

\* Thirty days have passed.
Lapse(s) ==
    /\ s \in issued \ expired
    /\ expired' = expired \cup {s}
    /\ UNCHANGED <<issued, session, rotated, revoked>>

-----------------------------------------------------------------------------
\* A sign-in is one chain of tokens: at most its last is not used up, and it
\* ends as a whole, although sessions are revoked by family, by person and by
\* membership.  A token that was exchanged cannot be the way to another.
FamiliesAreWhole ==
    \A s, r \in issued : session[s].family = session[r].family =>
        /\ s # r => s \in rotated \/ r \in rotated
        /\ s \in revoked <=> r \in revoked
=============================================================================
