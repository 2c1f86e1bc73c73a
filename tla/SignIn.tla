------------------------------- MODULE SignIn -------------------------------
(***************************************************************************)
(* Proving who one is: the first half of identity/service.py and           *)
(* verify_totp of identity/credentials.py, for one account that is asked   *)
(* for again and again.  The sign-in route that makes an attempt of the    *)
(* service's calls is not in the repository; the order is the service's.   *)
(*                                                                         *)
(* Time is counted in steps of thirty seconds.  A password is right or     *)
(* wrong; a code is a record of its kind and, for a TOTP code, the step it *)
(* is the code of.  An account is a record of its columns and factors:     *)
(*   verified, active, failed, locked (the step until which it waits),     *)
(*   enrolled (a TOTP factor), counter (the last step accepted, -1 before) *)
(*   and recovery (the codes not yet spent), link (the verification link). *)
(***************************************************************************)
EXTENDS Integers, Sequences, FiniteSets

CONSTANTS
    Policies,       \* the policies an organisation may have: a second factor (mfa) from
                    \* the step grace on, single sign-on (sso), and who is exempt
    User,           \* whose account it is
    RecoveryCodes,  \* the recovery codes there are
    PastFailures,   \* failures in a row the account may start with
    Waits,          \* steps between an attempt and the one before
    Drifts,         \* how far the clock of who attempts is ahead
    MaxAttempts     \* bound: attempts to sign in

ASSUME SignInAssumption ==
    /\ \A p \in Policies : p.grace \in Int
    /\ \A code \in RecoveryCodes : code.kind = "recovery"
    /\ PastFailures \subseteq Nat
    /\ Waits \subseteq Nat
    /\ Drifts \subseteq Int
    /\ MaxAttempts \in Nat

VARIABLES
    account,        \* the account's columns and factors
    now,            \* the step of the last attempt
    accepted,       \* the codes that opened a session, in their order
    attempts        \* how many attempts were made

signInVars == <<account, now, accepted, attempts>>

\* Failures in a row, and the wait after them.
BackoffSchedule == <<<<3, 1>>, <<5, 4>>, <<8, 30>>, <<12, 60>>>>
TotpWindow == 1

Unverified(link) ==
    [verified |-> FALSE, active |-> TRUE, failed |-> 0, locked |-> 0,
     enrolled |-> FALSE, counter |-> -1, recovery |-> {}, link |-> {link}]

\* The link is consumed when it is accepted; any other is refused.
VerifyEmail(a, link) ==
    IF link \in a.link THEN [a EXCEPT !.verified = TRUE, !.link = {}] ELSE a

Delay(failed) ==
    LET met == {i \in DOMAIN BackoffSchedule : failed >= BackoffSchedule[i][1]}
    IN  IF met = {} THEN 0 ELSE BackoffSchedule[Cardinality(met)][2]

RecordFailure(a, t) ==
    [a EXCEPT !.failed = @ + 1,
              !.locked = IF Delay(a.failed + 1) = 0 THEN @ ELSE t + Delay(a.failed + 1)]

RecordSuccess(a) == [a EXCEPT !.failed = 0, !.locked = 0]

\* While the account waits nothing is looked at and nothing counted; a
\* deactivated account fails like a wrong password.
Authenticate(a, right, t) ==
    IF a.locked > t THEN [ok |-> FALSE, account |-> a]
    ELSE IF right /\ a.active THEN [ok |-> TRUE, account |-> RecordSuccess(a)]
    ELSE [ok |-> FALSE, account |-> RecordFailure(a, t)]

-----------------------------------------------------------------------------
HasMfa(a) == a.enrolled

\* (mutant) the step that was accepted last is accepted again
FresherOrSame(a, step) == step >= a.counter

Fresher(a, step) == step > a.counter

VerifyTotp(a, code, t) ==
    a.enrolled /\ \E step \in (t - TotpWindow)..(t + TotpWindow) : Fresher(a, step) /\ step = code.step

VerifySecondFactor(a, code, t) ==
    CASE code.kind = "totp" /\ VerifyTotp(a, code, t) ->
            [ok |-> TRUE, account |-> [a EXCEPT !.counter = code.step]]
      [] code \in a.recovery ->
            [ok |-> TRUE, account |-> [a EXCEPT !.recovery = @ \ {code}]]
      [] OTHER -> [ok |-> FALSE, account |-> a]

\* An organisation's policy: whether it requires a second factor, until when
\* it does not yet, whether it enforces single sign-on and who may still
\* come in another way.
MfaIsRequired(policy, a, t) ==
    HasMfa(a) \/ (policy.mfa /\ policy.grace <= t)

MethodAllowed(policy, user, method) ==
    method \in {"sso", "break_glass"} \/ ~policy.sso \/ policy.breakGlass = user

-----------------------------------------------------------------------------
(* An account that has been verified and has enrolled, and the attempts.     *)

Enrolled(failed) ==
    [VerifyEmail(Unverified("link"), "link") EXCEPT
        !.enrolled = TRUE, !.recovery = RecoveryCodes, !.failed = failed]

SignInInit ==
    /\ account \in {Enrolled(failed) : failed \in PastFailures}
    /\ now = TotpWindow
    /\ accepted = <<>>
    /\ attempts = 0

\* Password, then method, then the second factor where one is required: what
\* the account is afterwards, and whether a session is opened.
Attempted(policy, a, right, code, t) ==
    LET entered == Authenticate(a, right, t)
        second == VerifySecondFactor(entered.account, code, t)
    IN  IF ~entered.ok \/ ~MethodAllowed(policy, User, "password")
        THEN [ok |-> FALSE, account |-> entered.account]
        ELSE IF MfaIsRequired(policy, entered.account, t) THEN second
        ELSE [ok |-> TRUE, account |-> entered.account]

\* The codes that may be presented in step t, the account's or not.
Presented(t) ==
    [kind : {"totp"}, step : {t + drift : drift \in Drifts}] \cup RecoveryCodes

Attempt(policy, right, wait) ==
    /\ attempts < MaxAttempts
    /\ attempts' = attempts + 1
    /\ now' = now + wait
    /\ \E code \in Presented(now + wait) :
          LET outcome == Attempted(policy, account, right, code, now + wait)
          IN  /\ account' = outcome.account
              /\ accepted' = IF outcome.ok THEN Append(accepted, code) ELSE accepted

SignInNext ==
    \E policy \in Policies, right \in BOOLEAN, wait \in Waits : Attempt(policy, right, wait)

SignInSpec == SignInInit /\ [][SignInNext]_signInVars

-----------------------------------------------------------------------------
(* What signing in promises.                                                 *)

LongestWait == 60

\* A second factor is good once: neither a TOTP code within its window nor a
\* recovery code opens two sessions, however the attempts fall and whichever of
\* them fail; and the wait that failures impose passes, after which the right
\* password with the code of the hour is accepted wherever passwords are.
CodesWorkOnce ==
    /\ \A i, j \in DOMAIN accepted : accepted[i] = accepted[j] => i = j
    /\ \A policy \in Policies :
          LET later == now + LongestWait
          IN  MethodAllowed(policy, User, "password") =>
                  Attempted(policy, account, TRUE, [kind |-> "totp", step |-> later], later).ok
=============================================================================
