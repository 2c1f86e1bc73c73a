-------------------------- MODULE AnalyticsProofs --------------------------
(***************************************************************************)
(* Theorems about machines that AnalyticsMC checks on small inputs:        *)
(* signing in, the limiter of requests, the age of data a dashboard shows, *)
(* the refinement of a load with its quarantine, the credentials of        *)
(* connections, the layer a dataset is at, and the lineage of a column.    *)
(* Each machine has variables of its own, so each theorem is about the     *)
(* specification of one machine, whatever the others do.                   *)
(***************************************************************************)
EXTENDS SignIn, Limiter, Freshness, Quality, Credentials, Layers, Lineage,
        FiniteSetTheorems, WellFoundedInduction, TLAPS

-----------------------------------------------------------------------------
(* Numbers.                                                                  *)

\* A set of numbers that is not empty has a least one.
LEMMA LeastExists ==
    ASSUME NEW T \in SUBSET Nat, T # {}
    PROVE  \E x \in T : \A y \in T : x <= y
<1>1. IsWellFoundedOn(OpToRel(<, Nat), Nat)
    BY NatLessThanWellFounded
<1>2. PICK x \in T : \A y \in T : ~(<<y, x>> \in OpToRel(<, Nat))
    BY <1>1, WFMin
<1>3. \A y \in T : ~(y < x)
    BY <1>2 DEF OpToRel
<1> QED
    BY <1>3

\* And, below a bound, a greatest.
LEMMA GreatestExists ==
    ASSUME NEW T \in SUBSET Nat, T # {}, NEW bound \in Nat, \A x \in T : x <= bound
    PROVE  \E x \in T : \A y \in T : y <= x
<1> DEFINE short == {d \in Nat : bound - d \in T}
<1>1. PICK x \in T : TRUE
    OBVIOUS
<1>2. bound - x \in short
    OBVIOUS
<1>3. PICK d \in short : \A e \in short : d <= e
    BY <1>2, LeastExists
<1>4. ASSUME NEW y \in T PROVE y <= bound - d
    <2>1. bound - y \in short
        OBVIOUS
    <2>2. d \in Nat /\ y \in Nat /\ d <= bound - y
        BY <2>1, <1>3
    <2> HIDE DEF short
    <2> QED
        BY <2>2
<1> QED
    BY <1>3, <1>4

-----------------------------------------------------------------------------
(* Signing in.                                                               *)

Codes == [kind : {"totp"}, step : Int] \cup RecoveryCodes

Account ==
    [verified : BOOLEAN, active : BOOLEAN, failed : Nat, locked : Int,
     enrolled : BOOLEAN, counter : Int, recovery : SUBSET RecoveryCodes, link : SUBSET {"link"}]

\* The accounts that are active and have enrolled.
Member(a) == a \in Account /\ a.active = TRUE /\ a.enrolled = TRUE

SignInType ==
    /\ now \in Nat
    /\ Member(account)
    /\ accepted \in Seq(Codes)

\* The account never waits for longer than the last wait of the schedule, and
\* the last step accepted is at most the window ahead.
WaitsEnd == account.locked <= now + LongestWait /\ account.counter <= now + TotpWindow

\* What has been accepted is spent: its step is not after the last one
\* accepted, or it is no longer among the recovery codes.
Spent(code) ==
    IF code.kind = "totp" THEN code.step <= account.counter ELSE code \notin account.recovery

AllSpent == \A i \in DOMAIN accepted : Spent(accepted[i])

OnceEach == \A i, j \in DOMAIN accepted : accepted[i] = accepted[j] => i = j

SignInInv == SignInType /\ WaitsEnd /\ AllSpent /\ OnceEach

\* The waits of the schedule.
LEMMA DelayBounded ==
    ASSUME NEW n \in Nat
    PROVE  Delay(n) \in 0..LongestWait
<1> DEFINE met == {i \in DOMAIN BackoffSchedule : n >= BackoffSchedule[i][1]}
<1>1. DOMAIN BackoffSchedule = 1..4
    BY DEF BackoffSchedule
<1>2. met \in SUBSET (1..4)
    BY <1>1
<1>3. IsFiniteSet(met) /\ Cardinality(met) <= 4 /\ Cardinality(met) \in Nat
    <2>1. IsFiniteSet(1..4) /\ Cardinality(1..4) = 4
        <3> DEFINE one == 1
                   four == 4
        <3>1. one \in Int /\ four \in Int /\ one <= four /\ four - one + 1 = 4
            OBVIOUS
        <3> HIDE DEF one, four
        <3>2. IsFiniteSet(one..four) /\ Cardinality(one..four) = 4
            BY <3>1, FS_Interval
        <3> QED
            BY <3>2 DEF one, four
    <2> HIDE DEF met
    <2> QED
        BY <1>2, <2>1, FS_Subset, FS_CardinalityType
<1>4. CASE met = {}
    BY <1>4 DEF Delay, LongestWait
<1>5. CASE met # {}
    <2>1. Cardinality(met) \in 1..4
        BY <1>3, <1>5, FS_EmptySet
    <2>2. Delay(n) = BackoffSchedule[Cardinality(met)][2]
        BY <1>5 DEF Delay
    <2> HIDE DEF met
    <2>3. \A i \in 1..4 : BackoffSchedule[i][2] \in 0..60
        BY DEF BackoffSchedule
    <2> QED
        BY <2>1, <2>2, <2>3 DEF LongestWait
<1> QED
    BY <1>4, <1>5

\* The columns of the account that an attempt may set keep their types.
LEMMA FailedSet ==
    ASSUME NEW a \in Account, NEW n \in Nat
    PROVE  [a EXCEPT !.failed = n] \in Account
BY SMTT(60) DEF Account

LEMMA EnrolledSet ==
    ASSUME NEW a \in Account, NEW e \in BOOLEAN
    PROVE  [a EXCEPT !.enrolled = e] \in Account
BY SMTT(60) DEF Account

LEMMA LockedSet ==
    ASSUME NEW a \in Account, NEW l \in Int
    PROVE  [a EXCEPT !.locked = l] \in Account
BY SMTT(60) DEF Account

LEMMA CounterSet ==
    ASSUME NEW a \in Account, NEW c \in Int
    PROVE  [a EXCEPT !.counter = c] \in Account
BY SMTT(60) DEF Account

LEMMA RecoverySet ==
    ASSUME NEW a \in Account, NEW codes \in SUBSET RecoveryCodes
    PROVE  [a EXCEPT !.recovery = codes] \in Account
BY SMTT(60) DEF Account

\* The password changes the failures and the wait, and nothing else.
LEMMA AuthenticateKeeps ==
    ASSUME NEW a, Member(a), NEW right \in BOOLEAN, NEW t \in Nat, a.locked <= t + LongestWait
    PROVE  LET entered == Authenticate(a, right, t)
           IN  /\ Member(entered.account)
               /\ entered.account.counter = a.counter /\ entered.account.recovery = a.recovery
               /\ entered.account.locked <= t + LongestWait
               /\ (right /\ a.locked <= t) => entered.ok
<1>1. a.failed \in Nat /\ a.locked \in Int /\ a.active = TRUE /\ a \in Account
    BY DEF Account, Member
<1>2. Delay(a.failed + 1) \in 0..60
    BY <1>1, DelayBounded DEF LongestWait
<1>3. /\ Member(RecordSuccess(a))
      /\ RecordSuccess(a).counter = a.counter /\ RecordSuccess(a).recovery = a.recovery
      /\ RecordSuccess(a).locked = 0
    <2> DEFINE none == 0
    <2>1. none \in Nat /\ none \in Int /\ RecordSuccess(a) = [a EXCEPT !.failed = none, !.locked = none]
        BY DEF RecordSuccess
    <2> HIDE DEF none
    <2>2. /\ RecordSuccess(a) \in Account
          /\ RecordSuccess(a).active = a.active /\ RecordSuccess(a).enrolled = a.enrolled
          /\ RecordSuccess(a).counter = a.counter /\ RecordSuccess(a).recovery = a.recovery
          /\ RecordSuccess(a).locked = none
        <3>1. [a EXCEPT !.failed = none, !.locked = none] \in Account
            BY <1>1, <2>1, FailedSet, LockedSet
        <3> QED
            BY <1>1, <2>1, <3>1 DEF Account
    <2> QED
        BY <1>1, <2>2, Member(a) DEF Member, none
<1>4. /\ Member(RecordFailure(a, t))
      /\ RecordFailure(a, t).counter = a.counter /\ RecordFailure(a, t).recovery = a.recovery
      /\ RecordFailure(a, t).locked <= t + LongestWait
    <2> DEFINE d == Delay(a.failed + 1)
               l == IF d = 0 THEN a.locked ELSE t + d
    <2>1. l \in Int /\ l <= t + LongestWait
        BY <1>1, <1>2 DEF LongestWait
    <2>2. RecordFailure(a, t) = [a EXCEPT !.failed = a.failed + 1, !.locked = l]
        BY DEF RecordFailure
    <2> HIDE DEF d, l
    <2> DEFINE n == a.failed + 1
    <2>3. n \in Nat /\ RecordFailure(a, t) = [a EXCEPT !.failed = n, !.locked = l]
        BY <1>1, <2>2
    <2> HIDE DEF n
    <2>4. /\ RecordFailure(a, t) \in Account
          /\ RecordFailure(a, t).active = a.active /\ RecordFailure(a, t).enrolled = a.enrolled
          /\ RecordFailure(a, t).counter = a.counter /\ RecordFailure(a, t).recovery = a.recovery
          /\ RecordFailure(a, t).locked = l
        <3>1. [a EXCEPT !.failed = n, !.locked = l] \in Account
            BY <1>1, <2>1, <2>3, FailedSet, LockedSet
        <3> QED
            BY <1>1, <2>1, <2>3, <3>1 DEF Account
    <2> QED
        BY <1>1, <2>1, <2>4 DEF Member
<1>5. 0 <= t + LongestWait
    BY DEF LongestWait
<1> QED
    BY <1>1, <1>3, <1>4, <1>5 DEF Authenticate

\* A second factor that is accepted was not spent, and is spent by it; what
\* was spent before stays spent.
LEMMA SecondFactorSpends ==
    ASSUME NEW a, Member(a), NEW t \in Nat, NEW code \in Codes, a.counter <= t + TotpWindow
    PROVE  LET second == VerifySecondFactor(a, code, t)
           IN  /\ Member(second.account)
               /\ second.account.locked = a.locked
               /\ a.counter <= second.account.counter /\ second.account.counter <= t + TotpWindow
               /\ second.account.recovery \subseteq a.recovery
               /\ second.ok => IF code.kind = "totp"
                               THEN a.counter < code.step /\ code.step <= second.account.counter
                               ELSE code \in a.recovery /\ code \notin second.account.recovery
<1>1. a \in Account /\ a.counter \in Int /\ a.recovery \subseteq RecoveryCodes
    BY DEF Account, Member
<1>2. \A c \in RecoveryCodes : c.kind = "recovery"
    BY SignInAssumption DEF SignInAssumption
<1>3. CASE code.kind = "totp"
    <2>1. code \notin a.recovery /\ code.step \in Int
        BY <1>1, <1>2, <1>3 DEF Codes
    <2>2. CASE VerifyTotp(a, code, t)
        <3>1. a.counter < code.step /\ code.step <= t + TotpWindow
            BY <1>1, <2>1, <2>2 DEF VerifyTotp, Fresher, TotpWindow
        <3>2. VerifySecondFactor(a, code, t) = [ok |-> TRUE, account |-> [a EXCEPT !.counter = code.step]]
            BY <1>3, <2>1, <2>2 DEF VerifySecondFactor
        <3> DEFINE b == [a EXCEPT !.counter = code.step]
        <3>3. b \in Account
            BY <1>1, <2>1, CounterSet
        <3>4. /\ b.active = a.active /\ b.enrolled = a.enrolled /\ b.locked = a.locked
              /\ b.counter = code.step /\ b.recovery = a.recovery
            BY <1>1 DEF Account
        <3>5. VerifySecondFactor(a, code, t) = [ok |-> TRUE, account |-> b]
            BY <3>2
        <3> HIDE DEF b
        <3> QED
            BY <1>1, <1>3, <2>1, <3>1, <3>3, <3>4, <3>5 DEF Member
    <2>3. CASE ~VerifyTotp(a, code, t)
        <3>1. VerifySecondFactor(a, code, t) = [ok |-> FALSE, account |-> a]
            BY <2>1, <2>3 DEF VerifySecondFactor
        <3> QED
            BY <1>1, <3>1
    <2> QED
        BY <2>2, <2>3
<1>4. CASE code.kind # "totp"
    <2>1. CASE code \in a.recovery
        <3>1. VerifySecondFactor(a, code, t) = [ok |-> TRUE, account |-> [a EXCEPT !.recovery = @ \ {code}]]
            BY <1>4, <2>1 DEF VerifySecondFactor
        <3> DEFINE b == [a EXCEPT !.recovery = a.recovery \ {code}]
        <3>2. a.recovery \ {code} \in SUBSET RecoveryCodes
            BY <1>1
        <3>3. b \in Account
            BY <1>1, <3>2, RecoverySet
        <3>4. /\ b.active = a.active /\ b.enrolled = a.enrolled /\ b.locked = a.locked
              /\ b.counter = a.counter /\ b.recovery = a.recovery \ {code}
            BY <1>1 DEF Account
        <3>5. VerifySecondFactor(a, code, t) = [ok |-> TRUE, account |-> b]
            BY <3>1
        <3> HIDE DEF b
        <3> QED
            BY <1>1, <1>4, <2>1, <3>3, <3>4, <3>5 DEF Member
    <2>2. CASE code \notin a.recovery
        <3>1. VerifySecondFactor(a, code, t) = [ok |-> FALSE, account |-> a]
            BY <1>4, <2>2 DEF VerifySecondFactor
        <3> QED
            BY <1>1, <3>1
    <2> QED
        BY <2>1, <2>2
<1> QED
    BY <1>3, <1>4

\* The outcome of an attempt, whatever the policy: the same, of the whole.
LEMMA AttemptSpends ==
    ASSUME NEW policy \in Policies, NEW a, Member(a), NEW right \in BOOLEAN, NEW t \in Nat,
           NEW code \in Codes, a.locked <= t + LongestWait, a.counter <= t + TotpWindow
    PROVE  LET outcome == Attempted(policy, a, right, code, t)
           IN  /\ Member(outcome.account)
               /\ outcome.account.locked <= t + LongestWait
               /\ a.counter <= outcome.account.counter /\ outcome.account.counter <= t + TotpWindow
               /\ outcome.account.recovery \subseteq a.recovery
               /\ outcome.ok => IF code.kind = "totp"
                                THEN a.counter < code.step /\ code.step <= outcome.account.counter
                                ELSE code \in a.recovery /\ code \notin outcome.account.recovery
<1> DEFINE b == Authenticate(a, right, t).account
           second == VerifySecondFactor(b, code, t)
<1>1. /\ Member(b) /\ b.counter = a.counter /\ b.recovery = a.recovery
      /\ b.locked <= t + LongestWait
    BY AuthenticateKeeps
<1>2. b.enrolled /\ a.counter \in Int
    BY <1>1 DEF Account, Member
<1>3. MfaIsRequired(policy, b, t)
    BY <1>2 DEF MfaIsRequired, HasMfa
<1>4. \/ Attempted(policy, a, right, code, t) = [ok |-> FALSE, account |-> b]
      \/ Attempted(policy, a, right, code, t) = second
    BY <1>3 DEF Attempted
<1> HIDE DEF b
<1>5. /\ Member(second.account)
      /\ second.account.locked = b.locked
      /\ b.counter <= second.account.counter /\ second.account.counter <= t + TotpWindow
      /\ second.account.recovery \subseteq b.recovery
      /\ second.ok => IF code.kind = "totp"
                      THEN b.counter < code.step /\ code.step <= second.account.counter
                      ELSE code \in b.recovery /\ code \notin second.account.recovery
    BY <1>1, SecondFactorSpends
<1> HIDE DEF second
<1> QED
    BY <1>1, <1>2, <1>4, <1>5

LEMMA SignInInitInv == SignInInit => SignInInv
<1> SUFFICES ASSUME SignInInit PROVE SignInInv
    OBVIOUS
<1>1. PICK failed \in Nat : account = Enrolled(failed)
    BY SignInAssumption DEF SignInInit
<1>2. VerifyEmail(Unverified("link"), "link") =
          [verified |-> TRUE, active |-> TRUE, failed |-> 0, locked |-> 0,
           enrolled |-> FALSE, counter |-> -1, recovery |-> {}, link |-> {}]
    BY DEF VerifyEmail, Unverified
<1> DEFINE verified == VerifyEmail(Unverified("link"), "link")
           one == [verified EXCEPT !.enrolled = TRUE]
           two == [one EXCEPT !.recovery = RecoveryCodes]
<1>3. /\ verified \in Account /\ verified.active = TRUE
      /\ verified.counter = -1 /\ verified.locked = 0
    <2> DEFINE counter == -1
               none == {}
    <2>1. verified = [verified |-> TRUE, active |-> TRUE, failed |-> 0, locked |-> 0,
                      enrolled |-> FALSE, counter |-> counter, recovery |-> none, link |-> none]
        BY <1>2
    <2>2. counter \in Int /\ none \in SUBSET {"link"} /\ none \in SUBSET RecoveryCodes /\ counter = -1
        OBVIOUS
    <2> HIDE DEF counter, none, verified
    <2> QED
        BY <2>1, <2>2, SMTT(60) DEF Account
<1> HIDE DEF verified
<1>4. /\ one \in Account /\ one.active = TRUE /\ one.enrolled = TRUE
      /\ one.counter = -1 /\ one.locked = 0
    <2> DEFINE yes == TRUE
    <2>1. yes \in BOOLEAN
        OBVIOUS
    <2>2. one = [verified EXCEPT !.enrolled = yes]
        OBVIOUS
    <2> HIDE DEF yes
    <2>3. one \in Account
        BY <1>3, <2>1, <2>2, EnrolledSet
    <2> QED
        BY <1>3, <2>2, <2>3 DEF Account, yes
<1> HIDE DEF one
<1>5. /\ two \in Account /\ two.active = TRUE /\ two.enrolled = TRUE
      /\ two.counter = -1 /\ two.locked = 0
    <2>1. two \in Account
        BY <1>4, RecoverySet
    <2> QED
        BY <1>4, <2>1 DEF Account
<1> HIDE DEF two
<1>7. /\ account \in Account /\ account.active = TRUE /\ account.enrolled = TRUE
      /\ account.counter = -1 /\ account.locked = 0
    <2>1. account = [two EXCEPT !.failed = failed]
        BY <1>1 DEF Enrolled, verified, one, two
    <2>2. account \in Account
        BY <1>5, <2>1, FailedSet
    <2> QED
        BY <1>5, <2>1, <2>2 DEF Account
<1>6. now = 1 /\ accepted = <<>>
    BY DEF SignInInit, TotpWindow
<1> QED
    BY <1>6, <1>7 DEF SignInInv, SignInType, Member, WaitsEnd, AllSpent, OnceEach, LongestWait,
                            TotpWindow

LEMMA SignInStep ==
    ASSUME SignInInv, [SignInNext]_signInVars
    PROVE  SignInInv'
<1>1. CASE UNCHANGED signInVars
    BY <1>1 DEF signInVars, SignInInv, SignInType, WaitsEnd, AllSpent, OnceEach, Spent
<1>2. CASE SignInNext
    <2>1. PICK policy \in Policies, right \in BOOLEAN, wait \in Waits : Attempt(policy, right, wait)
        BY <1>2 DEF SignInNext
    <2> DEFINE t == now + wait
    <2>2. PICK code \in Presented(t) :
            LET outcome == Attempted(policy, account, right, code, t)
            IN  /\ account' = outcome.account
                /\ accepted' = IF outcome.ok THEN Append(accepted, code) ELSE accepted
        BY <2>1 DEF Attempt
    <2>3. t \in Nat /\ now <= t /\ now' = t
        BY <2>1, SignInAssumption DEF SignInInv, SignInType, Attempt
    <2>4. code \in Codes
        BY <2>3, SignInAssumption DEF Presented, Codes
    <2>5. /\ Member(account) /\ account.locked <= t + LongestWait
          /\ account.counter <= t + TotpWindow /\ account.counter \in Int
        BY <2>3 DEF SignInInv, SignInType, WaitsEnd, Member, Account, LongestWait, TotpWindow
    <2> DEFINE outcome == Attempted(policy, account, right, code, t)
    <2> HIDE DEF t
    <2>6. /\ Member(outcome.account)
          /\ outcome.account.locked <= t + LongestWait
          /\ account.counter <= outcome.account.counter /\ outcome.account.counter <= t + TotpWindow
          /\ outcome.account.recovery \subseteq account.recovery
          /\ outcome.ok => IF code.kind = "totp"
                           THEN account.counter < code.step /\ code.step <= outcome.account.counter
                           ELSE code \in account.recovery /\ code \notin outcome.account.recovery
        BY <2>3, <2>4, <2>5, AttemptSpends
    <2>7. account' = outcome.account /\ accepted' = IF outcome.ok THEN Append(accepted, code) ELSE accepted
        BY <2>2
    <2> HIDE DEF outcome
    <2>8. account'.counter \in Int /\ Member(account)'
        BY <2>6, <2>7 DEF Account, Member
    <2>9. \A i \in DOMAIN accepted : accepted[i] \in Codes
        BY DEF SignInInv, SignInType
    <2>10. ASSUME NEW i \in DOMAIN accepted PROVE Spent(accepted[i])'
        <3>1. Spent(accepted[i])
            BY DEF SignInInv, AllSpent
        <3>2. accepted'[i] = accepted[i] /\ accepted[i] \in Codes
            BY <2>4, <2>7, <2>9 DEF SignInInv, SignInType
        <3>3. accepted[i].kind = "totp" => accepted[i].step \in Int
            BY <2>9, SignInAssumption DEF Codes
        <3> QED
            BY <2>5, <2>6, <2>7, <2>8, <3>1, <3>2, <3>3 DEF Spent
    <2>11. CASE ~outcome.ok
        <3>1. accepted' = accepted
            BY <2>7, <2>11
        <3> QED
            BY <2>3, <2>6, <2>7, <2>8, <2>10, <3>1 DEF SignInInv, SignInType, WaitsEnd, AllSpent, OnceEach
    <2>12. CASE outcome.ok
        <3>1. accepted' = Append(accepted, code) /\ accepted \in Seq(Codes)
            BY <2>7, <2>12 DEF SignInInv, SignInType
        <3>2. accepted' \in Seq(Codes) /\ Len(accepted') = Len(accepted) + 1
            BY <2>4, <3>1
        <3>3. /\ DOMAIN accepted' = DOMAIN accepted \cup {Len(accepted) + 1}
              /\ accepted'[Len(accepted) + 1] = code
              /\ \A i \in DOMAIN accepted : accepted'[i] = accepted[i]
            BY <2>4, <3>1
        <3>4. ASSUME NEW i \in DOMAIN accepted PROVE accepted[i] # code
            <4>1. Spent(accepted[i])
                BY DEF SignInInv, AllSpent
            <4>2. code.kind = "totp" => code.step \in Int
                BY <2>4, SignInAssumption DEF Codes
            <4> QED
                BY <2>5, <2>6, <2>12, <4>1, <4>2 DEF Spent
        <3>5. (code.kind = "totp" => code.step <= account'.counter)
              /\ (code.kind # "totp" => code \notin account'.recovery)
            BY <2>6, <2>7, <2>12
        <3>6. AllSpent'
            BY <2>10, <3>3, <3>5 DEF AllSpent, Spent
        <3>7. OnceEach'
            BY <3>3, <3>4 DEF SignInInv, OnceEach
        <3> QED
            BY <2>3, <2>6, <2>7, <2>8, <3>2, <3>6, <3>7 DEF SignInInv, SignInType, WaitsEnd
    <2> QED
        BY <2>11, <2>12
<1> QED
    BY <1>1, <1>2

\* An account that waits long enough, and whose owner has the password and the
\* code of the hour, gets in.
LEMMA AcceptedLater ==
    ASSUME SignInInv, NEW policy \in Policies, MethodAllowed(policy, User, "password")
    PROVE  LET later == now + LongestWait
           IN  Attempted(policy, account, TRUE, [kind |-> "totp", step |-> later], later).ok
<1> DEFINE later == now + LongestWait
           code == [kind |-> "totp", step |-> later]
           b == Authenticate(account, TRUE, later).account
<1>1. later \in Nat /\ Member(account) /\ account.locked <= later /\ account.locked \in Int
      /\ account.counter \in Int /\ account.counter < later
    BY DEF SignInInv, SignInType, WaitsEnd, Member, Account, LongestWait, TotpWindow
<1>2. account.locked <= later + LongestWait
    BY <1>1 DEF LongestWait
<1>3. /\ Authenticate(account, TRUE, later).ok
      /\ Member(b) /\ b.counter = account.counter
    BY <1>1, <1>2, AuthenticateKeeps
<1>4. code.kind = "totp" /\ code.step = later
    OBVIOUS
<1> HIDE DEF code, b, later
<1>5. b.enrolled /\ MfaIsRequired(policy, b, later)
    BY <1>3 DEF MfaIsRequired, HasMfa, Member
<1>6. VerifyTotp(b, code, later)
    BY <1>1, <1>3, <1>4, <1>5 DEF VerifyTotp, Fresher, TotpWindow
<1>7. VerifySecondFactor(b, code, later).ok
    BY <1>4, <1>6 DEF VerifySecondFactor
<1>8. Attempted(policy, account, TRUE, code, later) = VerifySecondFactor(b, code, later)
    BY <1>3, <1>5 DEF Attempted, b
<1> QED
    BY <1>7, <1>8 DEF code, later

\* A second factor is good once, and a wait passes: for any policies, recovery
\* codes, clocks that differ and attempts of whatever outcome.
THEOREM FactorsAreSpent == SignInSpec => []CodesWorkOnce
<1>1. SignInInv /\ [SignInNext]_signInVars => SignInInv'
    BY SignInStep
<1>2. SignInInv => CodesWorkOnce
    BY AcceptedLater DEF SignInInv, OnceEach, CodesWorkOnce
<1> QED
    BY SignInInitInv, <1>1, <1>2, PTL DEF SignInSpec

-----------------------------------------------------------------------------
(* The limiter.                                                              *)

Entry == [request : Requests, at : Nat, ok : BOOLEAN]

Keys == {KeyOf(request) : request \in Requests}

LimitOf(key) == key[2]

\* The requests of a key that were let through.
Admitted(records, key) ==
    {j \in DOMAIN records : records[j].ok /\ KeyOf(records[j].request) = key}

\* A window holds the times of requests of its key that were let through, in
\* their order, and of all of them that can still count at t.
Holds(window, records, key, t) ==
    \E pos \in [DOMAIN window -> Admitted(records, key)] :
        /\ \A i, j \in DOMAIN window : i < j => pos[i] < pos[j]
        /\ \A i \in DOMAIN window : records[pos[i]].at = window[i]
        /\ \A n \in Admitted(records, key) :
              records[n].at >= t - LimitOf(key).seconds => \E i \in DOMAIN window : pos[i] = n

\* Requests are logged in the order they come in.
InOrder(records, t) ==
    /\ \A i, j \in DOMAIN records : i <= j => records[i].at <= records[j].at
    /\ \A i \in DOMAIN records : records[i].at <= t

LimiterType ==
    /\ time \in Nat
    /\ log \in Seq(Entry)
    /\ DOMAIN hits \subseteq Keys
    /\ hits \in [DOMAIN hits -> Seq(Nat)]

LimiterInv ==
    /\ LimiterType
    /\ InOrder(log, time)
    /\ \A key \in Keys : Holds(WindowOf(key), log, key, time)
    /\ BudgetKept

\* Recent and BudgetKept, of any requests.
RecentIn(records, i) ==
    {j \in 1..(i - 1) :
        /\ records[j].ok
        /\ KeyOf(records[j].request) = KeyOf(records[i].request)
        /\ records[j].at >= records[i].at - Limits[KindOf(records[i].request)].seconds}

BudgetIn(records) ==
    \A i \in DOMAIN records :
        records[i].ok <=> Cardinality(RecentIn(records, i)) < Limits[KindOf(records[i].request)].requests

LEMMA BudgetOfLog == BudgetKept <=> BudgetIn(log)
BY DEF BudgetKept, BudgetIn, Recent, RecentIn

\* The key of a request names the limit it is under.
LEMMA LimitOfKey ==
    ASSUME NEW request \in Requests
    PROVE  LET key == KeyOf(request)
           IN  /\ key \in Keys
               /\ KindOf(request) \in DOMAIN Limits
               /\ LimitOf(key) = Limits[KindOf(request)]
               /\ LimitOf(key).seconds \in Nat /\ LimitOf(key).requests \in Nat
<1>1. KindOf(request) \in {"ordinary", "expensive"}
    BY DEF KindOf
<1>2. /\ DOMAIN Limits = {"ordinary", "expensive"}
      /\ \A kind \in {"ordinary", "expensive"} :
            Limits[kind].seconds \in Nat /\ Limits[kind].requests \in Nat
    BY LimiterAssumption DEF LimiterAssumption
<1>3. KeyOf(request)[2] = Limits[KindOf(request)]
    BY DEF KeyOf
<1> QED
    BY <1>1, <1>2, <1>3 DEF Keys, LimitOf

\* Where what still counts begins.
LEMMA CountedFromFirst ==
    ASSUME NEW window \in Seq(Nat), NEW limit, limit.seconds \in Nat, NEW t \in Nat,
           \A i, j \in DOMAIN window : i <= j => window[i] <= window[j]
    PROVE  LET f == FirstCounted(window, limit, t)
           IN  /\ f \in 1..(Len(window) + 1)
               /\ \A i \in DOMAIN window : window[i] >= t - limit.seconds <=> i >= f
<1> DEFINE c == t - limit.seconds
           S == {i \in 1..(Len(window) + 1) : i <= Len(window) => window[i] >= c}
           P(i) == /\ i <= Len(window) => window[i] >= c
                   /\ \A j \in 1..(i - 1) : window[j] < c
<1>1. c \in Int /\ Len(window) \in Nat /\ DOMAIN window = 1..Len(window)
      /\ \A i \in 1..Len(window) : window[i] \in Nat
    OBVIOUS
<1>2. Len(window) + 1 \in S /\ S \in SUBSET Nat
    BY <1>1
<1>3. PICK m \in S : \A y \in S : m <= y
    BY <1>2, LeastExists
<1> HIDE DEF c
<1>4. m \in 1..(Len(window) + 1) /\ P(m)
    <2>1. ASSUME NEW j \in 1..(m - 1) PROVE window[j] < c
        <3>1. j \in 1..Len(window) /\ ~(m <= j)
            BY <1>1, <1>3
        <3>2. j \notin S
            BY <1>3, <3>1
        <3>3. ~(window[j] >= c)
            BY <1>1, <3>1, <3>2
        <3> QED
            BY <1>1, <3>1, <3>3
    <2> QED
        BY <1>3, <2>1
<1> DEFINE f == CHOOSE i \in 1..(Len(window) + 1) : P(i)
<1>5. FirstCounted(window, limit, t) = f
    BY DEF FirstCounted, c
<1>6. f \in 1..(Len(window) + 1) /\ P(f)
    BY <1>4
<1> HIDE DEF f
<1>7. ASSUME NEW i \in DOMAIN window PROVE window[i] >= c <=> i >= f
    <2>1. CASE i >= f
        <3>1. f \in DOMAIN window /\ window[f] >= c
            BY <1>1, <1>6, <2>1
        <3>2. window[f] <= window[i] /\ window[f] \in Nat /\ window[i] \in Nat
            BY <1>1, <1>6, <2>1, <3>1
        <3> QED
            BY <1>1, <2>1, <3>1, <3>2
    <2>2. CASE ~(i >= f)
        <3>1. i \in 1..(f - 1)
            BY <1>1, <1>6, <2>2
        <3>2. window[i] < c /\ window[i] \in Nat
            BY <1>1, <1>6, <3>1
        <3> QED
            BY <1>1, <2>2, <3>2
    <2> QED
        BY <2>1, <2>2
<1> QED
    BY <1>5, <1>6, <1>7 DEF c

\* A window that holds what it should is in order.
LEMMA WindowInOrder ==
    ASSUME NEW window \in Seq(Nat), NEW records \in Seq(Entry), NEW key, NEW t \in Nat,
           InOrder(records, t), Holds(window, records, key, t)
    PROVE  \A i, j \in DOMAIN window : i <= j => window[i] <= window[j]
<1>1. PICK pos \in [DOMAIN window -> Admitted(records, key)] :
        /\ \A i, j \in DOMAIN window : i < j => pos[i] < pos[j]
        /\ \A i \in DOMAIN window : records[pos[i]].at = window[i]
    BY DEF Holds
<1>2. \A i \in DOMAIN window : pos[i] \in DOMAIN records
    BY DEF Admitted
<1> SUFFICES ASSUME NEW i \in DOMAIN window, NEW j \in DOMAIN window, i <= j
             PROVE  window[i] <= window[j]
    OBVIOUS
<1>3. CASE i = j
    BY <1>3
<1>4. CASE i < j
    <2>1. pos[i] < pos[j] /\ pos[i] \in DOMAIN records /\ pos[j] \in DOMAIN records
        BY <1>1, <1>2, <1>4
    <2>2. pos[i] <= pos[j]
        BY <2>1
    <2> QED
        BY <1>1, <2>1, <2>2 DEF InOrder
<1> QED
    BY <1>3, <1>4

\* The place in a suffix of what was at place i.
LEMMA Shifted ==
    ASSUME NEW w \in Nat, NEW f \in Nat, NEW i \in 1..w, i >= f
    PROVE  i - f + 1 \in 1..(w - f + 1) /\ (i - f + 1) + f - 1 = i
OBVIOUS

\* Without what is too old it still does, and all that is left counts.
LEMMA CountedHolds ==
    ASSUME NEW window \in Seq(Nat), NEW records \in Seq(Entry), NEW key, LimitOf(key).seconds \in Nat,
           NEW t \in Nat, NEW u \in Nat, t <= u, InOrder(records, t), Holds(window, records, key, t)
    PROVE  LET counted == Counted(window, LimitOf(key), u)
           IN  /\ counted \in Seq(Nat)
               /\ Holds(counted, records, key, u)
               /\ \A i \in DOMAIN counted : counted[i] >= u - LimitOf(key).seconds
<1> DEFINE f == FirstCounted(window, LimitOf(key), u)
           c == u - LimitOf(key).seconds
<1>1. \A i, j \in DOMAIN window : i <= j => window[i] <= window[j]
    BY WindowInOrder
<1>2. /\ f \in 1..(Len(window) + 1)
      /\ \A i \in DOMAIN window : window[i] >= c <=> i >= f
    BY <1>1, CountedFromFirst
<1> DEFINE counted == SubSeq(window, f, Len(window))
<1>3. Counted(window, LimitOf(key), u) = counted
    BY DEF Counted
<1> HIDE DEF f
<1>4. /\ Len(window) \in Nat /\ DOMAIN window = 1..Len(window) /\ f \in Nat
      /\ 1 <= f /\ f <= Len(window) + 1
      /\ \A i \in DOMAIN window : window[i] \in Nat
    BY <1>2
<1>5. /\ counted \in Seq(Nat)
      /\ Len(counted) = Len(window) - f + 1 /\ DOMAIN counted = 1..(Len(window) - f + 1)
      /\ \A i \in 1..(Len(window) - f + 1) : counted[i] = window[i + f - 1]
    <2>1. f..Len(window) \subseteq DOMAIN window
        BY <1>2, <1>4
    <2> QED
        BY <1>2, <1>4, <2>1
<1> HIDE DEF counted
<1>6. \A i \in DOMAIN counted : i + f - 1 \in DOMAIN window /\ i + f - 1 >= f /\ i \in Int
    <2> SUFFICES ASSUME NEW i \in DOMAIN counted
                 PROVE  i + f - 1 \in DOMAIN window /\ i + f - 1 >= f /\ i \in Int
        OBVIOUS
    <2> DEFINE n == Len(window)
    <2>1. n \in Nat /\ f \in Nat /\ 1 <= f /\ i \in 1..(n - f + 1) /\ DOMAIN window = 1..n
        BY <1>4, <1>5
    <2> HIDE DEF n
    <2>2. i \in Int /\ 1 <= i /\ i <= n - f + 1
        BY <2>1
    <2>3. i + f - 1 \in 1..n /\ i + f - 1 >= f
        BY <2>1, <2>2
    <2> QED
        BY <2>1, <2>2, <2>3
<1>7. ASSUME NEW i \in DOMAIN counted PROVE counted[i] >= c
    <2> DEFINE k == i + f - 1
    <2>1. counted[i] = window[k] /\ k \in DOMAIN window /\ k >= f
        BY <1>5, <1>6
    <2> HIDE DEF k
    <2> QED
        BY <1>2, <2>1
<1>8. Holds(counted, records, key, u)
    <2>1. PICK pos \in [DOMAIN window -> Admitted(records, key)] :
            /\ \A i, j \in DOMAIN window : i < j => pos[i] < pos[j]
            /\ \A i \in DOMAIN window : records[pos[i]].at = window[i]
            /\ \A n \in Admitted(records, key) :
                  records[n].at >= t - LimitOf(key).seconds => \E i \in DOMAIN window : pos[i] = n
        BY DEF Holds
    <2> DEFINE at == [i \in DOMAIN counted |-> pos[i + f - 1]]
    <2>2. at \in [DOMAIN counted -> Admitted(records, key)]
        BY <1>6
    <2>3. \A i, j \in DOMAIN counted : i < j => at[i] < at[j]
        BY <1>4, <1>6, <2>1
    <2>4. \A i \in DOMAIN counted : records[at[i]].at = counted[i]
        BY <1>5, <1>6, <2>1
    <2>5. ASSUME NEW n \in Admitted(records, key), records[n].at >= c
          PROVE  \E i \in DOMAIN counted : at[i] = n
        <3>1. records[n].at \in Nat
            <4>1. n \in DOMAIN records
                BY DEF Admitted
            <4>2. records[n] \in Entry
                BY <4>1
            <4> QED
                BY <4>2 DEF Entry
        <3>2. records[n].at >= t - LimitOf(key).seconds
            BY <2>5, <3>1
        <3>3. PICK i \in DOMAIN window : pos[i] = n
            BY <2>1, <3>2
        <3>4. i >= f
            BY <1>2, <2>1, <2>5, <3>3
        <3> DEFINE k == i - f + 1
        <3>5. k \in DOMAIN counted /\ k + f - 1 = i
            <4>1. i \in 1..Len(window) /\ Len(window) \in Nat /\ f \in Nat
                BY <1>4
            <4>2. k \in 1..(Len(window) - f + 1) /\ k + f - 1 = i
                BY <3>4, <4>1, Shifted
            <4> QED
                BY <1>5, <4>2
        <3> HIDE DEF k
        <3>6. at[k] = pos[k + f - 1]
            BY <3>5
        <3>7. at[k] = n
            BY <3>3, <3>5, <3>6
        <3> QED
            BY <3>5, <3>7
    <2> HIDE DEF at
    <2> QED
        BY <2>2, <2>3, <2>4, <2>5 DEF Holds
<1> QED
    BY <1>3, <1>5, <1>7, <1>8

\* A window that holds what it should, and nothing too old, is as long as
\* there are requests that count.
LEMMA HeldAreCounted ==
    ASSUME NEW window \in Seq(Nat), NEW records \in Seq(Entry), NEW key, LimitOf(key).seconds \in Nat,
           NEW t \in Nat, Holds(window, records, key, t),
           \A i \in DOMAIN window : window[i] >= t - LimitOf(key).seconds
    PROVE  Cardinality({n \in Admitted(records, key) : records[n].at >= t - LimitOf(key).seconds})
               = Len(window)
<1> DEFINE S == {n \in Admitted(records, key) : records[n].at >= t - LimitOf(key).seconds}
<1>1. PICK pos \in [DOMAIN window -> Admitted(records, key)] :
        /\ \A i, j \in DOMAIN window : i < j => pos[i] < pos[j]
        /\ \A i \in DOMAIN window : records[pos[i]].at = window[i]
        /\ \A n \in Admitted(records, key) :
              records[n].at >= t - LimitOf(key).seconds => \E i \in DOMAIN window : pos[i] = n
    BY DEF Holds
<1>2. DOMAIN window = 1..Len(window) /\ Len(window) \in Nat
    OBVIOUS
<1>3. pos \in [1..Len(window) -> S]
    BY <1>1, <1>2
<1>4. \A i, j \in 1..Len(window) : pos[i] = pos[j] => i = j
    <2>1. \A i \in 1..Len(window) : pos[i] \in Nat
        BY <1>1, <1>2 DEF Admitted
    <2> SUFFICES ASSUME NEW i \in 1..Len(window), NEW j \in 1..Len(window), i # j
                 PROVE  pos[i] # pos[j]
        OBVIOUS
    <2>2. pos[i] \in Nat /\ pos[j] \in Nat /\ i \in Nat /\ j \in Nat
        BY <2>1
    <2>3. (i < j => pos[i] < pos[j]) /\ (j < i => pos[j] < pos[i])
        BY <1>1, <1>2
    <2>4. i < j \/ j < i
        BY <2>2
    <2> QED
        BY <2>2, <2>3, <2>4
<1>5. \A n \in S : \E i \in 1..Len(window) : pos[i] = n
    BY <1>1, <1>2
<1> HIDE DEF S
<1>6. pos \in Bijection(1..Len(window), S)
    BY <1>3, <1>4, <1>5 DEF Bijection, Injection, Surjection, IsInjective
<1>7. ExistsBijection(1..Len(window), S)
    BY <1>6 DEF ExistsBijection
<1>8. Cardinality(S) = Len(window)
    BY <1>2, <1>7, FS_CountingElements
<1> QED
    BY <1>8 DEF S

\* It holds the next request of its key that is let through when its time is
\* added, and what it should whatever else comes in.
LEMMA AppendHolds ==
    ASSUME NEW window \in Seq(Nat), NEW records \in Seq(Entry), NEW request \in Requests, NEW t \in Nat,
           Holds(window, records, KeyOf(request), t)
    PROVE  Holds(Append(window, t), Append(records, [request |-> request, at |-> t, ok |-> TRUE]),
                 KeyOf(request), t)
<1> DEFINE key == KeyOf(request)
           e == [request |-> request, at |-> t, ok |-> TRUE]
           w == Append(window, t)
           r == Append(records, e)
           n == Len(window)
           m == Len(records)
<1>1. e \in Entry /\ e.ok /\ e.request = request /\ e.at = t
    BY DEF Entry
<1> HIDE DEF e
<1>2. /\ n \in Nat /\ DOMAIN window = 1..n /\ DOMAIN w = 1..(n + 1)
      /\ w[n + 1] = t /\ \A i \in 1..n : w[i] = window[i]
    OBVIOUS
<1>3. /\ m \in Nat /\ DOMAIN records = 1..m /\ DOMAIN r = 1..(m + 1)
      /\ r[m + 1] = e /\ \A i \in 1..m : r[i] = records[i]
    BY <1>1
<1> HIDE DEF n, m, w, r
<1>4. Admitted(r, key) = Admitted(records, key) \cup {m + 1}
    BY <1>1, <1>3 DEF Admitted
<1>5. \A i \in Admitted(records, key) : i \in 1..m
    BY <1>3 DEF Admitted
<1>6. PICK pos \in [DOMAIN window -> Admitted(records, key)] :
        /\ \A i, j \in DOMAIN window : i < j => pos[i] < pos[j]
        /\ \A i \in DOMAIN window : records[pos[i]].at = window[i]
        /\ \A k \in Admitted(records, key) :
              records[k].at >= t - LimitOf(key).seconds => \E i \in DOMAIN window : pos[i] = k
    BY DEF Holds
<1> HIDE DEF key
<1> DEFINE at == [i \in 1..(n + 1) |-> IF i = n + 1 THEN m + 1 ELSE pos[i]]
<1>7. /\ at[n + 1] = m + 1
      /\ \A i \in 1..n : at[i] = pos[i] /\ pos[i] \in Admitted(records, key)
      /\ at \in [1..(n + 1) -> Admitted(r, key)]
    BY <1>2, <1>4, <1>6
<1> HIDE DEF at
<1>8. \A i \in 1..(n + 1) : i = n + 1 \/ i \in 1..n
    BY <1>2
<1>9. \A i, j \in 1..(n + 1) : i < j => at[i] < at[j]
    <2> SUFFICES ASSUME NEW i \in 1..(n + 1), NEW j \in 1..(n + 1), i < j
                 PROVE  at[i] < at[j]
        OBVIOUS
    <2>1. i \in 1..n
        BY <1>2
    <2>2. at[i] = pos[i] /\ pos[i] \in 1..m
        BY <1>5, <1>7, <2>1
    <2>3. CASE j = n + 1
        BY <1>3, <1>7, <2>2, <2>3
    <2>4. CASE j \in 1..n
        BY <1>2, <1>6, <1>7, <2>1, <2>4
    <2> QED
        BY <1>8, <2>3, <2>4
<1>10. \A i \in 1..(n + 1) : r[at[i]].at = w[i]
    <2> SUFFICES ASSUME NEW i \in 1..(n + 1) PROVE r[at[i]].at = w[i]
        OBVIOUS
    <2>1. CASE i = n + 1
        BY <1>1, <1>2, <1>3, <1>7, <2>1
    <2>2. CASE i \in 1..n
        <3>1. at[i] = pos[i] /\ pos[i] \in 1..m
            BY <1>5, <1>7, <2>2
        <3>2. r[pos[i]] = records[pos[i]] /\ w[i] = window[i] /\ records[pos[i]].at = window[i]
            BY <1>2, <1>3, <1>6, <2>2, <3>1
        <3> QED
            BY <3>1, <3>2
    <2> QED
        BY <1>8, <2>1, <2>2
<1>11. ASSUME NEW k \in Admitted(r, key), r[k].at >= t - LimitOf(key).seconds
       PROVE  \E i \in 1..(n + 1) : at[i] = k
    <2>1. CASE k = m + 1
        BY <1>2, <1>7, <2>1
    <2>2. CASE k \in Admitted(records, key)
        <3>1. records[k].at >= t - LimitOf(key).seconds
            BY <1>3, <1>5, <1>11, <2>2
        <3>2. PICK i \in 1..n : pos[i] = k
            BY <1>2, <1>6, <2>2, <3>1
        <3>3. i \in 1..(n + 1) /\ at[i] = k
            BY <1>2, <1>7, <3>2
        <3> QED
            BY <3>3
    <2> QED
        BY <1>4, <2>1, <2>2
<1>12. Holds(w, r, key, t)
    <2>1. /\ at \in [DOMAIN w -> Admitted(r, key)]
          /\ \A i, j \in DOMAIN w : i < j => at[i] < at[j]
        BY <1>2, <1>7, <1>9
    <2>2. /\ \A i \in DOMAIN w : r[at[i]].at = w[i]
          /\ \A k \in Admitted(r, key) :
                r[k].at >= t - LimitOf(key).seconds => \E i \in DOMAIN w : at[i] = k
        BY <1>2, <1>10, <1>11
    <2> QED
        BY <2>1, <2>2 DEF Holds
<1> QED
    BY <1>12 DEF w, r, e, key

LEMMA OthersHold ==
    ASSUME NEW window \in Seq(Nat), NEW records \in Seq(Entry), NEW key, LimitOf(key).seconds \in Nat,
           NEW t \in Nat, NEW u \in Nat, t <= u, Holds(window, records, key, t),
           NEW e \in Entry, ~e.ok \/ KeyOf(e.request) # key
    PROVE  Holds(window, Append(records, e), key, u)
<1> DEFINE r == Append(records, e)
           m == Len(records)
<1>1. /\ m \in Nat /\ DOMAIN records = 1..m /\ DOMAIN r = 1..(m + 1)
      /\ r[m + 1] = e /\ \A i \in 1..m : r[i] = records[i]
    OBVIOUS
<1> HIDE DEF r, m
<1>2. Admitted(r, key) = Admitted(records, key)
    BY <1>1 DEF Admitted
<1>3. \A i \in Admitted(records, key) : i \in 1..m /\ r[i] = records[i] /\ records[i].at \in Nat
    <2> SUFFICES ASSUME NEW i \in Admitted(records, key)
                 PROVE  i \in 1..m /\ r[i] = records[i] /\ records[i].at \in Nat
        OBVIOUS
    <2>1. i \in 1..m /\ i \in DOMAIN records
        BY <1>1 DEF Admitted
    <2>2. records[i] \in Entry
        BY <2>1
    <2> QED
        BY <1>1, <2>1, <2>2 DEF Entry
<1>4. PICK pos \in [DOMAIN window -> Admitted(records, key)] :
        /\ \A i, j \in DOMAIN window : i < j => pos[i] < pos[j]
        /\ \A i \in DOMAIN window : records[pos[i]].at = window[i]
        /\ \A k \in Admitted(records, key) :
              records[k].at >= t - LimitOf(key).seconds => \E i \in DOMAIN window : pos[i] = k
    BY DEF Holds
<1>5. \A i \in DOMAIN window : r[pos[i]].at = window[i]
    BY <1>3, <1>4
<1>6. ASSUME NEW k \in Admitted(r, key), r[k].at >= u - LimitOf(key).seconds
      PROVE  \E i \in DOMAIN window : pos[i] = k
    <2>1. k \in Admitted(records, key) /\ r[k] = records[k] /\ records[k].at \in Nat
        BY <1>2, <1>3
    <2>2. records[k].at >= t - LimitOf(key).seconds
        BY <1>6, <2>1
    <2> QED
        BY <1>4, <2>1, <2>2
<1>7. Holds(window, r, key, u)
    BY <1>2, <1>4, <1>5, <1>6 DEF Holds
<1> QED
    BY <1>7 DEF r

\* A stale window holds nothing that can count: none will do.
LEMMA StaleHolds ==
    ASSUME NEW window \in Seq(Nat), NEW records \in Seq(Entry), NEW request \in Requests, NEW t \in Nat,
           InOrder(records, t), Holds(window, records, KeyOf(request), t), Stale(window, t)
    PROVE  Holds(<<>>, records, KeyOf(request), t)
<1> DEFINE key == KeyOf(request)
           c == t - LimitOf(key).seconds
<1>1. PICK pos \in [DOMAIN window -> Admitted(records, key)] :
        /\ \A i, j \in DOMAIN window : i < j => pos[i] < pos[j]
        /\ \A i \in DOMAIN window : records[pos[i]].at = window[i]
        /\ \A k \in Admitted(records, key) :
              records[k].at >= t - LimitOf(key).seconds => \E i \in DOMAIN window : pos[i] = k
    BY DEF Holds
<1>2. LimitOf(key).seconds \in Nat /\ KindOf(request) \in DOMAIN Limits
      /\ LimitOf(key) = Limits[KindOf(request)]
    BY LimitOfKey
<1>3. \A i, j \in DOMAIN window : i <= j => window[i] <= window[j]
    BY WindowInOrder
<1>4. ASSUME NEW k \in Admitted(records, key), records[k].at >= c PROVE FALSE
    <2>1. PICK i \in DOMAIN window : pos[i] = k
        BY <1>1, <1>4
    <2>2. window[i] >= c /\ window[i] \in Nat
        BY <1>1, <1>4, <2>1
    <2>3. Len(window) \in DOMAIN window /\ i <= Len(window) /\ window # <<>>
        BY <2>1
    <2>4. window[i] <= window[Len(window)] /\ window[Len(window)] \in Nat
        BY <1>3, <2>3
    <2>5. t - window[Len(window)] > LimitOf(key).seconds
        BY <1>2, <2>3 DEF Stale
    <2> QED
        BY <1>2, <2>2, <2>4, <2>5
<1> DEFINE none == <<>>
<1>5. DOMAIN none = {}
    OBVIOUS
<1> HIDE DEF none
<1>6. /\ none \in [DOMAIN none -> Admitted(records, key)]
      /\ \A i, j \in DOMAIN none : i < j => none[i] < none[j]
      /\ \A i \in DOMAIN none : records[none[i]].at = none[i]
      /\ \A n \in Admitted(records, key) :
            records[n].at >= t - LimitOf(key).seconds => \E i \in DOMAIN none : none[i] = n
    <2>1. none \in [DOMAIN none -> Admitted(records, key)]
        BY <1>5 DEF none
    <2> QED
        BY <1>4, <1>5, <2>1
<1>7. Holds(none, records, key, t)
    BY <1>6 DEF Holds
<1> QED
    BY <1>7 DEF none

LEMMA LimiterInitInv == LimiterInit => LimiterInv
<1> SUFFICES ASSUME LimiterInit PROVE LimiterInv
    OBVIOUS
<1>1. time = 0 /\ hits = <<>> /\ log = <<>>
    BY DEF LimiterInit
<1>2. DOMAIN hits = {} /\ DOMAIN log = {}
    BY <1>1
<1>3. LimiterType
    <2>1. hits \in [DOMAIN hits -> Seq(Nat)]
        BY <1>1, <1>2
    <2>2. log \in Seq(Entry)
        BY <1>1
    <2> QED
        BY <1>1, <1>2, <2>1, <2>2 DEF LimiterType
<1>4. ASSUME NEW key \in Keys PROVE Holds(WindowOf(key), log, key, time)
    <2> DEFINE none == WindowOf(key)
    <2>1. none = <<>> /\ DOMAIN none = {}
        BY <1>2 DEF WindowOf
    <2>2. Admitted(log, key) = {}
        BY <1>2 DEF Admitted
    <2> HIDE DEF none
    <2>3. none \in [DOMAIN none -> Admitted(log, key)]
        BY <2>1
    <2>4. Holds(none, log, key, time)
        BY <2>1, <2>2, <2>3 DEF Holds
    <2> QED
        BY <2>4 DEF none
<1> QED
    BY <1>2, <1>3, <1>4 DEF LimiterInv, InOrder, BudgetKept

\* A request is decided by as many as its caller was let through with on such
\* routes within the window before it.
LEMMA DecidedByRecent ==
    ASSUME NEW records \in Seq(Entry), NEW request \in Requests, NEW t \in Nat, NEW ok \in BOOLEAN,
           NEW window \in Seq(Nat),
           Holds(window, records, KeyOf(request), t),
           \A i \in DOMAIN window : window[i] >= t - LimitOf(KeyOf(request)).seconds,
           ok <=> ~Full(window, request)
    PROVE  LET r == Append(records, [request |-> request, at |-> t, ok |-> ok])
           IN  ok <=> Cardinality(RecentIn(r, Len(records) + 1)) < Limits[KindOf(request)].requests
<1> DEFINE e == [request |-> request, at |-> t, ok |-> ok]
           r == Append(records, e)
           n == Len(records) + 1
           key == KeyOf(request)
           S == {j \in Admitted(records, key) : records[j].at >= t - LimitOf(key).seconds}
           R == RecentIn(r, n)
<1>1. /\ LimitOf(key).seconds \in Nat /\ LimitOf(key) = Limits[KindOf(request)]
      /\ LimitOf(key).requests \in Nat
    BY LimitOfKey
<1>2. Cardinality(S) = Len(window)
    BY <1>1, HeldAreCounted
<1>3. /\ r[n] = e /\ n - 1 = Len(records) /\ DOMAIN records = 1..(n - 1)
      /\ \A j \in 1..(n - 1) : r[j] = records[j]
    BY DEF Entry
<1>4. e.request = request /\ e.at = t
    OBVIOUS
<1> HIDE DEF e, r, n
<1>5. R = S
    BY <1>1, <1>3, <1>4 DEF Admitted, RecentIn
<1> HIDE DEF R, S
<1>6. ok <=> Cardinality(R) < Limits[KindOf(request)].requests
    BY <1>1, <1>2, <1>5 DEF Full
<1> QED
    BY <1>6 DEF R, e, r, n

LEMMA InOrderAppended ==
    ASSUME NEW records \in Seq(Entry), NEW t \in Nat, NEW u \in Nat, t <= u, InOrder(records, t),
           NEW e \in Entry, e.at = u
    PROVE  InOrder(Append(records, e), u)
<1> DEFINE r == Append(records, e)
           m == Len(records)
<1>1. /\ m \in Nat /\ DOMAIN records = 1..m /\ DOMAIN r = 1..(m + 1)
      /\ r[m + 1] = e /\ \A i \in 1..m : r[i] = records[i]
    OBVIOUS
<1>2. \A i \in 1..m : records[i].at \in Nat
    <2> SUFFICES ASSUME NEW i \in 1..m PROVE records[i].at \in Nat
        OBVIOUS
    <2>1. records[i] \in Entry
        BY <1>1
    <2> QED
        BY <2>1 DEF Entry
<1> HIDE DEF r, m
<1>3. \A i \in 1..(m + 1) : i = m + 1 \/ i \in 1..m
    BY <1>1
<1>4. \A i \in 1..(m + 1) : r[i].at <= u /\ r[i].at \in Nat
    BY <1>1, <1>2, <1>3 DEF InOrder
<1>5. \A i, j \in 1..(m + 1) : i <= j => r[i].at <= r[j].at
    <2> SUFFICES ASSUME NEW i \in 1..(m + 1), NEW j \in 1..(m + 1), i <= j
                 PROVE  r[i].at <= r[j].at
        OBVIOUS
    <2>1. CASE j = m + 1
        BY <1>1, <1>4, <2>1
    <2>2. CASE j \in 1..m
        <3>1. i \in 1..m
            BY <1>1, <2>2
        <3> QED
            BY <1>1, <2>2, <3>1 DEF InOrder
    <2> QED
        BY <1>3, <2>1, <2>2
<1>6. InOrder(r, u)
    BY <1>1, <1>4, <1>5 DEF InOrder
<1> QED
    BY <1>6 DEF r

\* A later request does not change what was said of those before it.
LEMMA BudgetStaysKept ==
    ASSUME NEW records \in Seq(Entry), BudgetIn(records), NEW e \in Entry,
           e.ok <=> Cardinality(RecentIn(Append(records, e), Len(records) + 1))
                        < Limits[KindOf(e.request)].requests
    PROVE  BudgetIn(Append(records, e))
<1> DEFINE m == Len(records)
           r == Append(records, e)
<1>1. /\ m \in Nat /\ DOMAIN records = 1..m /\ DOMAIN r = 1..(m + 1)
      /\ r[m + 1] = e /\ \A i \in 1..m : r[i] = records[i]
    OBVIOUS
<1>2. e.ok <=> Cardinality(RecentIn(r, m + 1)) < Limits[KindOf(e.request)].requests
    OBVIOUS
<1> HIDE DEF r, m
<1>3. ASSUME NEW i \in 1..(m + 1)
      PROVE  r[i].ok <=> Cardinality(RecentIn(r, i)) < Limits[KindOf(r[i].request)].requests
    <2>1. CASE i = m + 1
        BY <1>1, <1>2, <2>1
    <2>2. CASE i \in 1..m
        <3>1. \A j \in 1..(i - 1) : r[j] = records[j]
            BY <1>1, <2>2
        <3>2. r[i] = records[i]
            BY <1>1, <2>2
        <3>3. RecentIn(r, i) = RecentIn(records, i)
            BY <3>1, <3>2 DEF RecentIn
        <3> QED
            BY <1>1, <2>2, <3>2, <3>3 DEF BudgetIn
    <2> QED
        BY <1>1, <2>1, <2>2
<1>4. BudgetIn(r)
    BY <1>1, <1>3 DEF BudgetIn
<1> QED
    BY <1>4 DEF r

LEMMA LimiterStep ==
    ASSUME LimiterInv, [LimiterNext]_limiterVars
    PROVE  LimiterInv'
<1>1. CASE UNCHANGED limiterVars
    <2>1. \A key : WindowOf(key)' = WindowOf(key)
        BY <1>1 DEF limiterVars, WindowOf
    <2>2. BudgetKept' /\ InOrder(log, time)' /\ LimiterType'
        BY <1>1 DEF limiterVars, LimiterInv, LimiterType, InOrder, BudgetKept, Recent
    <2> QED
        BY <1>1, <2>1, <2>2 DEF limiterVars, LimiterInv
<1>2. CASE LimiterNext
    <2>1. PICK request \in Requests, pause \in Pauses : Dispatch(request, pause)
        BY <1>2 DEF LimiterNext
    <2> DEFINE t == time + pause
               key == KeyOf(request)
               window == Found(request, t)
               ok == ~Full(window, request)
               e == [request |-> request, at |-> t, ok |-> ok]
    <2>2. t \in Nat /\ time \in Nat /\ time <= t
        BY LimiterAssumption DEF LimiterAssumption, LimiterInv, LimiterType
    <2>3. /\ time' = t /\ log' = Append(log, e)
          /\ \/ ~ok /\ Refuse(request, window)
             \/ ok /\ Admit(request, window, t)
        BY <2>1 DEF Dispatch
    <2>4. /\ key \in Keys /\ LimitOf(key).seconds \in Nat /\ LimitOf(key) = Limits[KindOf(request)]
        BY LimitOfKey
    <2>5. e \in Entry /\ e.ok = ok /\ e.request = request /\ e.at = t
        BY <2>2 DEF Entry
    <2>6. /\ log \in Seq(Entry) /\ InOrder(log, time)
          /\ \A k \in Keys : Holds(WindowOf(k), log, k, time) /\ WindowOf(k) \in Seq(Nat)
        BY DEF LimiterInv, LimiterType, WindowOf
    <2>7. window = Counted(WindowOf(key), LimitOf(key), t)
        BY <2>4 DEF Found
    <2> HIDE DEF t, key, window
    <2>8. /\ window \in Seq(Nat) /\ Holds(window, log, key, t)
          /\ \A i \in DOMAIN window : window[i] >= t - LimitOf(key).seconds
        BY <2>2, <2>4, <2>6, <2>7, CountedHolds
    <2>9. log' \in Seq(Entry) /\ InOrder(log, time)'
        <3>1. InOrder(Append(log, e), t)
            BY <2>2, <2>5, <2>6, InOrderAppended
        <3> QED
            BY <2>3, <2>5, <2>6, <3>1
    <2>10. BudgetKept'
        <3>1. ok \in BOOLEAN /\ (ok <=> ~Full(window, request))
            BY DEF Full
        <3> HIDE DEF ok
        <3>2. ok <=> Cardinality(RecentIn(Append(log, e), Len(log) + 1)) < Limits[KindOf(request)].requests
            BY <2>2, <2>6, <2>8, <3>1, DecidedByRecent DEF key
        <3>3. BudgetIn(log)
            BY BudgetOfLog DEF LimiterInv
        <3>4. BudgetIn(Append(log, e))
            BY <2>5, <2>6, <3>2, <3>3, BudgetStaysKept
        <3>5. BudgetIn(log)'
            BY <2>3, <3>4
        <3> QED
            BY <3>5, BudgetOfLog, PTL
    <2> HIDE DEF ok
    <2>11. ASSUME NEW k \in Keys, k # key PROVE Holds(WindowOf(k), log', k, t) /\ LimitOf(k).seconds \in Nat
        <3>1. PICK other \in Requests : k = KeyOf(other)
            BY DEF Keys
        <3>2. LimitOf(k).seconds \in Nat
            BY <3>1, LimitOfKey
        <3>3. KeyOf(e.request) # k
            BY <2>5, <2>11 DEF key
        <3>4. Holds(WindowOf(k), log, k, time) /\ WindowOf(k) \in Seq(Nat)
            BY <2>6
        <3>5. Holds(WindowOf(k), Append(log, e), k, t)
            BY <2>2, <2>5, <2>6, <3>2, <3>3, <3>4, OthersHold
        <3> QED
            BY <2>3, <3>2, <3>5
    <2>12. CASE ~ok
        <3>1. hits' = With(key, window)
            BY <2>3, <2>12 DEF Refuse, key
        <3>2. DOMAIN hits' = DOMAIN hits \cup {key} /\ hits'[key] = window
              /\ \A k \in DOMAIN hits : k # key => hits'[k] = hits[k]
            BY <3>1 DEF With
        <3>3. WindowOf(key)' = window /\ \A k \in Keys : k # key => WindowOf(k)' = WindowOf(k)
            BY <3>2 DEF WindowOf
        <3>4. LimiterType'
            <4>1. hits' \in [DOMAIN hits' -> Seq(Nat)]
                <5>1. With(key, window) \in [DOMAIN hits \cup {key} -> Seq(Nat)]
                    BY <2>8 DEF LimiterInv, LimiterType, With
                <5> QED
                    BY <3>1, <3>2, <5>1
            <4> QED
                BY <2>2, <2>3, <2>4, <2>9, <3>2, <4>1 DEF LimiterInv, LimiterType
        <3>5. Holds(window, log', key, t)
            <4>1. Holds(window, Append(log, e), key, t)
                <5>1. t <= t /\ ~e.ok
                    BY <2>2, <2>5, <2>12
                <5>2. log \in Seq(Entry) /\ e \in Entry /\ t \in Nat /\ LimitOf(key).seconds \in Nat
                    BY <2>2, <2>4, <2>5, <2>6
                <5> HIDE DEF e
                <5> QED
                    BY <2>8, <5>1, <5>2, OthersHold
            <4> QED
                BY <2>3, <4>1
        <3>6. \A k \in Keys : Holds(WindowOf(k)', log', k, time')
            BY <2>3, <2>11, <3>3, <3>5
        <3> QED
            BY <2>9, <2>10, <3>4, <3>6 DEF LimiterInv
    <2>13. CASE ok
        <3> DEFINE w == Append(window, t)
                   after == With(key, w)
        <3>1. hits' = IF Crowded(after) THEN Prune(after, t) ELSE after
            BY <2>3, <2>13 DEF Admit, key
        <3>2. w \in Seq(Nat)
            BY <2>2, <2>8
        <3>3. Holds(w, log', key, t)
            <4>1. e = [request |-> request, at |-> t, ok |-> TRUE]
                BY <2>3, <2>13 DEF Admit, ok
            <4>2. Holds(w, Append(log, e), key, t)
                BY <2>2, <2>6, <2>8, <4>1, AppendHolds DEF key
            <4> QED
                BY <2>3, <4>2
        <3> HIDE DEF w
        <3>4. DOMAIN after = DOMAIN hits \cup {key} /\ after[key] = w
              /\ \A k \in DOMAIN hits : k # key => after[k] = hits[k]
            BY DEF With
        <3>5. after \in [DOMAIN after -> Seq(Nat)]
            BY <3>2, <3>4 DEF LimiterInv, LimiterType, With
        <3>6. DOMAIN after \subseteq Keys
            BY <2>4, <3>4 DEF LimiterInv, LimiterType
        <3>7. ASSUME NEW k \in Keys
              PROVE  Holds(IF k \in DOMAIN after THEN after[k] ELSE <<>>, log', k, t)
            <4>1. CASE k = key
                BY <3>3, <3>4, <4>1
            <4>2. CASE k # key
                <5>1. (IF k \in DOMAIN after THEN after[k] ELSE <<>>) = WindowOf(k)
                    BY <3>4, <4>2 DEF WindowOf
                <5> QED
                    BY <2>11, <4>2, <5>1
            <4> QED
                BY <4>1, <4>2
        <3> HIDE DEF after
        <3>8. CASE ~Crowded(after)
            <4>1. hits' = after
                BY <3>1, <3>8
            <4>2. \A k \in Keys : Holds(WindowOf(k)', log', k, time')
                BY <2>3, <3>7, <4>1 DEF WindowOf
            <4>3. LimiterType'
                BY <2>2, <2>3, <2>9, <3>5, <3>6, <4>1 DEF LimiterType
            <4> QED
                BY <2>9, <2>10, <4>2, <4>3 DEF LimiterInv
        <3>9. CASE Crowded(after)
            <4>1. hits' = Prune(after, t)
                BY <3>1, <3>9
            <4>2. DOMAIN hits' = {j \in DOMAIN after : ~Stale(after[j], t)}
                  /\ \A k \in DOMAIN hits' : hits'[k] = after[k]
                BY <4>1 DEF Prune
            <4>3. hits' \in [DOMAIN hits' -> Seq(Nat)]
                BY <3>5, <4>1, <4>2 DEF Prune
            <4>4. LimiterType'
                BY <2>2, <2>3, <2>9, <3>6, <4>2, <4>3 DEF LimiterType
            <4>5. ASSUME NEW k \in Keys PROVE Holds(WindowOf(k)', log', k, time')
                <5>1. CASE k \in DOMAIN hits'
                    <6>1. WindowOf(k)' = after[k] /\ k \in DOMAIN after
                        BY <4>2, <5>1 DEF WindowOf
                    <6> QED
                        BY <2>3, <3>7, <6>1
                <5>2. CASE k \notin DOMAIN hits' /\ k \in DOMAIN after
                    <6>1. Stale(after[k], t) /\ after[k] \in Seq(Nat) /\ WindowOf(k)' = <<>>
                        BY <3>5, <4>2, <5>2 DEF WindowOf
                    <6>2. Holds(after[k], log', k, t)
                        BY <3>7, <5>2
                    <6>3. PICK other \in Requests : k = KeyOf(other)
                        BY DEF Keys
                    <6>4. Holds(<<>>, log', KeyOf(other), t)
                        BY <2>2, <2>3, <2>9, <6>1, <6>2, <6>3, StaleHolds
                    <6> QED
                        BY <2>3, <6>1, <6>3, <6>4
                <5>3. CASE k \notin DOMAIN hits' /\ k \notin DOMAIN after
                    <6>1. WindowOf(k)' = <<>>
                        BY <5>3 DEF WindowOf
                    <6> QED
                        BY <2>3, <3>7, <5>3, <6>1
                <5> QED
                    BY <5>1, <5>2, <5>3
            <4> QED
                BY <2>9, <2>10, <4>4, <4>5 DEF LimiterInv
        <3> QED
            BY <3>8, <3>9
    <2> QED
        BY <2>12, <2>13
<1> QED
    BY <1>1, <1>2

\* The budget is kept, for any limits, callers, requests and pauses, however many
\* windows are kept.
THEOREM LimiterKeepsBudgets == LimiterSpec => []BudgetKept
<1>1. LimiterInv /\ [LimiterNext]_limiterVars => LimiterInv'
    BY LimiterStep
<1>2. LimiterInv => BudgetKept
    BY DEF LimiterInv
<1> QED
    BY LimiterInitInv, <1>1, <1>2, PTL DEF LimiterSpec

-----------------------------------------------------------------------------
(* How old the data looks.                                                   *)

Run == [started : Nat, finished : Nat, status : {"succeeded", "failed"}]

FreshnessType ==
    /\ clock \in Nat
    /\ started \in Nat \cup {Idle}
    /\ runs \in SUBSET Run

\* A run starts on an occurrence, takes at most half of the time to the next,
\* and ends while two more occurrences are within the horizon.
OnTime(start, end) ==
    /\ start \in Schedule
    /\ start <= end
    /\ 2 * (end - start) <= Gap
    /\ end + 2 * Gap <= Horizon

\* Runs follow one another.
FreshnessInv ==
    /\ FreshnessType
    /\ clock + 2 * Gap <= Horizon
    /\ started # Idle => OnTime(started, clock)
    /\ \A r \in runs : /\ OnTime(r.started, r.finished)
                       /\ r.finished <= clock
                       /\ started # Idle => r.finished <= started
                       /\ \A q \in runs : q.started < r.started => q.finished <= r.started

LEMMA FreshnessInitInv == FreshnessInit => FreshnessInv
BY FreshnessAssumption DEF FreshnessInit, FreshnessInv, FreshnessType

LEMMA FreshnessStep == FreshnessInv /\ [FreshnessNext]_freshnessVars => FreshnessInv'
<1> SUFFICES ASSUME FreshnessInv, [FreshnessNext]_freshnessVars PROVE FreshnessInv'
    OBVIOUS
<1> USE FreshnessAssumption DEF FreshnessType, Idle
<1>1. CASE Begin
    BY <1>1 DEF Begin, FreshnessInv, OnTime
<1>2. ASSUME NEW status \in {"succeeded", "failed"}, Finish(status) PROVE FreshnessInv'
    <2> DEFINE r == [started |-> started, finished |-> clock, status |-> status]
    <2>1. /\ started # Idle /\ started' = Idle /\ clock' = clock
          /\ runs' = runs \cup {r}
        BY <1>2 DEF Finish
    <2>2. r \in Run /\ r.started = started /\ r.finished = clock
        BY <2>1 DEF FreshnessInv, Run
    <2>3. FreshnessType'
        BY <2>1, <2>2 DEF FreshnessInv
    <2>4. OnTime(r.started, r.finished)
        BY <2>1, <2>2 DEF FreshnessInv
    <2>5. \A q \in runs : OnTime(q.started, q.finished) /\ q.finished <= started
        BY <2>1 DEF FreshnessInv
    <2> QED
        BY <2>1, <2>2, <2>3, <2>4, <2>5 DEF FreshnessInv, OnTime, Run
<1>3. CASE Tick
    BY <1>3 DEF Tick, FreshnessInv, OnTime, Run
<1>4. CASE UNCHANGED freshnessVars
    BY <1>4 DEF freshnessVars, FreshnessInv
<1> QED
    BY <1>1, <1>2, <1>3, <1>4 DEF FreshnessNext

\* After a run the next occurrences are one and two gaps after its own.
LEMMA NextIsAGapLater ==
    ASSUME NEW s \in Schedule, NEW t \in Nat, s <= t, t < s + Gap, s + Gap <= Horizon
    PROVE  NextOccurrence(t) = s + Gap
<1> USE FreshnessAssumption
<1>1. Gap \in Nat /\ \A u \in Schedule : u \in Nat
    OBVIOUS
<1>2. s + Gap \in Schedule /\ s + Gap > t
    BY <1>1
<1>3. ASSUME NEW u \in Schedule, u > t PROVE s + Gap <= u
    <2>1. u \in Nat /\ s \in Nat /\ s < u
        BY <1>1, <1>3
    <2> QED
        BY <2>1
<1> DEFINE next == NextOccurrence(t)
<1>4. next \in Schedule /\ next > t /\ \A u \in Schedule : u > t => next <= u
    BY <1>2, <1>3 DEF NextOccurrence
<1>5. next <= s + Gap /\ s + Gap <= next /\ next \in Nat /\ s + Gap \in Nat
    BY <1>1, <1>2, <1>3, <1>4
<1> HIDE DEF next
<1> QED
    BY <1>5 DEF next

LEMMA IntervalIsGap ==
    ASSUME NEW s \in Schedule, NEW t \in Nat, s <= t, 2 * (t - s) <= Gap,
           t + 2 * Gap <= Horizon
    PROVE  ExpectedInterval(t) = Gap
<1> USE FreshnessAssumption
<1>1. s \in Nat /\ Gap \in Nat /\ t < s + Gap /\ s + Gap <= Horizon
    OBVIOUS
<1>2. NextOccurrence(t) = s + Gap
    BY <1>1, NextIsAGapLater
<1>3. s + Gap \in Schedule
    BY <1>1
<1>4. NextOccurrence(s + Gap) = (s + Gap) + Gap
    BY <1>1, <1>3, NextIsAGapLater
<1> QED
    BY <1>1, <1>2, <1>4 DEF ExpectedInterval

\* What counts as the last finish is the finish of a run of the latest start.
LEMMA LastFinishIsLatest ==
    ASSUME FreshnessInv, NEW r \in runs, Latest(r)
    PROVE  /\ LastFinished \in Nat /\ LastFinished <= clock
           /\ r.started <= LastFinished
           /\ 2 * (LastFinished - r.started) <= Gap
           /\ LastFinished + 2 * Gap <= Horizon
<1> DEFINE T == {q.finished : q \in Succeeded}
<1>1. \A q \in Succeeded :
          /\ q.started \in Nat /\ q.finished \in Nat /\ q.finished <= clock
          /\ q.started <= r.started /\ OnTime(q.started, q.finished)
          /\ q.started < r.started => q.finished <= r.started
    <2>1. \A q \in Succeeded : q \in runs /\ q.started <= r.started
        BY DEF Latest, Succeeded
    <2>2. r.finished <= clock /\ r.started <= r.finished
        BY DEF FreshnessInv, OnTime
    <2> QED
        BY <2>1, <2>2 DEF FreshnessInv, FreshnessType, Run
<1>2. r \in Succeeded /\ clock \in Nat
    BY DEF Latest, FreshnessInv, FreshnessType
<1>3. T \in SUBSET Nat /\ T # {} /\ \A t \in T : t <= clock
    BY <1>1, <1>2
<1>4. PICK t \in T : \A u \in T : u <= t
    BY <1>2, <1>3, GreatestExists
<1>5. LastFinished \in T /\ \A q \in Succeeded : q.finished <= LastFinished
    BY <1>4 DEF LastFinished
<1>6. PICK m \in Succeeded : LastFinished = m.finished
    BY <1>5
<1>7. r.finished <= LastFinished /\ OnTime(r.started, r.finished)
    BY <1>1, <1>2, <1>5
<1>8. CASE m.started = r.started
    BY <1>1, <1>2, <1>6, <1>8, FreshnessAssumption DEF OnTime
<1>9. CASE m.started < r.started
    BY <1>1, <1>2, <1>6, <1>7, <1>9, FreshnessAssumption DEF OnTime
<1> QED
    BY <1>1, <1>6, <1>8, <1>9, <1>2

LEMMA ShownFollowsSchedule == FreshnessInv => FreshnessFollowsSchedule
<1> SUFFICES ASSUME FreshnessInv PROVE FreshnessFollowsSchedule
    OBVIOUS
<1>1. DashboardFreshness = "unknown" <=> Succeeded = {}
    BY DEF DashboardFreshness, Assess
<1>2. ASSUME NEW r \in runs, Latest(r)
      PROVE  /\ 2 * (clock - r.started) < 3 * Gap => DashboardFreshness = "fresh"
             /\ clock - r.started >= 3 * Gap => DashboardFreshness = "stale"
    <2> DEFINE t == LastFinished
    <2>1. /\ t \in Nat /\ t <= clock /\ r.started <= t
          /\ 2 * (t - r.started) <= Gap /\ t + 2 * Gap <= Horizon
        BY <1>2, LastFinishIsLatest
    <2>2. /\ r.started \in Schedule /\ r.started \in Nat /\ clock \in Nat
          /\ Gap \in Nat /\ Gap > 0
        BY FreshnessAssumption DEF FreshnessInv, FreshnessType, OnTime, Run
    <2> HIDE DEF t
    <2>3. ExpectedInterval(t) = Gap
        BY <2>1, <2>2, IntervalIsGap
    <2>4. DashboardFreshness = Assess(t, clock)
        BY <1>2 DEF DashboardFreshness, Latest, t
    <2>5. 2 * (clock - r.started) < 3 * Gap => ~(clock - t > 2 * Gap) /\ ~(2 * (clock - t) > 3 * Gap)
        BY <2>1, <2>2
    <2>6. clock - r.started >= 3 * Gap => clock - t > 2 * Gap
        BY <2>1, <2>2
    <2> QED
        BY <2>3, <2>4, <2>5, <2>6 DEF Assess
<1> QED
    BY <1>1, <1>2 DEF FreshnessFollowsSchedule

\* Under any regular schedule, what a dashboard says of the age of its data
\* follows the runs of the schedule.
THEOREM ShownAgeIsRight == FreshnessSpec => []FreshnessFollowsSchedule
<1>1. FreshnessInv /\ [FreshnessNext]_freshnessVars => FreshnessInv'
    BY FreshnessStep
<1> QED
    BY FreshnessInitInv, <1>1, ShownFollowsSchedule, PTL DEF FreshnessSpec

-----------------------------------------------------------------------------
(* Texts.                                                                    *)

Text == Seq(STRING)

Solid(v) == {i \in DOMAIN v : v[i] # " "}

LEMMA TextPlaces ==
    ASSUME NEW v \in Text
    PROVE  /\ Len(v) \in Nat /\ DOMAIN v = 1..Len(v)
           /\ Solid(v) \subseteq 1..Len(v)
           /\ \A i \in Solid(v) : i \in Nat /\ 1 <= i /\ i <= Len(v)
<1>1. Len(v) \in Nat /\ DOMAIN v = 1..Len(v)
    BY DEF Text
<1>2. Solid(v) \subseteq 1..Len(v)
    BY <1>1 DEF Solid
<1>3. ASSUME NEW i \in Solid(v) PROVE i \in Nat /\ 1 <= i /\ i <= Len(v)
    <2>1. i \in 1..Len(v)
        BY <1>2
    <2> QED
        BY <2>1, <1>1
<1> QED
    BY <1>1, <1>2, <1>3

\* Of a text that is not blank, Trim takes what is from its first to its last
\* character other than a blank.
LEMMA TrimSpan ==
    ASSUME NEW v \in Text, ~Blank(v)
    PROVE  \E a, b \in Solid(v) :
              /\ Trim(v) = SubSeq(v, a, b)
              /\ \A i \in Solid(v) : a <= i /\ i <= b
<1> DEFINE S == Solid(v)
<1>1. S \in SUBSET Nat /\ S # {} /\ Len(v) \in Nat /\ \A i \in S : i <= Len(v)
    <2>1. S # {}
        BY DEF Solid, Blank
    <2>2. S \in SUBSET Nat
        BY TextPlaces
    <2> QED
        BY <2>1, <2>2, TextPlaces
<1>2. PICK x \in S : \A y \in S : x <= y
    BY <1>1, LeastExists
<1>3. PICK z \in S : \A y \in S : y <= z
    BY <1>1, GreatestExists
<1> DEFINE a == CHOOSE i \in S : \A j \in S : i <= j
           b == CHOOSE i \in S : \A j \in S : j <= i
<1>4. a \in S /\ \A j \in S : a <= j
    BY <1>2
<1>5. b \in S /\ \A j \in S : j <= b
    BY <1>3
<1>6. Trim(v) = SubSeq(v, a, b)
    BY <1>1 DEF Trim, Solid
<1> HIDE DEF a, b
<1> QED
    BY <1>4, <1>5, <1>6

LEMMA NoText == <<>> \in Text /\ DOMAIN <<>> = {} /\ Len(<<>>) = 0
<1>1. <<>> \in Text /\ Len(<<>>) = 0
    BY DEF Text
<1>2. DOMAIN <<>> = 1..0
    OBVIOUS
<1> QED
    BY <1>1, <1>2

LEMMA TrimOfBlank ==
    ASSUME NEW v \in Text, Blank(v)
    PROVE  Trim(v) = <<>>
BY DEF Trim, Blank

\* What it takes, place by place.
LEMMA TrimPlaces ==
    ASSUME NEW v \in Text, ~Blank(v)
    PROVE  \E a, b \in Solid(v) :
              /\ a \in 1..Len(v) /\ b \in 1..Len(v) /\ a <= b
              /\ \A i \in Solid(v) : a <= i /\ i <= b
              /\ Trim(v) \in Text
              /\ Len(Trim(v)) = b - a + 1
              /\ \A k \in 1..(b - a + 1) : Trim(v)[k] = v[a + k - 1]
<1>1. PICK a, b \in Solid(v) :
              /\ Trim(v) = SubSeq(v, a, b)
              /\ \A i \in Solid(v) : a <= i /\ i <= b
    BY TrimSpan
<1>2. a \in 1..Len(v) /\ b \in 1..Len(v) /\ a <= b
    BY <1>1, TextPlaces
<1>3. SubSeq(v, a, b) \in Text /\ Len(SubSeq(v, a, b)) = b - a + 1
    BY <1>2 DEF Text
<1>4. \A k \in 1..(b - a + 1) : SubSeq(v, a, b)[k] = v[a + k - 1]
    BY <1>2 DEF Text
<1> QED
    BY <1>1, <1>2, <1>3, <1>4

\* A text with no blank at either end is trimmed already.
Tight(v) == v = <<>> \/ (v[1] # " " /\ v[Len(v)] # " ")

LEMMA TrimStays ==
    ASSUME NEW v \in Text, Tight(v)
    PROVE  Trim(v) = v
<1>1. CASE v = <<>>
    <2>1. Blank(v)
        BY <1>1, NoText DEF Blank
    <2> QED
        BY <1>1, <2>1, TrimOfBlank
<1>2. CASE v # <<>>
    <2>0. Len(v) \in Nat /\ Len(v) > 0 /\ 1 \in DOMAIN v /\ Len(v) \in DOMAIN v
        BY <1>2 DEF Text
    <2>1. Len(v) \in Nat /\ Len(v) > 0 /\ 1 \in Solid(v) /\ Len(v) \in Solid(v)
        BY <1>2, <2>0 DEF Solid, Tight
    <2>2. ~Blank(v)
        BY <2>1 DEF Blank, Solid
    <2>3. PICK a, b \in Solid(v) :
              /\ a \in 1..Len(v) /\ b \in 1..Len(v) /\ a <= b
              /\ \A i \in Solid(v) : a <= i /\ i <= b
              /\ Trim(v) \in Text
              /\ Len(Trim(v)) = b - a + 1
              /\ \A k \in 1..(b - a + 1) : Trim(v)[k] = v[a + k - 1]
        BY <2>2, TrimPlaces
    <2>4. a = 1 /\ b = Len(v)
        <3>1. a <= 1 /\ Len(v) <= b
            BY <2>1, <2>3
        <3>2. a \in Nat /\ b \in Nat /\ 1 <= a /\ b <= Len(v)
            BY TextPlaces
        <3> QED
            BY <3>1, <3>2, <2>1
    <2>5. ASSUME NEW k \in 1..Len(v) PROVE Trim(v)[k] = v[k]
        <3>1. b - a + 1 = Len(v) /\ a + k - 1 = k
            BY <2>1, <2>4
        <3> QED
            BY <2>3, <3>1
    <2>6. Len(Trim(v)) = Len(v)
        <3>1. b - a + 1 = Len(v)
            BY <2>1, <2>4
        <3> QED
            BY <2>3, <3>1
    <2> QED
        BY <2>3, <2>5, <2>6 DEF Text
<1> QED
    BY <1>1, <1>2

LEMMA TrimIsText ==
    ASSUME NEW v \in Text
    PROVE  Trim(v) \in Text
<1>1. CASE Blank(v)
    BY <1>1, TrimOfBlank, NoText
<1>2. CASE ~Blank(v)
    BY <1>2, TrimPlaces
<1> QED
    BY <1>1, <1>2

LEMMA TrimTwice ==
    ASSUME NEW v \in Text
    PROVE  Trim(Trim(v)) = Trim(v)
<1>1. CASE Blank(v)
    <2>2. Trim(<<>>) = <<>>
        BY NoText, TrimStays DEF Tight
    <2> QED
        BY <1>1, <2>2, TrimOfBlank
<1>2. CASE ~Blank(v)
    <2>1. PICK a, b \in Solid(v) :
              /\ a \in 1..Len(v) /\ b \in 1..Len(v) /\ a <= b
              /\ \A i \in Solid(v) : a <= i /\ i <= b
              /\ Trim(v) \in Text
              /\ Len(Trim(v)) = b - a + 1
              /\ \A k \in 1..(b - a + 1) : Trim(v)[k] = v[a + k - 1]
        BY <1>2, TrimPlaces
    <2>2. 1 \in 1..(b - a + 1) /\ b - a + 1 \in 1..(b - a + 1) /\ a + 1 - 1 = a /\ a + (b - a + 1) - 1 = b
        BY <2>1
    <2>3. Trim(v)[1] = v[a] /\ Trim(v)[Len(Trim(v))] = v[b]
        BY <2>1, <2>2
    <2>4. Tight(Trim(v)) /\ Trim(v) \in Text
        BY <2>1, <2>3 DEF Solid, Tight
    <2> QED
        BY <2>4, TrimStays
<1> QED
    BY <1>1, <1>2

-----------------------------------------------------------------------------
(* Numbers in texts.                                                         *)

\* The characters that are kept.
KeptOf(v) == {v[i] : i \in Places(v)}

\* Trimming keeps them all.
LEMMA TrimKeeps ==
    ASSUME NEW v \in Text
    PROVE  KeptOf(Trim(v)) = KeptOf(v)
<1>0. " " \notin KeptInNumbers
    BY DEF KeptInNumbers, Digits
<1>1. CASE Blank(v)
    <2>1. Places(v) = {}
        BY <1>0, <1>1 DEF Blank, Places
    <2>2. Places(<<>>) = {}
        BY NoText DEF Places
    <2> QED
        BY <1>1, <2>1, <2>2, TrimOfBlank DEF KeptOf
<1>2. CASE ~Blank(v)
    <2> DEFINE w == Trim(v)
    <2>1. PICK a, b \in Solid(v) :
              /\ a \in 1..Len(v) /\ b \in 1..Len(v) /\ a <= b
              /\ \A i \in Solid(v) : a <= i /\ i <= b
              /\ w \in Text
              /\ Len(w) = b - a + 1
              /\ \A k \in 1..(b - a + 1) : w[k] = v[a + k - 1]
        BY <1>2, TrimPlaces
    <2>2. DOMAIN w = 1..(b - a + 1) /\ DOMAIN v = 1..Len(v) /\ Len(v) \in Nat
        BY <2>1, TextPlaces
    <2> HIDE DEF w
    <2>3. ASSUME NEW k \in Places(w) PROVE w[k] \in KeptOf(v)
        <3>1. k \in 1..(b - a + 1) /\ w[k] \in KeptInNumbers
            BY <2>2 DEF Places
        <3>2. a + k - 1 \in DOMAIN v /\ w[k] = v[a + k - 1]
            BY <2>1, <2>2, <3>1
        <3> QED
            BY <3>1, <3>2 DEF Places, KeptOf
    <2>4. ASSUME NEW i \in Places(v) PROVE v[i] \in KeptOf(w)
        <3>1. i \in Solid(v) /\ v[i] \in KeptInNumbers
            BY <1>0 DEF Places, Solid
        <3>2. a <= i /\ i <= b /\ i \in Nat
            BY <2>1, <3>1, TextPlaces
        <3>3. i - a + 1 \in 1..(b - a + 1) /\ a + (i - a + 1) - 1 = i
            BY <2>1, <3>2
        <3>4. i - a + 1 \in DOMAIN w /\ w[i - a + 1] = v[i]
            BY <2>1, <2>2, <3>3
        <3> QED
            BY <3>1, <3>4 DEF Places, KeptOf
    <2>5. KeptOf(w) = KeptOf(v)
        BY <2>3, <2>4 DEF KeptOf
    <2> QED
        BY <2>5 DEF w
<1> QED
    BY <1>1, <1>2

UpToPlace(v, i) == {j \in Places(v) : j <= i}

\* Each place has its number, and each number its place.
LEMMA PlacesAreNumbered ==
    ASSUME NEW v \in Text
    PROVE  /\ IsFiniteSet(Places(v)) /\ Cardinality(Places(v)) \in Nat
           /\ \A k \in 1..Cardinality(Places(v)) : PlaceOf(v, k) \in Places(v)
           /\ \A i \in Places(v) : \E k \in 1..Cardinality(Places(v)) : PlaceOf(v, k) = i
<1> DEFINE P == Places(v)
           n == Cardinality(P)
           Number(i) == Cardinality(UpToPlace(v, i))
<1>1. Len(v) \in Nat /\ P \in SUBSET (1..Len(v))
    BY TextPlaces DEF Places
<1>2. IsFiniteSet(1..Len(v))
    BY <1>1, FS_Interval
<1>3. IsFiniteSet(P) /\ n \in Nat
    BY <1>1, <1>2, FS_Subset, FS_CardinalityType
<1>4. ASSUME NEW i \in P PROVE Number(i) \in 1..n
    <2>1. UpToPlace(v, i) \in SUBSET P /\ i \in UpToPlace(v, i)
        BY <1>1 DEF UpToPlace
    <2>2. IsFiniteSet(UpToPlace(v, i)) /\ Number(i) <= n /\ Number(i) \in Nat
        BY <1>3, <2>1, FS_Subset, FS_CardinalityType
    <2>3. Number(i) # 0
        BY <2>1, <2>2, FS_EmptySet
    <2> QED
        BY <1>3, <2>2, <2>3
<1>5. ASSUME NEW i \in P, NEW j \in P, Number(i) = Number(j) PROVE i = j
    <2>1. ASSUME NEW x \in P, NEW y \in P, x < y PROVE Number(x) # Number(y)
        <3>1. UpToPlace(v, x) \in SUBSET UpToPlace(v, y) /\ UpToPlace(v, y) \in SUBSET P
            BY <1>1, <2>1 DEF UpToPlace
        <3>2. y \in UpToPlace(v, y) /\ y \notin UpToPlace(v, x)
            BY <1>1, <2>1 DEF UpToPlace
        <3>3. IsFiniteSet(UpToPlace(v, y))
            BY <1>3, <3>1, FS_Subset
        <3> QED
            BY <3>1, <3>2, <3>3, FS_Subset
    <2>2. i \in Nat /\ j \in Nat
        BY <1>1
    <2>3. i < j \/ j < i \/ i = j
        BY <2>2
    <2> QED
        BY <1>5, <2>1, <2>3
<1> DEFINE f == [i \in P |-> Number(i)]
<1>6. f \in Injection(P, 1..n)
    BY <1>4, <1>5 DEF Injection, IsInjective
<1>7. IsFiniteSet(1..n) /\ Cardinality(1..n) = n
    BY <1>3, FS_Interval
<1>8. f \in Surjection(P, 1..n)
    BY <1>3, <1>6, <1>7, FS_Injection
<1>9. ASSUME NEW k \in 1..n PROVE PlaceOf(v, k) \in P /\ Number(PlaceOf(v, k)) = k
    <2>1. \E i \in P : Number(i) = k
        BY <1>8 DEF Surjection
    <2>2. \E i \in Places(v) : Cardinality({j \in Places(v) : j <= i}) = k
        BY <2>1 DEF UpToPlace
    <2> QED
        BY <2>2 DEF PlaceOf, UpToPlace
<1>10. ASSUME NEW i \in P PROVE PlaceOf(v, Number(i)) = i
    BY <1>4, <1>5, <1>9
<1> QED
    BY <1>3, <1>4, <1>9, <1>10

\* Stripping leaves these characters and no other.
LEMMA StripKeeps ==
    ASSUME NEW v \in Text
    PROVE  /\ StripNonNumeric(v) \in Text
           /\ {StripNonNumeric(v)[k] : k \in DOMAIN StripNonNumeric(v)} = KeptOf(v)
<1> DEFINE n == Cardinality(Places(v))
           w == [k \in 1..n |-> v[PlaceOf(v, k)]]
<1>1. v # Null
    BY TextsAssumption DEF Text
<1>2. StripNonNumeric(v) = w
    BY <1>1 DEF StripNonNumeric
<1>3. n \in Nat /\ (\A k \in 1..n : PlaceOf(v, k) \in Places(v))
          /\ (\A i \in Places(v) : \E k \in 1..n : PlaceOf(v, k) = i)
    BY PlacesAreNumbered
<1>4. \A i \in Places(v) : v[i] \in STRING
    BY DEF Places, Text
<1>5. w \in [1..n -> STRING]
    BY <1>3, <1>4
<1>6. w \in Text
    BY <1>3, <1>5 DEF Text
<1>7. {w[k] : k \in DOMAIN w} = KeptOf(v)
    BY <1>3 DEF KeptOf
<1> QED
    BY <1>2, <1>6, <1>7

\* A text of what a number is written with is a number when it has digits only.
LEMMA CastOfKept ==
    ASSUME NEW w \in Text, NEW t \in Numeric, \A i \in DOMAIN w : w[i] \in KeptInNumbers
    PROVE  TryCast(w, t) = Null <=>
               {w[i] : i \in DOMAIN w} = {} \/ ~({w[i] : i \in DOMAIN w} \subseteq Digits)
<1>1. w # Null
    BY TextsAssumption DEF Text
<1>2. Len(w) \in Nat /\ DOMAIN w = 1..Len(w)
    BY TextPlaces
<1>3. Tight(w)
    <2>1. CASE w = <<>>
        BY <2>1 DEF Tight
    <2>2. CASE w # <<>>
        <3>1. 1 \in DOMAIN w /\ Len(w) \in DOMAIN w
            BY <2>2 DEF Text
        <3> QED
            BY <3>1 DEF Tight, KeptInNumbers, Digits
    <2> QED
        BY <2>1, <2>2
<1>4. Trim(w) = w
    BY <1>3, TrimStays
<1>5. w = <<>> <=> {w[i] : i \in DOMAIN w} = {}
    <2>1. w = <<>> => DOMAIN w = {}
        BY NoText
    <2>2. DOMAIN w = {} => w = <<>>
        BY DEF Text
    <2> QED
        BY <2>1, <2>2
<1>6. t \in {"integer", "float", "decimal"}
    BY DEF Numeric
<1>7. TryCast(w, t) = IF w # <<>> /\ \A i \in DOMAIN w : w[i] \in Digits THEN w ELSE Null
    BY <1>1, <1>4, <1>6 DEF TryCast
<1> QED
    BY <1>1, <1>5, <1>7

\* The type rule and the transformation agree on what converts.
LEMMA CastAgrees ==
    ASSUME NEW v \in Text, ~Blank(v), NEW t
    PROVE  TryCast(Candidate(v, t), t) = Null <=>
               TryCast(IF t \in Numeric THEN StripNonNumeric(BlankToNull(v))
                       ELSE BlankToNull(v), t) = Null
<1>1. v # Null /\ BlankToNull(v) = Trim(v)
    BY TextsAssumption DEF Text, BlankToNull
<1>2. Trim(v) \in Text /\ Trim(v) # Null
    BY TrimIsText, TextsAssumption DEF Text
<1>3. CASE t \in Numeric
    <2> DEFINE x == StripNonNumeric(v)
               y == StripNonNumeric(Trim(v))
    <2>1. x \in Text /\ {x[k] : k \in DOMAIN x} = KeptOf(v)
        BY StripKeeps
    <2>2. y \in Text /\ {y[k] : k \in DOMAIN y} = KeptOf(v)
        BY <1>2, StripKeeps, TrimKeeps
    <2>3. KeptOf(v) \subseteq KeptInNumbers
        BY DEF KeptOf, Places
    <2> HIDE DEF x, y
    <2>4. TryCast(x, t) = Null <=> TryCast(y, t) = Null
        BY <1>3, <2>1, <2>2, <2>3, CastOfKept
    <2> QED
        BY <1>1, <1>3, <2>4 DEF Candidate, x, y
<1>4. CASE t \notin Numeric
    <2>1. t \notin {"integer", "float", "decimal"}
        BY <1>4 DEF Numeric
    <2>2. Trim(Trim(v)) = Trim(v)
        BY TrimTwice
    <2>3. TryCast(v, t) = TryCast(Trim(v), t)
        BY <1>1, <1>2, <2>1, <2>2 DEF TryCast
    <2> QED
        BY <1>1, <1>4, <2>3 DEF Candidate
<1> QED
    BY <1>3, <1>4

-----------------------------------------------------------------------------
(* Refining a load.                                                          *)

Row(columns) == [NamesOf(columns, DOMAIN columns) -> Cells]

QualityInv ==
    /\ load.columns \in Layouts
    /\ load.rows \in [RowIds -> Row(load.columns)]
    /\ NothingLostInSilver

\* A value is a text or missing.
LEMMA CellsAreTexts ==
    ASSUME NEW columns \in Layouts, NEW row \in Row(columns), NEW k \in DOMAIN columns
    PROVE  At(row, columns[k]) \in Text \/ At(row, columns[k]) = Null
BY QualityAssumption DEF Row, At, NamesOf, Text

\* Of a column that is kept, what silver says is what its own projection says.
LEMMA SilverOfColumn ==
    ASSUME NEW columns \in Layouts, NEW row, NEW k \in KeptColumns(columns)
    PROVE  At(SilverRow(columns, row), columns[k]) = Project(columns[k], At(row, columns[k]))
<1> DEFINE n == columns[k].name
           m == CHOOSE i \in KeptColumns(columns) : columns[i].name = n
<1>1. m \in KeptColumns(columns) /\ columns[m].name = n
    OBVIOUS
<1>2. m = k
    BY <1>1, QualityAssumption DEF KeptColumns
<1>3. ColumnAt(columns, n) = columns[k]
    BY <1>2 DEF ColumnAt
<1>4. n \in NamesOf(columns, KeptColumns(columns))
    BY DEF NamesOf
<1> QED
    BY <1>3, <1>4 DEF SilverRow, At

\* The rules of a column that a row may be rejected for, and when it is.
LEMMA RejectedByColumn ==
    ASSUME NEW c, NEW keys, NEW sampled, NEW row,
           At(row, c) \in Text \/ At(row, c) = Null
    PROVE  (\E r \in RulesFor(c, keys, sampled) : r.severity = "reject" /\ Fails(r, row)) <=>
              \/ c.name \in keys /\ At(row, c) = Null
              \/ c.shadow # "" /\ Meant(At(row, c)) /\ Project(c, At(row, c)) = Null
<1> DEFINE v == At(row, c)
           required == Rule("not_null", c.name, "reject", {})
           typed == Rule("type", c.name, "reject", {c.shadow})
<1>a. required.kind = "not_null" /\ required.column = c.name
    BY DEF Rule
<1>b. typed.kind = "type" /\ typed.column = c.name /\ typed.param = {c.shadow}
    BY DEF Rule
<1>c. v = row[c.name]
    BY DEF At
<1>4. ASSUME NEW r \in RulesFor(c, keys, sampled), r.severity = "reject"
      PROVE  (r = required /\ c.name \in keys) \/ (r = typed /\ c.shadow # "")
    <2>1. Rule("not_null", c.name, "warn", {}).severity # "reject"
        BY DEF Rule
    <2>2. Rule("allowed_values", c.name, "warn", c.domain).severity # "reject"
        BY DEF Rule
    <2> QED
        BY <1>4, <2>1, <2>2 DEF RulesFor
<1> HIDE DEF v, required, typed
<1>1. Fails(required, row) <=> v = Null
    BY <1>a, <1>c DEF Fails
<1>2. Fails(typed, row) <=> Meant(v) /\ TryCast(Candidate(v, c.shadow), c.shadow) = Null
    BY <1>b, <1>c DEF Fails, Meant
<1>3. ASSUME c.shadow # "", Meant(v)
      PROVE  TryCast(Candidate(v, c.shadow), c.shadow) = Null <=> Project(c, v) = Null
    <2>1. v \in Text /\ ~Blank(v)
        BY <1>3 DEF Meant, v
    <2>2. Project(c, v) = TryCast(IF c.shadow \in Numeric THEN StripNonNumeric(BlankToNull(v))
                                  ELSE BlankToNull(v), c.shadow)
        BY <1>3 DEF Project
    <2> QED
        BY <2>1, <2>2, CastAgrees
<1>5. /\ c.name \in keys => required \in RulesFor(c, keys, sampled)
      /\ c.shadow # "" => typed \in RulesFor(c, keys, sampled)
      /\ required.severity = "reject" /\ typed.severity = "reject"
    BY DEF RulesFor, Rule, required, typed
<1>6. ASSUME NEW r \in RulesFor(c, keys, sampled), r.severity = "reject", Fails(r, row)
      PROVE  \/ c.name \in keys /\ v = Null
             \/ c.shadow # "" /\ Meant(v) /\ Project(c, v) = Null
    BY <1>1, <1>2, <1>3, <1>4, <1>6
<1> QED
    BY <1>1, <1>2, <1>3, <1>5, <1>6 DEF v

\* Rows are kept or held back for their values alone.
LEMMA RejectedByRow ==
    ASSUME NEW table, table.columns \in Layouts, NEW row \in Row(table.columns)
    PROVE  ~Passes(PolicyOf(table), row) <=>
              \E k \in DOMAIN table.columns :
                 LET c == table.columns[k]
                 IN  \/ c.name \in table.keys /\ At(row, c) = Null
                     \/ c.shadow # "" /\ Meant(At(row, c)) /\ Project(c, At(row, c)) = Null
<1> DEFINE columns == table.columns
           Rejects(k) == \E r \in RulesFor(columns[k], table.keys, table.sampled) :
                            r.severity = "reject" /\ Fails(r, row)
<1>1. PolicyOf(table) =
          UNION {RulesFor(columns[k], table.keys, table.sampled) : k \in DOMAIN columns}
    BY DEF PolicyOf, DerivePolicy
<1>2. ~Passes(PolicyOf(table), row) <=> \E k \in DOMAIN columns : Rejects(k)
    BY <1>1 DEF Passes, Broken
<1>3. ASSUME NEW k \in DOMAIN columns
      PROVE  Rejects(k) <=>
                \/ columns[k].name \in table.keys /\ At(row, columns[k]) = Null
                \/ /\ columns[k].shadow # "" /\ Meant(At(row, columns[k]))
                   /\ Project(columns[k], At(row, columns[k])) = Null
    <2> DEFINE c == columns[k]
    <2>1. At(row, c) \in Text \/ At(row, c) = Null
        BY CellsAreTexts
    <2> HIDE DEF c
    <2>2. (\E r \in RulesFor(c, table.keys, table.sampled) : r.severity = "reject" /\ Fails(r, row))
             <=> \/ c.name \in table.keys /\ At(row, c) = Null
                 \/ c.shadow # "" /\ Meant(At(row, c)) /\ Project(c, At(row, c)) = Null
        BY <2>1, RejectedByColumn
    <2> QED
        BY <2>2 DEF c
<1> QED
    BY <1>2, <1>3

\* A value that means something stays when its row breaks no rule.
LEMMA MeantStays ==
    ASSUME NEW table, table.columns \in Layouts, NEW row \in Row(table.columns),
           Passes(PolicyOf(table), row), NEW k \in KeptColumns(table.columns),
           Meant(At(row, table.columns[k]))
    PROVE  At(SilverRow(table.columns, row), table.columns[k]) # Null
<1> DEFINE c == table.columns[k]
           v == At(row, c)
<1>1. k \in DOMAIN table.columns
    BY DEF KeptColumns
<1>2. At(SilverRow(table.columns, row), c) = Project(c, v)
    BY SilverOfColumn
<1>3. ~(c.shadow # "" /\ Meant(v) /\ Project(c, v) = Null)
    BY <1>1, RejectedByRow
<1>4. v \in Text /\ v # Null /\ ~Blank(v)
    BY <1>1, CellsAreTexts DEF Meant
<1>5. BlankToNull(v) # Null
    BY <1>4, TrimIsText, TextsAssumption DEF BlankToNull, Text
<1> HIDE DEF c, v
<1>6. Meant(v)
    BY DEF c, v
<1>7. Project(c, v) # Null
    BY <1>3, <1>4, <1>5, <1>6 DEF Project
<1> QED
    BY <1>2, <1>7 DEF c

LEMMA QualityInitInv == QualityInit => QualityInv
<1> SUFFICES ASSUME QualityInit PROVE QualityInv
    OBVIOUS
<1>1. load.columns \in Layouts /\ load.rows \in [RowIds -> Row(load.columns)]
    BY DEF QualityInit, Row
<1>2. DOMAIN written = {} /\ DOMAIN held = {}
    BY DEF QualityInit
<1> QED
    BY <1>1, <1>2 DEF QualityInv, NothingLostInSilver

LEMMA QualityStep == QualityInv /\ [RefineLoad]_qualityVars => QualityInv'
<1> SUFFICES ASSUME QualityInv, [RefineLoad]_qualityVars PROVE QualityInv'
    OBVIOUS
<1>1. CASE RefineLoad
    <2> DEFINE policy == PolicyOf(load)
               passing == {i \in RowIds : Passes(policy, load.rows[i])}
    <2>1. /\ load' = load
          /\ written' = [i \in passing |-> SilverRow(load.columns, load.rows[i])]
          /\ DOMAIN held' = RowIds \ passing
        BY <1>1 DEF RefineLoad, RefineRows
    <2>2. load.columns \in Layouts /\ load.rows \in [RowIds -> Row(load.columns)]
        BY DEF QualityInv
    <2>3. ASSUME NEW i \in passing, NEW k \in KeptColumns(load.columns),
                 Meant(At(load.rows[i], load.columns[k]))
          PROVE  At(written'[i], load.columns[k]) # Null
        <3>1. written'[i] = SilverRow(load.columns, load.rows[i])
            BY <2>1
        <3>2. load.rows[i] \in Row(load.columns) /\ Passes(PolicyOf(load), load.rows[i])
            BY <2>2
        <3> QED
            BY <2>2, <2>3, <3>1, <3>2, MeantStays
    <2>4. ASSUME NEW i \in RowIds \ passing
          PROVE  \E k \in DOMAIN load.columns :
                    LET c == load.columns[k]
                        v == At(load.rows[i], c)
                    IN  (c.name \in load.keys /\ v = Null) \/ (Meant(v) /\ Project(c, v) = Null)
        <3>1. load.rows[i] \in Row(load.columns) /\ ~Passes(PolicyOf(load), load.rows[i])
            BY <2>2
        <3> QED
            BY <2>2, <3>1, RejectedByRow
    <2> HIDE DEF passing
    <2>5. DOMAIN written' = passing
        BY <2>1
    <2>6. NothingLostInSilver'
        BY <2>1, <2>3, <2>4, <2>5 DEF NothingLostInSilver
    <2> QED
        BY <2>1, <2>2, <2>6 DEF QualityInv
<1>2. CASE UNCHANGED qualityVars
    BY <1>2 DEF qualityVars, QualityInv, NothingLostInSilver
<1> QED
    BY <1>1, <1>2

\* Whatever the table, its keys and its values: a row reaches silver with every
\* value it had, and is held back only for one that silver could not keep.
THEOREM RefiningLosesNothing == QualitySpec => []NothingLostInSilver
<1>1. QualityInv /\ [RefineLoad]_qualityVars => QualityInv'
    BY QualityStep
<1>2. QualityInv => NothingLostInSilver
    BY DEF QualityInv
<1> QED
    BY QualityInitInv, <1>1, <1>2, PTL DEF QualitySpec

-----------------------------------------------------------------------------
(* Credentials.                                                              *)

\* The secrets a form comes to.
SecretsOf(values) == Part(values, TRUE)

\* What there is of a connection in the vault.
InVault(c, n) == ReferenceFor(c, n) \in DOMAIN vault
ValueOf(c, n) == vault[ReferenceFor(c, n)]

\* A connection that is there has what was submitted for it, all of it unless it
\* was to be deleted.
Holding(c) ==
    /\ connections[c].fields = DOMAIN SecretsOf(made[c].values)
    /\ made[c].end \in {"created", "undeleted"}
    /\ Kept(c) \subseteq connections[c].fields
    /\ made[c].end = "created" => connections[c].fields \subseteq Kept(c)
    /\ \A n \in Kept(c) : ValueOf(c, n) = SecretsOf(made[c].values)[n]

Left(c) ==
    \/ Kept(c) \subseteq made[c].left
    \/ made[c].end = "raised" /\ Kept(c) = DOMAIN SecretsOf(made[c].values)

CredentialsInv ==
    /\ DOMAIN connections \subseteq DOMAIN made
    /\ \A r \in DOMAIN vault : r[1] \in DOMAIN made
    /\ \A c \in DOMAIN made :
          /\ made[c].values \in Submissions /\ Missing(made[c].values) = {}
          /\ c \in DOMAIN connections => Holding(c)
          /\ c \notin DOMAIN connections => Left(c)

LEMMA SplitParts ==
    ASSUME NEW values, Missing(values) = {}
    PROVE  /\ SplitPayload(values) = <<[config |-> Part(values, FALSE), secrets |-> Part(values, TRUE)]>>
           /\ SplitPayload(values)[1].secrets = SecretsOf(values)
BY DEF SplitPayload, SecretsOf

LEMMA SecretsAreSecret ==
    ASSUME NEW values
    PROVE  /\ DOMAIN SecretsOf(values) = {n \in SecretFields : Filled(n, values)}
           /\ \A n \in DOMAIN SecretsOf(values) : SecretsOf(values)[n] = Trim(Raw(n, values))
BY CredentialsAssumption DEF SecretsOf, Part, SecretFields

\* References of two connections differ, and so do those of two fields.
LEMMA ReferencesDiffer ==
    ASSUME NEW c, NEW names, NEW d, NEW n
    PROVE  /\ ReferenceFor(d, n) \in References(c, names) <=> d = c /\ n \in names
           /\ ReferenceFor(d, n)[1] = d /\ ReferenceFor(d, n)[2] = n
           /\ \A r \in References(c, names) : r[1] = c
BY DEF References, ReferenceFor

-----------------------------------------------------------------------------
(* An edit that types no secret.                                             *)

\* Two submissions that agree on what is not secret.
Agree(one, two) ==
    \A key : key \notin SecretFields =>
        /\ key \in DOMAIN one <=> key \in DOMAIN two
        /\ key \in DOMAIN one => one[key] = two[key]

LEMMA AgreeShows ==
    ASSUME NEW one, NEW two, Agree(one, two), NEW n \in DOMAIN Form
    PROVE  /\ Visible(n, one) <=> Visible(n, two)
           /\ n \notin SecretFields => Raw(n, one) = Raw(n, two)
<1>1. \A key \in DOMAIN Form[n].shownIf : key \notin SecretFields
    BY CredentialsAssumption
<1>2. Visible(n, one) <=> Visible(n, two)
    BY <1>1 DEF Visible, Agree
<1>3. n \notin SecretFields => Raw(n, one) = Raw(n, two)
    BY DEF Raw, Agree
<1> QED
    BY <1>2, <1>3

\* What an edit without secrets is merged to: the stored ones, and nothing else.
LEMMA MergedIs ==
    ASSUME CredentialsInv, NEW c \in DOMAIN connections
    PROVE  LET m == MergeStored(c, Untyped(made[c].values))
           IN  /\ Agree(m, made[c].values)
               /\ SecretFields \subseteq DOMAIN m
               /\ \A n \in SecretFields :
                     m[n] = IF n \in Kept(c) THEN SecretsOf(made[c].values)[n] ELSE <<>>
<1> DEFINE values == made[c].values
           u == Untyped(values)
           fields == connections[c].fields
           stored == {n \in fields : InVault(c, n)}
           m == MergeStored(c, u)
<1>1. Holding(c)
    BY DEF CredentialsInv
<1>2. fields \subseteq SecretFields
    BY <1>1, SecretsAreSecret DEF Holding
<1>3. stored = Kept(c) /\ stored \subseteq SecretFields
    BY <1>1, <1>2 DEF Holding, Kept, InVault
<1>4. /\ DOMAIN u = DOMAIN values \cup SecretFields
      /\ \A n \in DOMAIN u : u[n] = IF n \in SecretFields THEN <<>> ELSE values[n]
    BY DEF Untyped
<1>5. /\ DOMAIN m = DOMAIN u
      /\ \A n \in DOMAIN u : m[n] = IF n \in stored THEN ValueOf(c, n) ELSE u[n]
    <2>1. CASE fields = {}
        BY <2>1 DEF MergeStored
    <2>2. CASE fields # {}
        <3>1. m = [n \in DOMAIN u \cup stored |->
                      IF Typed(n, u) \/ n \notin stored THEN u[n] ELSE ValueOf(c, n)]
            BY <2>2 DEF MergeStored, MergeSecrets, InVault, ValueOf
        <3>2. stored \subseteq DOMAIN u
            BY <1>3, <1>4
        <3>3. \A n \in stored : ~Typed(n, u)
            BY <1>3, <1>4 DEF Typed
        <3> HIDE DEF m, u, stored
        <3> QED
            BY <3>1, <3>2, <3>3
    <2> QED
        BY <2>1, <2>2
<1>6. \A n \in stored : ValueOf(c, n) = SecretsOf(values)[n]
    BY <1>1, <1>3 DEF Holding
<1> HIDE DEF m, u, stored, values
<1>7. Agree(m, values)
    BY <1>3, <1>4, <1>5 DEF Agree
<1>8. \A n \in SecretFields : m[n] = IF n \in Kept(c) THEN SecretsOf(values)[n] ELSE <<>>
    BY <1>3, <1>4, <1>5, <1>6
<1> QED
    BY <1>4, <1>5, <1>7, <1>8 DEF m, u, values

LEMMA RawIsText ==
    ASSUME NEW values \in Submissions, NEW n \in DOMAIN Form
    PROVE  Raw(n, values) \in Text
BY CredentialsAssumption DEF Raw, Text

\* Submissions that fill the same fields with the same texts come to the same.
LEMMA SameParts ==
    ASSUME NEW one, NEW two, NEW secret,
           \A n \in DOMAIN Form : /\ Filled(n, one) <=> Filled(n, two)
                                  /\ Filled(n, two) => Trim(Raw(n, one)) = Trim(Raw(n, two))
    PROVE  Part(one, secret) = Part(two, secret)
<1> DEFINE F(values) == {n \in DOMAIN Form : Form[n].secret = secret /\ Filled(n, values)}
<1>1. F(one) = F(two)
    OBVIOUS
<1>2. \A n \in F(two) : Trim(Raw(n, one)) = Trim(Raw(n, two))
    OBVIOUS
<1>3. Part(one, secret) = [n \in F(one) |-> Trim(Raw(n, one))]
    BY DEF Part
<1>4. Part(two, secret) = [n \in F(two) |-> Trim(Raw(n, two))]
    BY DEF Part
<1> HIDE DEF F
<1> QED
    BY <1>1, <1>2, <1>3, <1>4

LEMMA EditIsSame ==
    ASSUME CredentialsInv, NEW c \in DOMAIN connections, made[c].end = "created",
           \A n \in DOMAIN SecretsOf(made[c].values) : SecretsOf(made[c].values)[n] # <<>>
    PROVE  TestedWith(c, Untyped(made[c].values)) = SplitPayload(made[c].values)
<1> DEFINE values == made[c].values
           m == MergeStored(c, Untyped(values))
           S == SecretsOf(values)
<1>1. /\ values \in Submissions /\ Missing(values) = {}
      /\ Kept(c) = DOMAIN S
    <2>1. Holding(c) /\ c \in DOMAIN made
        BY DEF CredentialsInv
    <2> QED
        BY <2>1 DEF CredentialsInv, Holding
<1>2. /\ Agree(m, values) /\ SecretFields \subseteq DOMAIN m
      /\ \A n \in SecretFields : m[n] = IF n \in DOMAIN S THEN S[n] ELSE <<>>
    BY <1>1, MergedIs
<1>3. /\ DOMAIN S = {n \in SecretFields : Filled(n, values)}
      /\ \A n \in DOMAIN S : S[n] = Trim(Raw(n, values)) /\ S[n] # <<>>
    BY SecretsAreSecret
<1> HIDE DEF values, m, S
<1>4. ASSUME NEW n \in DOMAIN Form
      PROVE  /\ Filled(n, m) <=> Filled(n, values)
             /\ Filled(n, values) => Trim(Raw(n, m)) = Trim(Raw(n, values))
             /\ Visible(n, m) <=> Visible(n, values)
             /\ n \notin SecretFields => Raw(n, m) = Raw(n, values)
    <2>1. Visible(n, m) <=> Visible(n, values)
        BY <1>2, AgreeShows
    <2>2. CASE n \notin SecretFields
        BY <1>2, <2>1, <2>2, AgreeShows DEF Filled
    <2>3. CASE n \in SecretFields
        <3>1. Raw(n, m) = IF n \in DOMAIN S THEN S[n] ELSE <<>>
            BY <1>2, <2>3 DEF Raw
        <3>2. n \in DOMAIN S <=> Filled(n, values)
            BY <1>3, <2>3
        <3>3. Filled(n, m) <=> Filled(n, values)
            BY <1>3, <2>1, <3>1, <3>2 DEF Filled
        <3>4. Trim(Trim(Raw(n, values))) = Trim(Raw(n, values))
            BY <1>1, RawIsText, TrimTwice
        <3> QED
            BY <1>3, <2>1, <2>3, <3>1, <3>2, <3>3, <3>4
    <2> QED
        BY <2>2, <2>3
<1>5. Missing(m) = {}
    <2> SUFFICES ASSUME NEW n \in Missing(m) PROVE FALSE
        OBVIOUS
    <2>1. n \in DOMAIN Form /\ Form[n].required /\ Visible(n, m) /\ Raw(n, m) = <<>>
        BY DEF Missing
    <2>2. Visible(n, values) /\ Raw(n, values) # <<>>
        BY <1>1, <1>4, <2>1 DEF Missing
    <2> QED
        BY <1>4, <2>1, <2>2 DEF Filled
<1>6. Part(m, FALSE) = Part(values, FALSE) /\ Part(m, TRUE) = Part(values, TRUE)
    BY <1>4, SameParts
<1>7. SplitPayload(m) = SplitPayload(values)
    BY <1>1, <1>5, <1>6 DEF SplitPayload
<1> QED
    BY <1>7 DEF TestedWith, m, values

\* A required secret that is gone is missing from an edit that types none.
LEMMA GoneIsAskedFor ==
    ASSUME CredentialsInv, NEW c \in DOMAIN connections
    PROVE  AskedAgain(c)
<1> DEFINE values == made[c].values
           m == MergeStored(c, Untyped(values))
<1> SUFFICES ASSUME NEW n \in connections[c].fields \ Kept(c), Form[n].required
             PROVE  TestedWith(c, Untyped(values)) = <<>>
    BY DEF AskedAgain
<1>1. connections[c].fields = {k \in SecretFields : Filled(k, values)}
    BY SecretsAreSecret DEF CredentialsInv, Holding
<1>2. n \in SecretFields /\ n \in DOMAIN Form /\ Visible(n, values)
    BY <1>1 DEF Filled, SecretFields
<1>3. /\ Agree(m, values) /\ n \in DOMAIN m /\ m[n] = <<>>
    BY <1>2, MergedIs
<1> HIDE DEF m, values
<1>4. Visible(n, m)
    BY <1>2, <1>3, AgreeShows
<1>5. n \in Missing(m)
    BY <1>2, <1>3, <1>4 DEF Missing, Raw
<1> QED
    BY <1>5 DEF TestedWith, SplitPayload, m

LEMMA CreatedLoads ==
    ASSUME CredentialsInv, NEW c \in DOMAIN connections, made[c].end = "created"
    PROVE  LoadSecrets(c) = <<SecretsOf(made[c].values)>>
<1> DEFINE S == SecretsOf(made[c].values)
           fields == connections[c].fields
<1>1. /\ fields = DOMAIN S /\ fields \subseteq Kept(c)
      /\ \A n \in Kept(c) : vault[ReferenceFor(c, n)] = S[n]
    BY DEF CredentialsInv, Holding, ValueOf
<1>2. References(c, fields) \subseteq DOMAIN vault
    BY <1>1 DEF References, Kept
<1>3. S = [n \in DOMAIN S |-> S[n]]
    BY DEF SecretsOf, Part
<1> HIDE DEF S
<1>4. [n \in fields |-> vault[ReferenceFor(c, n)]] = S
    BY <1>1, <1>3
<1> QED
    BY <1>2, <1>4 DEF LoadSecrets, S

LEMMA InvIsWhole == CredentialsInv => CredentialsAreWhole
<1> SUFFICES ASSUME CredentialsInv, NEW c \in DOMAIN made
             PROVE  IF c \in DOMAIN connections
                    THEN \/ made[c].end = "created" /\ Whole(c)
                         \/ made[c].end = "undeleted" /\ AskedAgain(c)
                    ELSE \/ Kept(c) \subseteq made[c].left
                         \/ made[c].end = "raised" /\ Kept(c) = DOMAIN AskedFor(c)
    BY DEF CredentialsAreWhole
<1>1. AskedFor(c) = SecretsOf(made[c].values)
    BY SplitParts DEF CredentialsInv, AskedFor
<1>2. CASE c \notin DOMAIN connections
    BY <1>1, <1>2 DEF CredentialsInv, Left
<1>3. CASE c \in DOMAIN connections
    <2>1. made[c].end \in {"created", "undeleted"}
        BY <1>3 DEF CredentialsInv, Holding
    <2>2. AskedAgain(c)
        BY <1>3, GoneIsAskedFor
    <2>3. made[c].end = "created" => Whole(c)
        BY <1>1, <1>3, CreatedLoads, EditIsSame DEF Whole
    <2> QED
        BY <1>3, <2>1, <2>2, <2>3
<1> QED
    BY <1>2, <1>3

-----------------------------------------------------------------------------
(* The routes keep it.                                                       *)

LEMMA CredentialsInitInv == CredentialsInit => CredentialsInv
<1> SUFFICES ASSUME CredentialsInit PROVE CredentialsInv
    OBVIOUS
<1>1. DOMAIN vault = {} /\ DOMAIN connections = {} /\ DOMAIN made = {}
    BY DEF CredentialsInit
<1> QED
    BY <1>1 DEF CredentialsInv

\* What a step leaves alone of a connection.
Untouched(d) ==
    /\ made'[d] = made[d]
    /\ d \in DOMAIN connections' <=> d \in DOMAIN connections
    /\ d \in DOMAIN connections => connections'[d] = connections[d]
    /\ \A n : InVault(d, n)' <=> InVault(d, n)
    /\ \A n : InVault(d, n) => ValueOf(d, n)' = ValueOf(d, n)

LEMMA UntouchedStays ==
    ASSUME NEW d, Untouched(d)
    PROVE  /\ d \in DOMAIN connections /\ Holding(d) => Holding(d)'
           /\ Left(d) => Left(d)'
<1>1. Kept(d)' = Kept(d)
    BY DEF Untouched, Kept, InVault
<1>2. \A n \in Kept(d) : ValueOf(d, n)' = ValueOf(d, n)
    BY DEF Untouched, Kept, InVault
<1>3. d \in DOMAIN connections /\ Holding(d) => Holding(d)'
    BY <1>1, <1>2 DEF Untouched, Holding
<1>4. Left(d) => Left(d)'
    BY <1>1 DEF Untouched, Left
<1> QED
    BY <1>3, <1>4

\* A step that touches one connection keeps the invariant when it keeps it of
\* that one.
LEMMA OneTouched ==
    ASSUME CredentialsInv, NEW c,
           DOMAIN made' = DOMAIN made \cup {c},
           DOMAIN connections' \subseteq DOMAIN connections \cup {c},
           \A r \in DOMAIN vault' : r \in DOMAIN vault \/ r[1] = c,
           \A d \in DOMAIN made : d # c => Untouched(d),
           made'[c].values \in Submissions, Missing(made'[c].values) = {},
           c \in DOMAIN connections' => Holding(c)',
           c \notin DOMAIN connections' => Left(c)'
    PROVE  CredentialsInv'
<1>1. (DOMAIN connections \subseteq DOMAIN made)'
    BY DEF CredentialsInv
<1>2. (\A r \in DOMAIN vault : r[1] \in DOMAIN made)'
    BY DEF CredentialsInv
<1>3. ASSUME NEW d \in DOMAIN made'
      PROVE  (/\ made[d].values \in Submissions /\ Missing(made[d].values) = {}
              /\ d \in DOMAIN connections => Holding(d)
              /\ d \notin DOMAIN connections => Left(d))'
    <2>1. CASE d = c
        BY <2>1
    <2>2. CASE d # c
        <3>1. d \in DOMAIN made /\ Untouched(d)
            BY <2>2
        <3>2. /\ made[d].values \in Submissions /\ Missing(made[d].values) = {}
              /\ d \in DOMAIN connections => Holding(d)
              /\ d \notin DOMAIN connections => Left(d)
            BY <3>1 DEF CredentialsInv
        <3>3. d \in DOMAIN connections' <=> d \in DOMAIN connections
            BY <3>1 DEF Untouched
        <3>4. made'[d] = made[d]
            BY <3>1 DEF Untouched
        <3> QED
            BY <3>1, <3>2, <3>3, <3>4, UntouchedStays
    <2> QED
        BY <2>1, <2>2
<1> QED
    BY <1>1, <1>2, <1>3 DEF CredentialsInv

\* Nothing is kept yet under an id that was not given.
LEMMA FreshHasNothing ==
    ASSUME CredentialsInv, NEW c, c \notin DOMAIN made
    PROVE  /\ \A n : ~InVault(c, n)
           /\ c \notin DOMAIN connections
BY ReferencesDiffer DEF CredentialsInv, InVault

\* What a batch of puts changes.
Stores(after, c, secrets, names) ==
    /\ DOMAIN after = DOMAIN vault \cup References(c, names)
    /\ \A d, n : d # c => (ReferenceFor(d, n) \in DOMAIN after <=> InVault(d, n))
    /\ \A d, n : d # c /\ InVault(d, n) => after[ReferenceFor(d, n)] = ValueOf(d, n)
    /\ \A n \in names : after[ReferenceFor(c, n)] = secrets[n]

LEMMA PutEffect ==
    ASSUME NEW c, NEW secrets, NEW names
    PROVE  Stores(Put(c, secrets, names), c, secrets, names)
<1> DEFINE after == Put(c, secrets, names)
<1>1. /\ DOMAIN after = DOMAIN vault \cup References(c, names)
      /\ \A r \in DOMAIN after : after[r] = IF r \in References(c, names) THEN secrets[r[2]] ELSE vault[r]
    BY DEF Put
<1> HIDE DEF after
<1>2. ASSUME NEW d, NEW n, d # c
      PROVE  /\ ReferenceFor(d, n) \in DOMAIN after <=> InVault(d, n)
             /\ InVault(d, n) => after[ReferenceFor(d, n)] = ValueOf(d, n)
    <2>1. ReferenceFor(d, n) \notin References(c, names)
        BY <1>2, ReferencesDiffer
    <2> QED
        BY <1>1, <2>1 DEF InVault, ValueOf
<1>3. ASSUME NEW n \in names PROVE after[ReferenceFor(c, n)] = secrets[n]
    <2>1. ReferenceFor(c, n) \in References(c, names) /\ ReferenceFor(c, n)[2] = n
        BY ReferencesDiffer
    <2> QED
        BY <1>1, <2>1
<1>4. Stores(after, c, secrets, names)
    BY <1>1, <1>2, <1>3 DEF Stores
<1> QED
    BY <1>4 DEF after

\* What deleting some of the references of a connection changes.
LEMMA DeleteEffect ==
    ASSUME NEW store, NEW c, NEW names, NEW stuck
    PROVE  LET after == DeleteMany(store, References(c, names), References(c, stuck))
           IN  /\ DOMAIN after \subseteq DOMAIN store
               /\ \A d, n : d # c =>
                     (ReferenceFor(d, n) \in DOMAIN after <=> ReferenceFor(d, n) \in DOMAIN store)
               /\ \A n : ReferenceFor(c, n) \in DOMAIN after <=>
                     ReferenceFor(c, n) \in DOMAIN store /\ (n \notin names \/ n \in stuck)
               /\ \A r \in DOMAIN after : after[r] = store[r]
<1> DEFINE after == DeleteMany(store, References(c, names), References(c, stuck))
           gone == References(c, names) \ References(c, stuck)
<1>1. DOMAIN after = DOMAIN store \ gone /\ \A r \in DOMAIN after : after[r] = store[r]
    BY DEF DeleteMany, Without
<1>2. \A d, n : ReferenceFor(d, n) \in gone <=> d = c /\ n \in names /\ n \notin stuck
    BY ReferencesDiffer
<1> HIDE DEF after, gone
<1> QED
    BY <1>1, <1>2 DEF after

\* What is recorded of a connection, and that nothing is of another.
LEMMA MadeEffect ==
    ASSUME NEW c, NEW values, NEW end, NEW left, Made(c, values, end, left)
    PROVE  /\ DOMAIN made' = DOMAIN made \cup {c}
           /\ made'[c].values = values /\ made'[c].end = end /\ made'[c].left = left
           /\ \A d \in DOMAIN made : d # c => made'[d] = made[d]
BY DEF Made

LEMMA CreateKeeps ==
    ASSUME CredentialsInv, NEW c, NEW name, NEW values \in Submissions,
           CreateConnection(c, name, values)
    PROVE  CredentialsInv'
<1> DEFINE S == SecretsOf(values)
           full == Put(c, S, DOMAIN S)
<1>1. Missing(values) = {} /\ SplitPayload(values)[1].secrets = S /\ c \notin DOMAIN made
    <2>1. Missing(values) = {}
        BY DEF CreateConnection, Accepted, SplitPayload
    <2> QED
        BY <2>1, SplitParts DEF CreateConnection
<1>2. (\A n : ~InVault(c, n)) /\ c \notin DOMAIN connections
    BY <1>1, FreshHasNothing
<1>3. DOMAIN S \subseteq SecretFields
    BY SecretsAreSecret
<1> HIDE DEF S
<1>4. /\ DOMAIN full = DOMAIN vault \cup References(c, DOMAIN S)
      /\ \A d, n : d # c => (ReferenceFor(d, n) \in DOMAIN full <=> InVault(d, n))
      /\ \A d, n : d # c /\ InVault(d, n) => full[ReferenceFor(d, n)] = ValueOf(d, n)
      /\ \A n \in DOMAIN S : full[ReferenceFor(c, n)] = S[n]
    <2>1. Stores(Put(c, S, DOMAIN S), c, S, DOMAIN S)
        BY PutEffect
    <2>2. Stores(full, c, S, DOMAIN S)
        BY <2>1
    <2> HIDE DEF full
    <2> QED
        BY <2>2 DEF Stores
<1> HIDE DEF full
<1>5. \A n : ReferenceFor(c, n) \in DOMAIN full <=> n \in DOMAIN S
    BY <1>2, <1>4, ReferencesDiffer DEF InVault
<1>6. \A r \in DOMAIN full : r \in DOMAIN vault \/ r[1] = c
    BY <1>4, ReferencesDiffer
<1>7. ASSUME vault' = full, Made(c, values, "created", {}),
             connections' = [d \in DOMAIN connections \cup {c} |->
                 IF d = c THEN RowOf(name, SplitPayload(values)[1]) ELSE connections[d]]
      PROVE  CredentialsInv'
    <2>1. /\ DOMAIN made' = DOMAIN made \cup {c}
          /\ made'[c].values = values /\ made'[c].end = "created"
          /\ \A d \in DOMAIN made : d # c => made'[d] = made[d]
        BY <1>7, MadeEffect
    <2>2. /\ DOMAIN connections' = DOMAIN connections \cup {c}
          /\ connections'[c].fields = DOMAIN S
          /\ \A d \in DOMAIN connections : d # c => connections'[d] = connections[d]
        BY <1>1, <1>7 DEF RowOf
    <2>3. \A d \in DOMAIN made : d # c => Untouched(d)
        BY <1>4, <1>7, <2>1, <2>2 DEF Untouched, InVault, ValueOf
    <2>4. Kept(c)' = DOMAIN S
        BY <1>3, <1>5, <1>7 DEF Kept
    <2>5. \A n \in DOMAIN S : ValueOf(c, n)' = S[n]
        BY <1>4, <1>7 DEF ValueOf
    <2>6. Holding(c)'
        BY <2>1, <2>2, <2>4, <2>5 DEF Holding, S
    <2> QED
        BY <1>1, <1>6, <1>7, <2>1, <2>2, <2>3, <2>6, OneTouched
<1>8. ASSUME vault' = full, Made(c, values, "raised", {}), UNCHANGED connections
      PROVE  CredentialsInv'
    <2>1. /\ DOMAIN made' = DOMAIN made \cup {c}
          /\ made'[c].values = values /\ made'[c].end = "raised"
          /\ \A d \in DOMAIN made : d # c => made'[d] = made[d]
        BY <1>8, MadeEffect
    <2>2. \A d \in DOMAIN made : d # c => Untouched(d)
        BY <1>4, <1>8, <2>1 DEF Untouched, InVault, ValueOf
    <2>3. Kept(c)' = DOMAIN S
        BY <1>3, <1>5, <1>8 DEF Kept
    <2>4. Left(c)'
        BY <2>1, <2>3 DEF Left, S
    <2> QED
        BY <1>1, <1>2, <1>6, <1>8, <2>1, <2>2, <2>4, OneTouched
<1>9. ASSUME NEW failing \in DOMAIN S, NEW stuck \in SUBSET Before(S, failing),
             vault' = PutFails(c, S, failing, stuck),
             Made(c, values, "unsaved", stuck), UNCHANGED connections
      PROVE  CredentialsInv'
    <2> DEFINE names == Before(S, failing)
               some == Put(c, S, names)
    <2>1. /\ DOMAIN made' = DOMAIN made \cup {c}
          /\ made'[c].values = values /\ made'[c].left = stuck
          /\ \A d \in DOMAIN made : d # c => made'[d] = made[d]
        BY <1>9, MadeEffect
    <2>2. vault' = DeleteMany(some, References(c, names), References(c, stuck))
        BY <1>9 DEF PutFails, Undone
    <2> HIDE DEF names
    <2>3. /\ DOMAIN some = DOMAIN vault \cup References(c, names)
          /\ \A d, n : d # c => (ReferenceFor(d, n) \in DOMAIN some <=> InVault(d, n))
          /\ \A d, n : d # c /\ InVault(d, n) => some[ReferenceFor(d, n)] = ValueOf(d, n)
        <3>1. Stores(Put(c, S, names), c, S, names)
            BY PutEffect
        <3>2. Stores(some, c, S, names)
            BY <3>1
        <3> HIDE DEF some
        <3> QED
            BY <3>2 DEF Stores
    <2> HIDE DEF some
    <2>4. /\ DOMAIN vault' \subseteq DOMAIN some
          /\ \A d, n : d # c =>
                (ReferenceFor(d, n) \in DOMAIN vault' <=> ReferenceFor(d, n) \in DOMAIN some)
          /\ \A n : ReferenceFor(c, n) \in DOMAIN vault' <=>
                ReferenceFor(c, n) \in DOMAIN some /\ (n \notin names \/ n \in stuck)
          /\ \A r \in DOMAIN vault' : vault'[r] = some[r]
        BY <2>2, DeleteEffect
    <2>5. \A n : ReferenceFor(c, n) \in DOMAIN some <=> n \in names
        BY <1>2, <2>3, ReferencesDiffer DEF InVault
    <2>6. \A r \in DOMAIN vault' : r \in DOMAIN vault \/ r[1] = c
        BY <2>3, <2>4, ReferencesDiffer
    <2>7. \A d \in DOMAIN made : d # c => Untouched(d)
        BY <1>9, <2>1, <2>3, <2>4 DEF Untouched, InVault, ValueOf
    <2>8. Kept(c)' \subseteq stuck
        BY <2>4, <2>5 DEF Kept
    <2>9. Left(c)'
        BY <2>1, <2>8 DEF Left
    <2> QED
        BY <1>1, <1>2, <1>9, <2>1, <2>6, <2>7, <2>9, OneTouched
<1> QED
    BY <1>1, <1>7, <1>8, <1>9 DEF CreateConnection, full

LEMMA DeleteKeeps ==
    ASSUME CredentialsInv, NEW c, DeleteConnection(c)
    PROVE  CredentialsInv'
<1> DEFINE fields == connections[c].fields
           values == made[c].values
<1>1. PICK stuck \in SUBSET fields :
          /\ vault' = DeleteMany(vault, References(c, fields), References(c, stuck))
          /\ \/ /\ connections' = Without(connections, {c})
                /\ Made(c, values, "deleted", stuck)
             \/ /\ Made(c, values, "undeleted", stuck)
                /\ UNCHANGED connections
    BY DEF DeleteConnection
<1>2. c \in DOMAIN connections /\ c \in DOMAIN made /\ Holding(c)
    BY DEF DeleteConnection, CredentialsInv
<1>3. values \in Submissions /\ Missing(values) = {}
    BY <1>2 DEF CredentialsInv
<1>4. /\ DOMAIN vault' \subseteq DOMAIN vault
      /\ \A d, n : d # c => (ReferenceFor(d, n) \in DOMAIN vault' <=> InVault(d, n))
      /\ \A n : ReferenceFor(c, n) \in DOMAIN vault' <=>
            InVault(c, n) /\ (n \notin fields \/ n \in stuck)
      /\ \A r \in DOMAIN vault' : vault'[r] = vault[r]
    BY <1>1, DeleteEffect DEF InVault
<1>5. /\ Kept(c)' \subseteq stuck /\ Kept(c)' \subseteq Kept(c)
      /\ \A n \in Kept(c)' : ValueOf(c, n)' = ValueOf(c, n)
    BY <1>2, <1>4 DEF Holding, Kept, InVault, ValueOf
<1>6. \A r \in DOMAIN vault' : r \in DOMAIN vault
    BY <1>4
<1> HIDE DEF values
<1>7. CASE connections' = Without(connections, {c}) /\ Made(c, values, "deleted", stuck)
    <2>1. /\ DOMAIN made' = DOMAIN made \cup {c}
          /\ made'[c].values = values /\ made'[c].left = stuck
          /\ \A d \in DOMAIN made : d # c => made'[d] = made[d]
        BY <1>7, MadeEffect
    <2>2. /\ DOMAIN connections' = DOMAIN connections \ {c}
          /\ \A d \in DOMAIN connections' : connections'[d] = connections[d]
        BY <1>7 DEF Without
    <2>3. \A d \in DOMAIN made : d # c => Untouched(d)
        BY <1>4, <2>1, <2>2 DEF Untouched, InVault, ValueOf
    <2>4. Left(c)'
        BY <1>5, <2>1 DEF Left
    <2> QED
        BY <1>3, <1>6, <2>1, <2>2, <2>3, <2>4, OneTouched
<1>8. CASE Made(c, values, "undeleted", stuck) /\ UNCHANGED connections
    <2>1. /\ DOMAIN made' = DOMAIN made \cup {c}
          /\ made'[c].values = values /\ made'[c].end = "undeleted"
          /\ \A d \in DOMAIN made : d # c => made'[d] = made[d]
        BY <1>8, MadeEffect
    <2>2. \A d \in DOMAIN made : d # c => Untouched(d)
        BY <1>4, <1>8, <2>1 DEF Untouched, InVault, ValueOf
    <2>3. Holding(c)'
        BY <1>2, <1>5, <1>8, <2>1 DEF Holding, values
    <2> QED
        BY <1>2, <1>3, <1>6, <1>8, <2>1, <2>2, <2>3, OneTouched
<1> QED
    BY <1>1, <1>7, <1>8 DEF values

LEMMA CredentialsStep ==
    CredentialsInv /\ [CredentialsNext]_credentialVars => CredentialsInv'
<1> SUFFICES ASSUME CredentialsInv, [CredentialsNext]_credentialVars PROVE CredentialsInv'
    OBVIOUS
<1>1. ASSUME NEW c \in NewIds, NEW name \in Names, NEW values \in Submissions,
             CreateConnection(c, name, values)
      PROVE  CredentialsInv'
    BY <1>1, CreateKeeps
<1>2. ASSUME NEW c \in NewIds, DeleteConnection(c) PROVE CredentialsInv'
    BY <1>2, DeleteKeeps
<1>3. CASE UNCHANGED credentialVars
    BY <1>3 DEF credentialVars, CredentialsInv, Holding, Left, Kept, ValueOf
<1> QED
    BY <1>1, <1>2, <1>3 DEF CredentialsNext

\* For any form, submissions and failures: a connection that is there runs with
\* what was submitted for it, and one that is not leaves no half of it behind.
THEOREM NoHalfCredentials == CredentialsSpec => []CredentialsAreWhole
<1>1. CredentialsInv /\ [CredentialsNext]_credentialVars => CredentialsInv'
    BY CredentialsStep
<1> QED
    BY CredentialsInitInv, <1>1, InvIsWhole, PTL DEF CredentialsSpec

-----------------------------------------------------------------------------
(* The layer of a dataset.                                                   *)

\* A signal speaks for one of the given layers, or for none.
SpeaksFor(signal, layers) == signal.verdict \in layers \cup {"neutral"} /\ signal.weight \in Nat

\* What a signal adds to the score of a layer.
Adds(signal, layer) == IF signal.verdict = layer THEN signal.weight ELSE 0

\* All that speaks of the layer of a profile, but the name and the shape that
\* is of gold: it speaks for bronze or for silver.
Plainly(columns, profile, layer) ==
    Adds(TypePurity(columns), layer) + Adds(NullDensity(columns), layer)
        + Adds(Duplicates(profile), layer) + Adds(KeySignal(profile), layer)
        + Adds(BlankValues(columns), layer) + Adds(AuditColumns(columns), layer)
        + Adds(Normalised(profile), layer)

LEMMA SignalsSpeak ==
    ASSUME NEW columns, NEW profile, NEW name
    PROVE  /\ SpeaksFor(TypePurity(columns), {"bronze", "silver"})
           /\ SpeaksFor(NullDensity(columns), {"bronze", "silver"})
           /\ SpeaksFor(Duplicates(profile), {"bronze", "silver"})
           /\ SpeaksFor(KeySignal(profile), {"bronze", "silver"})
           /\ SpeaksFor(BlankValues(columns), {"bronze", "silver"})
           /\ SpeaksFor(AuditColumns(columns), {"bronze", "silver"})
           /\ SpeaksFor(Normalised(profile), {"bronze", "silver"})
           /\ SpeaksFor(Aggregated(columns), {"gold"})
           /\ SpeaksFor(NamingSignal(name), {"bronze", "silver", "gold"})
           /\ NamingSignal(name).weight <= NamingCap
<1>1. SpeaksFor(TypePurity(columns), {"bronze", "silver"})
    BY DEF TypePurity, SpeaksFor, Signal, Silent
<1>2. SpeaksFor(NullDensity(columns), {"bronze", "silver"})
    BY DEF NullDensity, SpeaksFor, Signal, Silent
<1>3. SpeaksFor(Duplicates(profile), {"bronze", "silver"})
    BY DEF Duplicates, SpeaksFor, Signal, Silent
<1>4. SpeaksFor(KeySignal(profile), {"bronze", "silver"})
    BY DEF KeySignal, SpeaksFor, Signal, Silent
<1>5. SpeaksFor(BlankValues(columns), {"bronze", "silver"})
    BY DEF BlankValues, SpeaksFor, Signal, Silent
<1>6. SpeaksFor(AuditColumns(columns), {"bronze", "silver"})
    BY DEF AuditColumns, SpeaksFor, Signal, Silent
<1>7. SpeaksFor(Normalised(profile), {"bronze", "silver"})
    BY DEF Normalised, SpeaksFor, Signal, Silent
<1>8. SpeaksFor(Aggregated(columns), {"gold"})
    BY DEF Aggregated, SpeaksFor, Signal, Silent
<1>9. /\ SpeaksFor(NamingSignal(name), {"bronze", "silver", "gold"})
      /\ NamingSignal(name).weight <= NamingCap
    BY DEF NamingSignal, SpeaksFor, Signal, Silent, NamingCap
<1> QED
    BY <1>1, <1>2, <1>3, <1>4, <1>5, <1>6, <1>7, <1>8, <1>9

LEMMA AddsNumber ==
    ASSUME NEW signal, NEW layers, NEW layer, SpeaksFor(signal, layers)
    PROVE  /\ Adds(signal, layer) \in Nat
           /\ layer \notin layers \cup {"neutral"} => Adds(signal, layer) = 0
BY DEF Adds, SpeaksFor

\* A score is what the plain signals, the shape and the name add to it.
LEMMA ScoreOf ==
    ASSUME NEW name, NEW profile, NEW layer \in {"bronze", "silver", "gold"}
    PROVE  LET plainly == Plainly(profile.columns, profile, layer)
               shape == Adds(Aggregated(profile.columns), layer)
               naming == Adds(NamingSignal(name), layer)
           IN  /\ Scored(Evidence(name, profile), layer) = plainly + shape + naming
               /\ plainly \in Nat /\ shape \in Nat /\ naming \in Nat
               /\ layer = "gold" => plainly = 0
               /\ layer # "gold" => shape = 0
<1> DEFINE columns == profile.columns
           t == Adds(TypePurity(columns), layer)
           n == Adds(NullDensity(columns), layer)
           d == Adds(Duplicates(profile), layer)
           k == Adds(KeySignal(profile), layer)
           b == Adds(BlankValues(columns), layer)
           a == Adds(AuditColumns(columns), layer)
           o == Adds(Normalised(profile), layer)
           s == Adds(Aggregated(columns), layer)
           m == Adds(NamingSignal(name), layer)
<1>1. Scored(Evidence(name, profile), layer) = t + n + d + k + b + a + s + o + m
    BY DEF Scored, Evidence, Adds
<1>2. Plainly(columns, profile, layer) = t + n + d + k + b + a + o
    BY DEF Plainly
<1>3. /\ t \in Nat /\ n \in Nat /\ d \in Nat /\ k \in Nat /\ b \in Nat /\ a \in Nat /\ o \in Nat
      /\ s \in Nat /\ m \in Nat
    <2> HIDE DEF columns
    <2> QED
        BY SignalsSpeak, AddsNumber
<1>4. layer = "gold" => t = 0 /\ n = 0 /\ d = 0 /\ k = 0 /\ b = 0 /\ a = 0 /\ o = 0
    <2> HIDE DEF columns
    <2> QED
        BY SignalsSpeak, AddsNumber
<1>5. layer # "gold" => s = 0
    <2> HIDE DEF columns
    <2> QED
        BY SignalsSpeak, AddsNumber
<1> HIDE DEF t, n, d, k, b, a, o, s, m
<1>6. /\ Scored(Evidence(name, profile), layer) = Plainly(columns, profile, layer) + s + m
      /\ Plainly(columns, profile, layer) \in Nat
      /\ layer = "gold" => Plainly(columns, profile, layer) = 0
    BY <1>1, <1>2, <1>3, <1>4
<1> QED
    BY <1>3, <1>5, <1>6 DEF columns, s, m

\* Without a name nothing is said of it.
LEMMA UnnamedIsSilent == NamingSignal(Unnamed) = Silent
<1>1. \A words : ~Has(Unnamed, words)
    BY DEF Has, Unnamed
<1> QED
    BY <1>1 DEF NamingSignal

\* A dataset at gold is there for the shape of its columns, and its name does
\* no more than to take it out of bronze.
LEMMA GoldHasShape ==
    ASSUME NEW name, NEW profile, ClassifyLayer(name, profile) = "gold"
    PROVE  /\ Aggregated(profile.columns).verdict = "gold"
           /\ NamingSignal(name).verdict = "silver" \/ ClassifyLayer(Unnamed, profile) = "gold"
<1> DEFINE columns == profile.columns
           P(layer) == Plainly(columns, profile, layer)
           S(layer) == Adds(Aggregated(columns), layer)
           N(layer) == Adds(NamingSignal(name), layer)
<1>1. /\ DOMAIN columns # {}
      /\ Scored(Evidence(name, profile), "bronze") <= Scored(Evidence(name, profile), "silver")
      /\ Scored(Evidence(name, profile), "gold") > NamingCap
    <2>1. /\ Scored(Evidence(name, profile), "bronze") \in Nat
          /\ Scored(Evidence(name, profile), "silver") \in Nat
        BY ScoreOf
    <2> QED
        BY <2>1 DEF ClassifyLayer, Ladder
<1>2. /\ P("bronze") \in Nat /\ P("silver") \in Nat /\ S("gold") \in Nat
      /\ N("bronze") \in Nat /\ N("silver") \in Nat /\ N("gold") \in Nat
      /\ P("bronze") + N("bronze") <= P("silver") + N("silver")
      /\ S("gold") + N("gold") > NamingCap
    BY <1>1, ScoreOf DEF NamingCap
<1>3. N("gold") <= NamingCap
    BY SignalsSpeak DEF Adds, NamingCap
<1>4. S("gold") > 0
    BY <1>2, <1>3 DEF NamingCap
<1>5. Aggregated(columns).verdict = "gold" /\ S("gold") > NamingCap
    BY <1>4 DEF Adds, Aggregated, Signal, Silent, NamingCap
<1>6. ASSUME NamingSignal(name).verdict # "silver"
      PROVE  ClassifyLayer(Unnamed, profile) = "gold"
    <2>1. N("silver") = 0
        BY <1>6 DEF Adds
    <2>2. P("bronze") <= P("silver")
        BY <2>1, <1>2
    <2>3. \A layer \in {"bronze", "silver", "gold"} : Adds(NamingSignal(Unnamed), layer) = 0
        BY UnnamedIsSilent DEF Adds, Silent, Signal
    <2>4. /\ Scored(Evidence(Unnamed, profile), "bronze") = P("bronze")
          /\ Scored(Evidence(Unnamed, profile), "silver") = P("silver")
          /\ Scored(Evidence(Unnamed, profile), "gold") = S("gold")
        BY <2>3, <1>2, ScoreOf
    <2> HIDE DEF P, S, N
    <2> QED
        BY <2>2, <2>4, <1>1, <1>2, <1>5 DEF ClassifyLayer, Ladder, NamingCap, columns
<1> QED
    BY <1>5, <1>6

LEMMA ImageFinite ==
    ASSUME NEW S, IsFiniteSet(S), NEW f
    PROVE  IsFiniteSet({f[x] : x \in S})
<1> DEFINE T == {f[x] : x \in S}
           g == [x \in S |-> f[x]]
<1>1. g \in Surjection(S, T)
    BY DEF Surjection
<1> HIDE DEF T, g
<1>2. IsFiniteSet(T)
    BY <1>1, FS_Surjection
<1> QED
    BY <1>2 DEF T

\* There is a first place, when there is any.
LEMMA FirstPlaces ==
    ASSUME NEW places \in SUBSET Nat, NEW n \in Nat \ {0}, places # {}
    PROVE  FirstOf(places, n) # {}
<1>1. PICK i \in places : \A j \in places : i <= j
    BY LeastExists
<1>2. {j \in places : j < i} = {}
    <2>1. ASSUME NEW j \in places PROVE ~(j < i)
        <3>1. i \in Nat /\ j \in Nat /\ i <= j
            BY <1>1
        <3> QED
            BY <3>1
    <2> QED
        BY <2>1
<1>3. Cardinality({j \in places : j < i}) = 0
    BY <1>2, FS_EmptySet
<1> QED
    BY <1>3 DEF FirstOf

\* A table that gold makes counts its records and averages a measure.
LEMMA PlanHolds ==
    ASSUME NEW d \in Datasets, NEW plan \in PlanGold(d.profile.columns)
    PROVE  /\ IsFiniteSet(plan.groups) /\ IsFiniteSet(plan.aggregates)
           /\ <<"record", "count">> \in plan.aggregates
           /\ \E name \in Seq(STRING) : <<"avg">> \o name \in plan.aggregates
<1> DEFINE columns == d.profile.columns
           shape == ReadShape(columns)
           kept == FirstOf(shape.measures, 8)
           named == FirstOf(shape.dimensions, 4)
           names == {columns[i].name : i \in named}
           months == IF shape.dates = {} THEN {} ELSE {Month}
           parts == {AggregatesOf(columns[i].name) : i \in kept}
<1>1. /\ shape.measures # {}
      /\ plan.groups = months \cup names
      /\ plan.aggregates = {<<"record", "count">>} \cup UNION parts
    BY DEF PlanGold
<1>2. /\ shape.measures \subseteq DOMAIN columns /\ shape.dimensions \subseteq DOMAIN columns
    BY DEF ReadShape
<1>3. DOMAIN columns \subseteq Nat /\ IsFiniteSet(DOMAIN columns)
    <2>1. PICK n \in Nat : DOMAIN columns = 1..n
        BY DatasetsAssumption
    <2>2. 1 \in Int /\ n \in Int
        OBVIOUS
    <2>3. IsFiniteSet(1..n)
        BY <2>2, FS_Interval
    <2> HIDE DEF columns
    <2> QED
        BY <2>1, <2>3
<1>4. \A i \in DOMAIN columns : columns[i].name \in Seq(STRING)
    BY DatasetsAssumption DEF IsColumn
<1> HIDE DEF columns, shape
<1>5. kept \subseteq DOMAIN columns /\ named \subseteq DOMAIN columns
    BY <1>2 DEF FirstOf
<1>6. IsFiniteSet(kept) /\ IsFiniteSet(named)
    BY <1>3, <1>5, FS_Subset
<1> HIDE DEF kept, named
<1>7. IsFiniteSet(plan.groups)
    <2> DEFINE f == [i \in named |-> columns[i].name]
    <2>1. names = {f[i] : i \in named}
        OBVIOUS
    <2> HIDE DEF f
    <2>2. IsFiniteSet(names)
        BY <2>1, <1>6, ImageFinite
    <2>3. IsFiniteSet(months)
        BY FS_EmptySet, FS_Singleton
    <2> HIDE DEF names, months
    <2> QED
        BY <1>1, <2>2, <2>3, FS_Union
<1>8. IsFiniteSet(plan.aggregates)
    <2> DEFINE f == [i \in kept |-> AggregatesOf(columns[i].name)]
    <2>1. parts = {f[i] : i \in kept}
        OBVIOUS
    <2> HIDE DEF f
    <2>2. IsFiniteSet(parts)
        BY <2>1, <1>6, ImageFinite
    <2>3. ASSUME NEW name PROVE IsFiniteSet(AggregatesOf(name))
        <3>1. IsFiniteSet({<<"avg">> \o name})
            BY FS_Singleton
        <3>2. IsFiniteSet({<<"total">> \o name} \cup {<<"avg">> \o name})
            BY <3>1, FS_Singleton, FS_Union
        <3>3. {<<"total">> \o name} \cup {<<"avg">> \o name} = {<<"total">> \o name, <<"avg">> \o name}
            OBVIOUS
        <3> QED
            BY <3>1, <3>2, <3>3 DEF AggregatesOf
    <2>4. \A m \in parts : IsFiniteSet(m)
        BY <2>3
    <2>5. IsFiniteSet({<<"record", "count">>})
        BY FS_Singleton
    <2> HIDE DEF parts, names, months
    <2>6. IsFiniteSet(UNION parts)
        BY <2>2, <2>4, FS_UNION
    <2>7. IsFiniteSet({<<"record", "count">>} \cup UNION parts)
        BY <2>5, <2>6, FS_Union
    <2> QED
        BY <1>1, <2>7
<1>9. PICK i \in kept : TRUE
    BY <1>1, <1>2, <1>3, FirstPlaces DEF kept
<1>10. <<"avg">> \o columns[i].name \in AggregatesOf(columns[i].name)
    BY DEF AggregatesOf
<1>11. <<"avg">> \o columns[i].name \in plan.aggregates
    BY <1>1, <1>9, <1>10
<1> QED
    BY <1>1, <1>4, <1>5, <1>7, <1>8, <1>9, <1>11

\* The report of a table gold makes is taken for gold.
LEMMA ReportIsGold ==
    ASSUME NEW d \in Datasets, NEW plan \in PlanGold(d.profile.columns), NEW sampled,
           HasGrain(plan), Presentable(plan, sampled)
    PROVE  ClassifyLayer(Unnamed, Report(plan, sampled)) = "gold"
<1> DEFINE report == Report(plan, sampled)
           columns == report.columns
           places == ({"group"} \X plan.groups) \cup ({"aggregate"} \X plan.aggregates)
           counted == <<"aggregate", <<"record", "count">>>>
<1>1. /\ DOMAIN columns = places
      /\ report.duplicates = 0 /\ report.sampled = sampled /\ report.keys = "none"
      /\ \A c \in places :
            /\ columns[c].name = c[2] /\ columns[c].shadow = "" /\ columns[c].nullPct = 0
            /\ columns[c].blanks = 0 /\ columns[c].unique = FALSE
            /\ c[1] = "aggregate" => columns[c].logical = "float"
    BY DEF Report
<1>2. IsFiniteSet(places)
    <2>1. IsFiniteSet({"group"} \X plan.groups)
        BY PlanHolds, FS_Singleton, FS_Product
    <2>2. IsFiniteSet({"aggregate"} \X plan.aggregates)
        BY PlanHolds, FS_Singleton, FS_Product
    <2> QED
        BY <2>1, <2>2, FS_Union
<1>3. PICK name \in Seq(STRING) : <<"avg">> \o name \in plan.aggregates
    BY PlanHolds
<1> DEFINE averaged == <<"aggregate", <<"avg">> \o name>>
<1>4. counted \in places /\ averaged \in places
    BY <1>3, PlanHolds
<1>5. (<<"avg">> \o name)[1] = "avg" /\ 1 \in DOMAIN (<<"avg">> \o name)
    OBVIOUS
<1>6. counted # averaged
    BY <1>5
<1>7. PICK g \in plan.groups : Has(g, GrainWords)
    BY DEF HasGrain
<1>8. <<"group", g>> \in places
    BY <1>7
<1> HIDE DEF report, places
<1>9. Aggregated(columns) = Signal("gold", 26)
    <2>1. {counted, averaged} \subseteq Measured(columns)
        <3>1. counted \in Measured(columns)
            <4>1. Has(<<"record", "count">>, MeasureWords)
                BY DEF Has, MeasureWords
            <4> QED
                BY <4>1, <1>1, <1>4 DEF Measured, Numeric, ReadsAsMeasure
        <3>2. averaged \in Measured(columns)
            <4>1. Has(<<"avg">> \o name, MeasureWords)
                BY <1>5 DEF Has, MeasureWords
            <4> QED
                BY <4>1, <1>1, <1>4 DEF Measured, Numeric, ReadsAsMeasure
        <3> QED
            BY <3>1, <3>2
    <2>2. IsFiniteSet(Measured(columns))
        BY <1>1, <1>2, FS_Subset DEF Measured
    <2>3. Cardinality({counted, averaged}) = 2
        <3>1. IsFiniteSet({counted}) /\ Cardinality({counted}) = 1
            BY FS_Singleton
        <3>2. averaged \notin {counted}
            BY <1>6
        <3> HIDE DEF counted, averaged
        <3>3. Cardinality({counted} \cup {averaged}) = 1 + 1
            BY <3>1, <3>2, FS_AddElement
        <3>4. {counted} \cup {averaged} = {counted, averaged}
            OBVIOUS
        <3>5. 1 + 1 = 2
            OBVIOUS
        <3> QED
            BY <3>3, <3>4, <3>5
    <2> HIDE DEF counted, averaged, columns
    <2>4. Cardinality(Measured(columns)) >= 2
        <3>1. /\ Cardinality({counted, averaged}) <= Cardinality(Measured(columns))
              /\ Cardinality(Measured(columns)) \in Nat
            BY <2>1, <2>2, FS_Subset, FS_CardinalityType
        <3> QED
            BY <3>1, <2>3
    <2>5. Grained(columns)
        <3>1. columns[<<"group", g>>].name = g
            BY <1>1, <1>8
        <3> QED
            BY <3>1, <1>1, <1>7, <1>8 DEF Grained
    <2>6. ~Identified(columns)
        BY <1>1 DEF Identified
    <2> QED
        BY <2>4, <2>5, <2>6 DEF Aggregated
<1> HIDE DEF columns
<1>10. PICK n \in Nat \ {0} : Cardinality(DOMAIN columns) = n
    BY <1>1, <1>2, <1>4, FS_CardinalityType, FS_EmptySet
<1>11. TypePurity(columns) = Signal("silver", 15)
    <2>1. {c \in DOMAIN columns : columns[c].shadow # ""} = {}
        BY <1>1
    <2>2. Cardinality({c \in DOMAIN columns : columns[c].shadow # ""}) = 0
        BY <2>1, FS_EmptySet
    <2>3. ~(5 * 0 >= n)
        BY <1>10
    <2> QED
        BY <2>2, <2>3, <1>10 DEF TypePurity
<1>12. NullDensity(columns) = Signal("silver", 10)
    <2> DEFINE f == [c \in DOMAIN columns |-> columns[c].nullPct]
               sparse == {c \in DOMAIN columns : columns[c].nullPct > 60}
    <2>1. SumOf(f, DOMAIN columns) = 0
        <3>1. \A c \in DOMAIN columns : f[c] = 0
            BY <1>1
        <3> HIDE DEF f
        <3>2. Units(f, DOMAIN columns) = {}
            BY <3>1 DEF Units
        <3>3. Units([c \in DOMAIN columns |-> -f[c]], DOMAIN columns) = {}
            BY <3>1 DEF Units
        <3>4. SumOf(f, DOMAIN columns) = 0 - 0
            BY <3>2, <3>3, FS_EmptySet DEF SumOf
        <3> QED
            BY <3>4
    <2>2. sparse = {}
        <3>1. \A c \in DOMAIN columns : columns[c].nullPct = 0
            BY <1>1
        <3>2. ~(0 > 60)
            OBVIOUS
        <3> QED
            BY <3>1, <3>2
    <2>3. Cardinality(sparse) = 0
        BY <2>2, FS_EmptySet
    <2> DEFINE tooMany == IF n \div 4 > 2 THEN n \div 4 ELSE 2
    <2>4. ~(SumOf(f, DOMAIN columns) >= 25 * n \/ Cardinality(sparse) >= tooMany)
        <3>1. ~(0 >= 25 * n) /\ ~(0 >= tooMany)
            BY <1>10
        <3> QED
            BY <2>1, <2>3, <3>1
    <2>5. SumOf(f, DOMAIN columns) <= 5 * n
        BY <2>1, <1>10
    <2> QED
        BY <1>10, <2>4, <2>5 DEF NullDensity
<1>13. Duplicates(report) = IF sampled > 50 THEN Signal("silver", 9) ELSE Silent
    <2>1. ~(0 >= 10)
        OBVIOUS
    <2>2. report.duplicates = 0 /\ report.sampled = sampled
        BY <1>1
    <2> QED
        BY <2>1, <2>2 DEF Duplicates
<1>14. KeySignal(report) = Signal("bronze", 18)
    BY <1>1 DEF KeySignal
<1>15. BlankValues(columns) = Silent
    <2>1. \A c \in DOMAIN columns : columns[c].blanks = 0
        BY <1>1
    <2>2. ~(0 > 0)
        OBVIOUS
    <2> QED
        BY <2>1, <2>2 DEF BlankValues
<1>16. AuditColumns(columns) = Silent \/ (sampled > 50 /\ AuditColumns(columns) = Signal("bronze", 15))
    <2>1. CASE sampled > 50
        BY <2>1 DEF AuditColumns
    <2>2. CASE \A m \in plan.groups \cup plan.aggregates : ~Has(m, AuditNames)
        <3>1. \A c \in DOMAIN columns : columns[c].name \in plan.groups \cup plan.aggregates
            BY <1>1 DEF places
        <3> QED
            BY <2>2, <3>1 DEF AuditColumns
    <2> QED
        BY <2>1, <2>2 DEF Presentable
<1>17. Normalised(report) = Silent
    <2>1. Measured(columns) # {}
        <3>1. columns[counted].logical \in Numeric /\ ReadsAsMeasure(columns[counted].name)
            <4>1. Has(<<"record", "count">>, MeasureWords)
                BY DEF Has, MeasureWords
            <4> QED
                BY <4>1, <1>1, <1>4 DEF Numeric, ReadsAsMeasure
        <3> HIDE DEF counted
        <3> QED
            BY <3>1, <1>1, <1>4 DEF Measured
    <2> QED
        BY <2>1 DEF Normalised, columns
<1>18. NamingSignal(Unnamed) = Silent
    BY UnnamedIsSilent
<1> DEFINE evidence == Evidence(Unnamed, report)
<1>19. /\ evidence.types = TypePurity(columns) /\ evidence.nulls = NullDensity(columns)
       /\ evidence.duplicates = Duplicates(report) /\ evidence.key = KeySignal(report)
       /\ evidence.blanks = BlankValues(columns) /\ evidence.audit = AuditColumns(columns)
       /\ evidence.aggregated = Aggregated(columns) /\ evidence.normalised = Normalised(report)
       /\ evidence.naming = NamingSignal(Unnamed)
    BY DEF Evidence, columns
<1> HIDE DEF evidence
<1>20. Scored(evidence, "gold") = 26
    BY <1>9, <1>11, <1>12, <1>13, <1>14, <1>15, <1>16, <1>17, <1>18, <1>19 DEF Scored, Signal, Silent
<1>21. /\ Scored(evidence, "silver") = IF sampled > 50 THEN 34 ELSE 25
       /\ Scored(evidence, "bronze") \in {18, 33}
       /\ Scored(evidence, "bronze") = 33 => sampled > 50
    BY <1>9, <1>11, <1>12, <1>13, <1>14, <1>15, <1>16, <1>17, <1>18, <1>19 DEF Scored, Signal, Silent
<1>22. ~(Scored(evidence, "bronze") > Scored(evidence, "silver"))
    BY <1>21
<1>23. DOMAIN report.columns # {}
    BY <1>1, <1>4 DEF columns
<1> QED
    BY <1>20, <1>22, <1>23 DEF ClassifyLayer, Ladder, NamingCap, evidence, report

\* What is found is what the profile of one of the datasets says.
LayersInv ==
    \A i \in DOMAIN classified :
        LET dataset == classified[i].dataset
        IN  dataset \in Datasets /\ classified[i].layer = ClassifyLayer(dataset.name, dataset.profile)

LEMMA LayersInvariant == LayersSpec => []LayersInv
<1>1. LayersInit => LayersInv
    BY DEF LayersInit, LayersInv
<1>2. LayersInv /\ [LayersNext]_classified => LayersInv'
    BY DEF LayersInv, LayersNext, RunProfile
<1> QED
    BY <1>1, <1>2, PTL DEF LayersSpec

\* A dataset is found at gold for the shape of its columns, not for its name,
\* which can do no more than to take it out of bronze; and the report gold
\* makes of any dataset is found at gold (classify_layer, plan_gold).
THEOREM LayersFollowColumns == LayersSpec => []GoldFollowsColumns
<1>1. LayersInv => GoldFollowsColumns
    <2> SUFFICES ASSUME LayersInv, NEW i \in DOMAIN classified
                 PROVE  LET dataset == classified[i].dataset
                            profile == dataset.profile
                        IN  /\ classified[i].layer = "gold" =>
                                /\ Aggregated(profile.columns).verdict = "gold"
                                /\ \/ NamingSignal(dataset.name).verdict = "silver"
                                   \/ ClassifyLayer(Unnamed, profile) = "gold"
                            /\ \A plan \in PlanGold(profile.columns) :
                                  (HasGrain(plan) /\ Presentable(plan, profile.sampled))
                                      => ClassifyLayer(Unnamed, Report(plan, profile.sampled)) = "gold"
        BY DEF GoldFollowsColumns
    <2> DEFINE dataset == classified[i].dataset
    <2>1. /\ dataset \in Datasets
          /\ classified[i].layer = ClassifyLayer(dataset.name, dataset.profile)
        BY DEF LayersInv
    <2> HIDE DEF dataset
    <2>2. ASSUME classified[i].layer = "gold"
          PROVE  /\ Aggregated(dataset.profile.columns).verdict = "gold"
                 /\ \/ NamingSignal(dataset.name).verdict = "silver"
                    \/ ClassifyLayer(Unnamed, dataset.profile) = "gold"
        BY <2>1, <2>2, GoldHasShape
    <2>3. ASSUME NEW plan \in PlanGold(dataset.profile.columns),
                 HasGrain(plan), Presentable(plan, dataset.profile.sampled)
          PROVE  ClassifyLayer(Unnamed, Report(plan, dataset.profile.sampled)) = "gold"
        BY <2>1, <2>3, ReportIsGold
    <2> QED
        BY <2>2, <2>3 DEF dataset
<1> QED
    BY <1>1, LayersInvariant, PTL

-----------------------------------------------------------------------------
(* Lineage.                                                                  *)

\* A set of nodes that edges do not leave, in the direction of a walk.
Closed(edges, nodes, forward) ==
    \A e \in edges : Near(e, forward) \in nodes => Far(e, forward) \in nodes

\* A walk has found the edges of the nodes it has visited, has seen what they
\* lead to, and stays within what cannot be left.
WalkInv(edges, walk, start, forward) ==
    /\ walk.waiting \subseteq walk.seen
    /\ walk.found = {e \in edges : Near(e, forward) \in walk.seen \ walk.waiting}
    /\ walk.seen = {start} \cup {Far(e, forward) : e \in walk.found}
    /\ \A nodes : (start \in nodes /\ Closed(edges, nodes, forward)) => walk.seen \subseteq nodes

LEMMA WalkStarts ==
    ASSUME NEW edges, NEW start, NEW forward
    PROVE  WalkInv(edges, Start(start), start, forward)
BY DEF WalkInv, Start

LEMMA WalkGoesOn ==
    ASSUME NEW edges, NEW walk, NEW start, NEW forward, NEW node \in walk.waiting,
           WalkInv(edges, walk, start, forward)
    PROVE  WalkInv(edges, Visited(edges, walk, node, forward), start, forward)
<1> DEFINE after == Visited(edges, walk, node, forward)
           new == {e \in edges : Near(e, forward) = node} \ walk.found
           next == {Far(e, forward) : e \in new} \ walk.seen
<1>1. /\ after.waiting = (walk.waiting \ {node}) \cup next
      /\ after.seen = walk.seen \cup next
      /\ after.found = walk.found \cup new
    BY DEF Visited
<1>2. /\ walk.waiting \subseteq walk.seen
      /\ walk.found = {e \in edges : Near(e, forward) \in walk.seen \ walk.waiting}
      /\ walk.seen = {start} \cup {Far(e, forward) : e \in walk.found}
    BY DEF WalkInv
<1>3. new = {e \in edges : Near(e, forward) = node}
    BY <1>2
<1>4. next \cap walk.seen = {}
    OBVIOUS
<1>5. next \subseteq {Far(e, forward) : e \in new}
    OBVIOUS
<1>6. {Far(e, forward) : e \in new} \subseteq walk.seen \cup next
    OBVIOUS
<1>7. new \subseteq edges /\ \A e \in new : Near(e, forward) = node
    BY <1>3
<1> HIDE DEF after, next
<1>8. after.waiting \subseteq after.seen
    BY <1>1, <1>2
<1>9. after.seen \ after.waiting = (walk.seen \ walk.waiting) \cup {node}
    BY <1>1, <1>2, <1>4
<1>10. after.found = {e \in edges : Near(e, forward) \in after.seen \ after.waiting}
    BY <1>1, <1>2, <1>3, <1>9
<1> HIDE DEF new
<1>11. after.seen = {start} \cup {Far(e, forward) : e \in after.found}
    BY <1>1, <1>2, <1>5, <1>6
<1>12. ASSUME NEW nodes, start \in nodes, Closed(edges, nodes, forward)
       PROVE  after.seen \subseteq nodes
    <2>1. walk.seen \subseteq nodes
        BY <1>12 DEF WalkInv
    <2>2. node \in nodes
        BY <2>1, <1>2
    <2>3. \A e \in new : Far(e, forward) \in nodes
        BY <2>2, <1>7, <1>12 DEF Closed
    <2> QED
        BY <2>1, <2>3, <1>1, <1>5
<1> QED
    BY <1>8, <1>10, <1>11, <1>12 DEF WalkInv, after

\* A walk that has nothing left to visit has seen all that can be reached.
LEMMA WalkEnds ==
    ASSUME NEW edges, NEW walk, NEW start, NEW forward,
           WalkInv(edges, walk, start, forward), walk.waiting = {}
    PROVE  Closed(edges, walk.seen, forward) /\ start \in walk.seen
BY DEF WalkInv, Closed

\* The nodes that steps that succeeded carry a source to, layer by layer.
BronzeOf(l) == Derived(l, "bronze", {l.source})
SilverOf(l) == Derived(l, "silver", BronzeOf(l))
GoldOf(l) == Derived(l, "gold", SilverOf(l))
MeasuresOf(l) == Fed(SemanticEdges(l.measures), BronzeOf(l) \cup SilverOf(l) \cup GoldOf(l))
TilesOf(l) == Fed(DashboardEdges(l.tiles), MeasuresOf(l))
CarriedTo(l) ==
    {l.source} \cup BronzeOf(l) \cup SilverOf(l) \cup GoldOf(l) \cup MeasuresOf(l) \cup TilesOf(l)

LayerEdges(l, layer) ==
    UNION {StepEdges(l, step) : step \in {s \in l.steps : s.layer = layer /\ s.status = "succeeded"}}

LEMMA CarriedIsTile == \A l : Carried(l) <=> l.succeeded /\ l.tile \in TilesOf(l)
BY DEF Carried, TilesOf, MeasuresOf, GoldOf, SilverOf, BronzeOf

LEMMA StepKinds ==
    ASSUME NEW l, IsLineage(l), NEW step \in l.steps, NEW e \in StepEdges(l, step)
    PROVE  e.source[1] = Upstream[step.layer] /\ e.target[1] = step.layer
<1>1. step.layer \in Layered /\ (step.layer = "bronze" <=> step.kind = "ingest")
    BY DEF IsLineage
<1>2. CASE step.kind = "ingest"
    <2>1. e \in IngestEdges(step, ColumnsOf(l, step))
        BY <1>2 DEF StepEdges
    <2> QED
        BY <2>1, <1>1, <1>2 DEF IngestEdges, Edge, Upstream
<1>3. CASE step.kind # "ingest" /\ step.sql = "none"
    <2>1. e \in PassthroughEdges(step, ColumnsOf(l, step))
        BY <1>3 DEF StepEdges
    <2> QED
        BY <2>1 DEF PassthroughEdges, Edge
<1>4. CASE step.kind # "ingest" /\ step.sql = "read"
    <2>1. e \in EdgesFromStep(step)
        BY <1>4 DEF StepEdges
    <2>2. \A p \in step.derivations : p.layer \in {"", Upstream[step.layer]}
        BY DEF IsLineage
    <2>3. PICK p \in step.derivations :
              e = Edge(<<IF p.layer = "" THEN Upstream[step.layer] ELSE p.layer, p.table, p.column>>,
                       <<step.layer, step.table, p.made>>)
        BY <2>1 DEF EdgesFromStep
    <2>4. e.source[1] = IF p.layer = "" THEN Upstream[step.layer] ELSE p.layer
        BY <2>3 DEF Edge
    <2>5. e.target[1] = step.layer
        BY <2>3 DEF Edge
    <2> QED
        BY <2>2, <2>4, <2>5
<1>5. CASE step.kind # "ingest" /\ step.sql \notin {"none", "read"}
    BY <1>5 DEF StepEdges
<1> QED
    BY <1>2, <1>3, <1>4, <1>5

\* Each edge leads from one layer to the next, or from a layer to a measure,
\* or from a measure to a tile.
LEMMA EdgeKinds ==
    ASSUME NEW l, IsLineage(l), l.succeeded, NEW e \in BuildForConnection(l).edges
    PROVE  \/ e \in LayerEdges(l, "bronze") /\ e.source[1] = "source" /\ e.target[1] = "bronze"
           \/ e \in LayerEdges(l, "silver") /\ e.source[1] = "bronze" /\ e.target[1] = "silver"
           \/ e \in LayerEdges(l, "gold") /\ e.source[1] = "silver" /\ e.target[1] = "gold"
           \/ e \in SemanticEdges(l.measures) /\ e.source[1] \in Layered /\ e.target[1] = "measure"
           \/ e \in DashboardEdges(l.tiles) /\ e.source[1] = "measure" /\ e.target[1] = "tile"
<1>1. \/ \E step \in Contributing(l) : e \in StepEdges(l, step)
      \/ e \in SemanticEdges(l.measures)
      \/ e \in DashboardEdges(l.tiles)
    BY DEF BuildForConnection
<1>2. ASSUME NEW step \in Contributing(l), e \in StepEdges(l, step)
      PROVE  \/ e \in LayerEdges(l, "bronze") /\ e.source[1] = "source" /\ e.target[1] = "bronze"
             \/ e \in LayerEdges(l, "silver") /\ e.source[1] = "bronze" /\ e.target[1] = "silver"
             \/ e \in LayerEdges(l, "gold") /\ e.source[1] = "silver" /\ e.target[1] = "gold"
    <2>1. step \in l.steps /\ step.status = "succeeded"
        BY DEF Contributing
    <2>2. step.layer \in Layered
        BY <2>1 DEF IsLineage
    <2>3. e.source[1] = Upstream[step.layer] /\ e.target[1] = step.layer
        BY <1>2, <2>1, StepKinds
    <2>4. e \in LayerEdges(l, step.layer)
        BY <1>2, <2>1 DEF LayerEdges
    <2> QED
        BY <2>2, <2>3, <2>4 DEF Layered, Upstream
<1>3. ASSUME e \in SemanticEdges(l.measures)
      PROVE  e.source[1] \in Layered /\ e.target[1] = "measure"
    <2>1. \A m \in l.measures : m.layer \in Layered
        BY DEF IsLineage
    <2> QED
        BY <1>3, <2>1 DEF SemanticEdges, Edge
<1>4. ASSUME e \in DashboardEdges(l.tiles)
      PROVE  e.source[1] = "measure" /\ e.target[1] = "tile"
    BY <1>4 DEF DashboardEdges, Edge
<1> QED
    BY <1>1, <1>2, <1>3, <1>4

LEMMA LayerEdgesBuilt ==
    ASSUME NEW l, l.succeeded
    PROVE  /\ \A layer : LayerEdges(l, layer) \subseteq BuildForConnection(l).edges
           /\ SemanticEdges(l.measures) \subseteq BuildForConnection(l).edges
           /\ DashboardEdges(l.tiles) \subseteq BuildForConnection(l).edges
BY DEF BuildForConnection, LayerEdges, Contributing

\* What is derived or fed is where an edge from below leads.
LEMMA FedBy ==
    ASSUME NEW edges, NEW nodes, NEW n
    PROVE  n \in Fed(edges, nodes) <=> \E e \in edges : e.source \in nodes /\ n = e.target
BY DEF Fed

LEMMA DerivedBy ==
    ASSUME NEW l, NEW layer, NEW nodes
    PROVE  Derived(l, layer, nodes) = Fed(LayerEdges(l, layer), nodes)
BY DEF Derived, LayerEdges

\* The kinds of what a source is carried to.
LEMMA CarriedKinds ==
    ASSUME NEW l, IsLineage(l), l.succeeded
    PROVE  /\ \A n \in BronzeOf(l) : n[1] = "bronze"
           /\ \A n \in SilverOf(l) : n[1] = "silver"
           /\ \A n \in GoldOf(l) : n[1] = "gold"
           /\ \A n \in MeasuresOf(l) : n[1] = "measure"
           /\ \A n \in TilesOf(l) : n[1] = "tile"
<1>1. ASSUME NEW layer \in Layered, NEW e \in LayerEdges(l, layer)
      PROVE  e.target[1] = layer
    <2>1. PICK step \in l.steps : step.layer = layer /\ e \in StepEdges(l, step)
        BY <1>1 DEF LayerEdges
    <2> QED
        BY <2>1, StepKinds
<1>2. \A e \in SemanticEdges(l.measures) : e.target[1] = "measure"
    BY DEF SemanticEdges, Edge
<1>3. \A e \in DashboardEdges(l.tiles) : e.target[1] = "tile"
    BY DEF DashboardEdges, Edge
<1>4. \A n \in BronzeOf(l) : n[1] = "bronze"
    BY <1>1, FedBy, DerivedBy DEF BronzeOf, Layered
<1>5. \A n \in SilverOf(l) : n[1] = "silver"
    BY <1>1, FedBy, DerivedBy DEF SilverOf, Layered
<1>6. \A n \in GoldOf(l) : n[1] = "gold"
    BY <1>1, FedBy, DerivedBy DEF GoldOf, Layered
<1>7. \A n \in MeasuresOf(l) : n[1] = "measure"
    BY <1>2, FedBy DEF MeasuresOf
<1>8. \A n \in TilesOf(l) : n[1] = "tile"
    BY <1>3, FedBy DEF TilesOf
<1> QED
    BY <1>4, <1>5, <1>6, <1>7, <1>8

\* The edges do not leave what the source is carried to.
LEMMA CarriedIsClosed ==
    ASSUME NEW l, IsLineage(l), l.succeeded
    PROVE  Closed(BuildForConnection(l).edges, CarriedTo(l), TRUE)
<1> SUFFICES ASSUME NEW e \in BuildForConnection(l).edges, e.source \in CarriedTo(l)
             PROVE  e.target \in CarriedTo(l)
    BY DEF Closed, Near, Far
<1> DEFINE kind == e.source[1]
<1>1. /\ e.source \in {l.source} => kind = "source"
      /\ e.source \in BronzeOf(l) => kind = "bronze"
      /\ e.source \in SilverOf(l) => kind = "silver"
      /\ e.source \in GoldOf(l) => kind = "gold"
      /\ e.source \in MeasuresOf(l) => kind = "measure"
      /\ e.source \in TilesOf(l) => kind = "tile"
    BY CarriedKinds DEF IsLineage
<1>2. /\ kind = "source" => e.source \in {l.source}
      /\ kind = "bronze" => e.source \in BronzeOf(l)
      /\ kind = "silver" => e.source \in SilverOf(l)
      /\ kind = "gold" => e.source \in GoldOf(l)
      /\ kind = "measure" => e.source \in MeasuresOf(l)
    BY <1>1 DEF CarriedTo
<1>3. CASE e \in LayerEdges(l, "bronze") /\ kind = "source"
    BY <1>2, <1>3, FedBy, DerivedBy DEF CarriedTo, BronzeOf
<1>4. CASE e \in LayerEdges(l, "silver") /\ kind = "bronze"
    BY <1>2, <1>4, FedBy, DerivedBy DEF CarriedTo, SilverOf
<1>5. CASE e \in LayerEdges(l, "gold") /\ kind = "silver"
    BY <1>2, <1>5, FedBy, DerivedBy DEF CarriedTo, GoldOf
<1>6. CASE e \in SemanticEdges(l.measures) /\ kind \in Layered
    <2>1. e.source \in BronzeOf(l) \cup SilverOf(l) \cup GoldOf(l)
        BY <1>2, <1>6 DEF Layered
    <2> QED
        BY <2>1, <1>6, FedBy DEF CarriedTo, MeasuresOf
<1>7. CASE e \in DashboardEdges(l.tiles) /\ kind = "measure"
    BY <1>2, <1>7, FedBy DEF CarriedTo, TilesOf
<1> QED
    BY <1>3, <1>4, <1>5, <1>6, <1>7, EdgeKinds

\* What cannot be left and has the source has all it is carried to.
LEMMA CarriedIsReached ==
    ASSUME NEW l, IsLineage(l), l.succeeded, NEW nodes, l.source \in nodes,
           Closed(BuildForConnection(l).edges, nodes, TRUE)
    PROVE  CarriedTo(l) \subseteq nodes
<1>1. ASSUME NEW edges \in SUBSET BuildForConnection(l).edges, NEW below \in SUBSET nodes
      PROVE  Fed(edges, below) \subseteq nodes
    BY <1>1 DEF Fed, Closed, Near, Far
<1>2. BronzeOf(l) \subseteq nodes
    <2>1. {l.source} \subseteq nodes
        OBVIOUS
    <2> QED
        BY <2>1, <1>1, LayerEdgesBuilt, DerivedBy DEF BronzeOf
<1>3. SilverOf(l) \subseteq nodes
    BY <1>1, <1>2, LayerEdgesBuilt, DerivedBy DEF SilverOf
<1>4. GoldOf(l) \subseteq nodes
    BY <1>1, <1>3, LayerEdgesBuilt, DerivedBy DEF GoldOf
<1>5. MeasuresOf(l) \subseteq nodes
    <2>1. BronzeOf(l) \cup SilverOf(l) \cup GoldOf(l) \subseteq nodes
        BY <1>2, <1>3, <1>4
    <2> QED
        BY <2>1, <1>1, LayerEdgesBuilt DEF MeasuresOf
<1>6. TilesOf(l) \subseteq nodes
    BY <1>1, <1>5, LayerEdgesBuilt DEF TilesOf
<1> QED
    BY <1>2, <1>3, <1>4, <1>5, <1>6 DEF CarriedTo

LEMMA TileCarried ==
    ASSUME NEW l, IsLineage(l), l.succeeded, l.tile \in CarriedTo(l)
    PROVE  l.tile \in TilesOf(l)
<1>1. l.tile[1] = "tile" /\ l.source[1] = "source"
    BY DEF IsLineage
<1> QED
    BY <1>1, CarriedKinds DEF CarriedTo

\* A walk back from the tile that has seen the source has come from where the
\* source is carried.
LEMMA UpSees ==
    ASSUME NEW l, IsLineage(l), l.succeeded, NEW walk,
           WalkInv(BuildForConnection(l).edges, walk, l.tile, FALSE),
           l.source \in walk.seen
    PROVE  l.tile \in TilesOf(l)
<1> DEFINE edges == BuildForConnection(l).edges
           ends == {l.source, l.tile} \cup {e.source : e \in edges} \cup {e.target : e \in edges}
           others == ends \ CarriedTo(l)
<1>1. Closed(edges, CarriedTo(l), TRUE)
    BY CarriedIsClosed
<1>2. Closed(edges, others, FALSE)
    BY <1>1 DEF Closed, Near, Far
<1>3. l.source \in CarriedTo(l)
    BY DEF CarriedTo
<1>4. l.tile \in CarriedTo(l)
    <2> SUFFICES ASSUME l.tile \notin CarriedTo(l)
                 PROVE  FALSE
        OBVIOUS
    <2>1. l.tile \in others
        OBVIOUS
    <2> HIDE DEF others
    <2>2. walk.seen \subseteq others
        BY <2>1, <1>2 DEF WalkInv
    <2> QED
        BY <2>2, <1>3 DEF others
<1> QED
    BY <1>4, TileCarried

\* A walk on from the source that has seen the tile has come through steps.
LEMMA DownSees ==
    ASSUME NEW l, IsLineage(l), l.succeeded, NEW walk,
           WalkInv(BuildForConnection(l).edges, walk, l.source, TRUE),
           l.tile \in walk.seen
    PROVE  l.tile \in TilesOf(l)
<1>1. Closed(BuildForConnection(l).edges, CarriedTo(l), TRUE) /\ l.source \in CarriedTo(l)
    BY CarriedIsClosed DEF CarriedTo
<1>2. walk.seen \subseteq CarriedTo(l)
    BY <1>1 DEF WalkInv
<1> QED
    BY <1>2, TileCarried

\* A walk back that ended of itself has seen every source of the tile.
LEMMA UpFinds ==
    ASSUME NEW l, IsLineage(l), l.succeeded, NEW walk,
           WalkInv(BuildForConnection(l).edges, walk, l.tile, FALSE), walk.waiting = {},
           l.tile \in TilesOf(l)
    PROVE  l.source \in walk.seen
<1> DEFINE edges == BuildForConnection(l).edges
           ends == {l.source, l.tile} \cup {e.source : e \in edges} \cup {e.target : e \in edges}
           others == ends \ walk.seen
<1>1. Closed(edges, walk.seen, FALSE) /\ l.tile \in walk.seen
    BY WalkEnds
<1>2. Closed(edges, others, TRUE)
    BY <1>1 DEF Closed, Near, Far
<1> SUFFICES ASSUME l.source \notin walk.seen
             PROVE  FALSE
    OBVIOUS
<1>3. l.source \in others
    OBVIOUS
<1> HIDE DEF others
<1>4. CarriedTo(l) \subseteq others
    BY <1>2, <1>3, CarriedIsReached
<1>5. l.tile \in others
    BY <1>4 DEF CarriedTo
<1> QED
    BY <1>1, <1>5 DEF others

LEMMA DownFinds ==
    ASSUME NEW l, IsLineage(l), l.succeeded, NEW walk,
           WalkInv(BuildForConnection(l).edges, walk, l.source, TRUE), walk.waiting = {},
           l.tile \in TilesOf(l)
    PROVE  l.tile \in walk.seen
<1>1. Closed(BuildForConnection(l).edges, walk.seen, TRUE) /\ l.source \in walk.seen
    BY WalkEnds
<1>2. CarriedTo(l) \subseteq walk.seen
    BY <1>1, CarriedIsReached
<1> QED
    BY <1>2 DEF CarriedTo

\* What the answers name is what the walks have seen.
LEMMA OriginSeen ==
    ASSUME NEW l, IsLineage(l), NEW walk, NEW graph,
           WalkInv(graph.edges, walk, l.tile, FALSE)
    PROVE  l.source \in Provenance(graph, walk.found).origins <=> l.source \in walk.seen
<1>1. l.source # l.tile /\ l.source[1] = "source"
    BY DEF IsLineage
<1>2. l.source \in walk.seen <=> \E e \in walk.found : l.source = Far(e, FALSE)
    BY <1>1 DEF WalkInv
<1> QED
    BY <1>1, <1>2 DEF Provenance, Far

LEMMA TileSeen ==
    ASSUME NEW l, IsLineage(l), NEW walk, NEW graph,
           WalkInv(graph.edges, walk, l.source, TRUE)
    PROVE  l.tile \in Impact(graph, walk.found).tiles <=> l.tile \in walk.seen
<1>1. l.source # l.tile /\ l.tile[1] = "tile"
    BY DEF IsLineage
<1>2. l.tile \in walk.seen <=> \E e \in walk.found : l.tile = Far(e, TRUE)
    BY <1>1 DEF WalkInv
<1> QED
    BY <1>1, <1>2 DEF Impact, Far

-----------------------------------------------------------------------------
(* The two walks, one after the other.                                       *)

UpInv(t) == WalkInv(t.graph.edges, up, t.lineage.tile, FALSE)
DownInv(t) == down = Unasked \/ WalkInv(t.graph.edges, down, t.lineage.source, TRUE)

LineageInv ==
    /\ DOMAIN traced \subseteq {1}
    /\ traced = <<>> => up = Unasked /\ down = Unasked
    /\ \A i \in DOMAIN traced :
          /\ traced[i].lineage \in Lineages
          /\ traced[i].graph = BuildForConnection(traced[i].lineage)
          /\ UpInv(traced[i])
          /\ DownInv(traced[i])

LEMMA LineageStarts == LineageInit => LineageInv
BY DEF LineageInit, LineageInv

LEMMA LineageSteps == LineageInv /\ [LineageNext]_lineageVars => LineageInv'
<1> SUFFICES ASSUME LineageInv, [LineageNext]_lineageVars
             PROVE  LineageInv'
    OBVIOUS
<1>1. CASE AskProvenance
    <2>1. PICK l \in Lineages :
              /\ traced' = <<[lineage |-> l, graph |-> BuildForConnection(l)]>>
              /\ up' = Start(l.tile)
        BY <1>1 DEF AskProvenance
    <2>2. down' = Unasked
        BY <1>1 DEF AskProvenance, LineageInv
    <2>3. DOMAIN traced' = {1} /\ traced'[1] = [lineage |-> l, graph |-> BuildForConnection(l)]
        BY <2>1
    <2>4. WalkInv(BuildForConnection(l).edges, up', l.tile, FALSE)
        BY <2>1, WalkStarts
    <2>5. traced' # <<>>
        BY <2>1
    <2>6. /\ traced'[1].lineage = l
          /\ traced'[1].graph = BuildForConnection(l)
        BY <2>3
    <2>7. UpInv(traced[1])' /\ DownInv(traced[1])'
        BY <2>2, <2>4, <2>6 DEF UpInv, DownInv
    <2> QED
        BY <2>3, <2>5, <2>6, <2>7 DEF LineageInv
<1>2. CASE AskImpact
    <2>1. PICK i \in DOMAIN traced : down' = Start(traced[i].lineage.source)
        BY <1>2 DEF AskImpact
    <2>2. traced' = traced /\ up' = up
        BY <1>2 DEF AskImpact
    <2>3. DOMAIN traced = {1} /\ i = 1
        BY <2>1 DEF LineageInv
    <2>4. WalkInv(traced[1].graph.edges, down', traced[1].lineage.source, TRUE)
        BY <2>1, <2>3, WalkStarts
    <2>5. traced # <<>>
        BY <2>3
    <2> QED
        BY <2>2, <2>3, <2>4, <2>5 DEF LineageInv, UpInv, DownInv
<1>3. CASE VisitUp
    <2>1. PICK i \in DOMAIN traced :
              \E node \in up.waiting : up' = Visited(traced[i].graph.edges, up, node, FALSE)
        BY <1>3 DEF VisitUp
    <2>2. traced' = traced /\ down' = down
        BY <1>3 DEF VisitUp
    <2>3. DOMAIN traced = {1} /\ i = 1
        BY <2>1 DEF LineageInv
    <2>4. UpInv(traced[1])
        BY <2>3 DEF LineageInv
    <2>5. WalkInv(traced[1].graph.edges, up', traced[1].lineage.tile, FALSE)
        BY <2>1, <2>3, <2>4, WalkGoesOn DEF UpInv
    <2>6. traced # <<>>
        BY <2>3
    <2> QED
        BY <2>2, <2>3, <2>5, <2>6 DEF LineageInv, UpInv, DownInv
<1>4. CASE VisitDown
    <2>1. PICK i \in DOMAIN traced :
              \E node \in down.waiting : down' = Visited(traced[i].graph.edges, down, node, TRUE)
        BY <1>4 DEF VisitDown
    <2>2. traced' = traced /\ up' = up
        BY <1>4 DEF VisitDown
    <2>3. DOMAIN traced = {1} /\ i = 1
        BY <2>1 DEF LineageInv
    <2>4. DownInv(traced[1]) /\ down # Unasked
        BY <2>1, <2>3 DEF LineageInv, Unasked
    <2>5. WalkInv(traced[1].graph.edges, down', traced[1].lineage.source, TRUE)
        BY <2>1, <2>3, <2>4, WalkGoesOn DEF DownInv
    <2>6. traced # <<>>
        BY <2>3
    <2> QED
        BY <2>2, <2>3, <2>5, <2>6 DEF LineageInv, UpInv, DownInv
<1>5. CASE UNCHANGED lineageVars
    BY <1>5 DEF lineageVars, LineageInv, UpInv, DownInv
<1> QED
    BY <1>1, <1>2, <1>3, <1>4, <1>5 DEF LineageNext

LEMMA UnreadableIsAdmitted ==
    ASSUME NEW l, IsLineage(l), NEW step \in l.steps,
           step.layer # "bronze", step.status = "succeeded", step.sql = "unreadable"
    PROVE  BuildForConnection(l).unparsed
<1>1. step \in Contributing(l)
    BY DEF Contributing
<1>2. Unparsed(l, step)
    BY DEF IsLineage, Unparsed
<1> QED
    BY <1>1, <1>2 DEF BuildForConnection

\* Of a connection without a run that succeeded no walk sees more than its start.
LEMMA NothingKnown ==
    ASSUME NEW l, ~l.succeeded, NEW walk, NEW start, NEW forward,
           WalkInv(BuildForConnection(l).edges, walk, start, forward)
    PROVE  walk.seen = {start}
BY DEF WalkInv, BuildForConnection

LEMMA LineageAnswers == LineageInv => LineageAgrees
<1> SUFFICES ASSUME LineageInv, NEW i \in DOMAIN traced
             PROVE  LET l == traced[i].lineage
                        provenance == Provenance(traced[i].graph, up.found)
                        impact == Impact(traced[i].graph, down.found)
                    IN  /\ (l.source \in provenance.origins \/ l.tile \in impact.tiles) => Carried(l)
                        /\ Carried(l) =>
                              /\ up.waiting = {} => l.source \in provenance.origins
                              /\ (down # Unasked /\ down.waiting = {}) => l.tile \in impact.tiles
                        /\ (\E step \in l.steps :
                                step.layer # "bronze" /\ step.status = "succeeded" /\ step.sql = "unreadable")
                              => ~provenance.complete /\ ~impact.complete
    BY DEF LineageAgrees
<1> DEFINE l == traced[i].lineage
           graph == traced[i].graph
           provenance == Provenance(graph, up.found)
           impact == Impact(graph, down.found)
<1>1. IsLineage(l) /\ graph = BuildForConnection(l)
    BY LineagesAssumption DEF LineageInv
<1>2. WalkInv(graph.edges, up, l.tile, FALSE)
    BY DEF LineageInv, UpInv
<1>3. down = Unasked \/ WalkInv(graph.edges, down, l.source, TRUE)
    BY DEF LineageInv, DownInv
<1>4. l.source # l.tile
    BY <1>1 DEF IsLineage
<1>5. down = Unasked => l.tile \notin impact.tiles
    BY DEF Impact, Unasked
<1> HIDE DEF l, graph
<1>6. l.source \in provenance.origins <=> l.source \in up.seen
    BY <1>1, <1>2, OriginSeen
<1>7. down # Unasked => (l.tile \in impact.tiles <=> l.tile \in down.seen)
    BY <1>1, <1>3, TileSeen
<1> HIDE DEF provenance, impact
<1>8. (l.source \in provenance.origins \/ l.tile \in impact.tiles) => Carried(l)
    <2>1. ASSUME l.source \in provenance.origins
          PROVE  Carried(l)
        <3>1. l.source \in up.seen
            BY <2>1, <1>6
        <3>2. l.succeeded
            <4>1. ~l.succeeded => up.seen = {l.tile}
                BY <1>1, <1>2, NothingKnown
            <4> QED
                BY <4>1, <3>1, <1>4
        <3>3. l.tile \in TilesOf(l)
            BY <3>1, <3>2, <1>1, <1>2, UpSees
        <3> QED
            BY <3>2, <3>3, CarriedIsTile
    <2>2. ASSUME l.tile \in impact.tiles
          PROVE  Carried(l)
        <3>1. l.tile \in down.seen /\ WalkInv(graph.edges, down, l.source, TRUE)
            BY <2>2, <1>3, <1>5, <1>7
        <3>2. l.succeeded
            <4>1. ~l.succeeded => down.seen = {l.source}
                BY <3>1, <1>1, NothingKnown
            <4> QED
                BY <4>1, <3>1, <1>4
        <3>3. l.tile \in TilesOf(l)
            BY <3>1, <3>2, <1>1, DownSees
        <3> QED
            BY <3>2, <3>3, CarriedIsTile
    <2> QED
        BY <2>1, <2>2
<1>9. Carried(l) /\ up.waiting = {} => l.source \in provenance.origins
    BY <1>1, <1>2, <1>6, UpFinds, CarriedIsTile
<1>10. Carried(l) /\ down # Unasked /\ down.waiting = {} => l.tile \in impact.tiles
    BY <1>1, <1>3, <1>7, DownFinds, CarriedIsTile
<1>11. ASSUME NEW step \in l.steps, step.layer # "bronze", step.status = "succeeded",
              step.sql = "unreadable"
       PROVE  ~provenance.complete /\ ~impact.complete
    <2>1. graph.unparsed
        BY <1>1, <1>11, UnreadableIsAdmitted
    <2> QED
        BY <2>1 DEF provenance, impact, Provenance, Impact
<1> QED
    BY <1>8, <1>9, <1>10, <1>11 DEF l, graph, provenance, impact

\* Whatever ran, whatever is built on it, and wherever the walks were cut: a
\* tile names a source, and the source the tile, only when steps that
\* succeeded carry one to the other, always when the walk ended of itself, and
\* a step that could not be read is admitted in both answers.
THEOREM LineageIsTrue == LineageSpec => []LineageAgrees
<1>1. LineageInit => LineageInv
    BY LineageStarts
<1>2. LineageInv /\ [LineageNext]_lineageVars => LineageInv'
    BY LineageSteps
<1>3. LineageInv => LineageAgrees
    BY LineageAnswers
<1> QED
    BY <1>1, <1>2, <1>3, PTL DEF LineageSpec
=============================================================================
