----------------------------- MODULE Credentials ----------------------------
(***************************************************************************)
(* The credentials of connections: create_connection and delete_connection *)
(* of api/routers/connections.py over secrets/connections.py and           *)
(* secrets/provider.py.                                                    *)
(*                                                                         *)
(* The vault is a function from references to values; the committed rows a *)
(* function from connections to their name, config and secret fields.      *)
(* What may fail is part of a call: the field whose put raises, the        *)
(* deletes that raise, the test of the source, the commit.                 *)
(*                                                                         *)
(* A form gives the fields a source asks for by their names: whether it is *)
(* secret, whether it is required, its default (<<>> for none), the values *)
(* of other fields it is shown for, and its place in the form.  What is    *)
(* submitted is a function from field names to texts.                      *)
(***************************************************************************)
EXTENDS Texts, FiniteSets

CONSTANTS
    Form,           \* the fields of the source, by name
    Submissions,    \* what may be submitted
    NewIds,         \* bound: the ids there are to give
    Names           \* the names a connection may be given

SecretFields == {n \in DOMAIN Form : Form[n].secret}

\* No field is shown for the value of a secret.
ASSUME CredentialsAssumption ==
    /\ \A n \in DOMAIN Form : /\ Form[n].secret \in BOOLEAN
                              /\ SecretFields \cap DOMAIN Form[n].shownIf = {}
                              /\ Form[n].default \in Seq(STRING)
    /\ \A values \in Submissions : \A n \in DOMAIN values : values[n] \in Seq(STRING)

VARIABLES
    vault,          \* the values stored, by reference
    connections,    \* the rows committed
    made            \* every id given: what was submitted for it, how it ended, and the
                    \* secret fields that could not be deleted when it last was

credentialVars == <<vault, connections, made>>

-----------------------------------------------------------------------------
(* The form.                                                                 *)

Raw(n, values) == IF n \in DOMAIN values THEN values[n] ELSE Form[n].default

\* A field that depends on no other has no keys in shownIf.
Visible(n, values) ==
    \A key \in DOMAIN Form[n].shownIf : key \in DOMAIN values /\ values[key] \in Form[n].shownIf[key]

Filled(n, values) == Visible(n, values) /\ Raw(n, values) # <<>>

Missing(values) ==
    {n \in DOMAIN Form : Form[n].required /\ Visible(n, values) /\ Raw(n, values) = <<>>}

\* The fields that are filled, secret or not, without surrounding blanks.
Part(values, secret) ==
    [n \in {m \in DOMAIN Form : Form[m].secret = secret /\ Filled(m, values)} |-> Trim(Raw(n, values))]

\* What a form comes to: nothing when a required field is missing, else what
\* is kept in the row and what goes to the vault.
SplitPayload(values) ==
    IF Missing(values) # {} THEN <<>>
    ELSE <<[config |-> Part(values, FALSE), secrets |-> Part(values, TRUE)]>>

-----------------------------------------------------------------------------
(* The vault.                                                                *)

ReferenceFor(connection, n) == <<connection, n>>
References(connection, names) == {ReferenceFor(connection, n) : n \in names}

\* The secrets of a connection, those of names, over what is stored.
Put(connection, secrets, names) ==
    [r \in DOMAIN vault \cup References(connection, names) |->
        IF r \in References(connection, names) THEN secrets[r[2]] ELSE vault[r]]

Without(store, keys) == [k \in DOMAIN store \ keys |-> store[k]]

\* Every reference is tried; one that cannot be deleted stays.
DeleteMany(store, references, stuck) == Without(store, references \ stuck)

\* The fields put before one of them.
Before(secrets, failing) == {n \in DOMAIN secrets : Form[n].place < Form[failing].place}

\* (mutant) what was written before the failure stays
UndoneNot(store, references, stuck) == store

\* What was written before the failure is deleted, as far as it can be.
Undone(store, references, stuck) == DeleteMany(store, references, stuck)

\* put_many raises at a field: those before it are taken back.
PutFails(connection, secrets, failing, stuck) ==
    LET written == Before(secrets, failing)
    IN  Undone(Put(connection, secrets, written), References(connection, written),
               References(connection, stuck))

-----------------------------------------------------------------------------
(* The routes.                                                               *)

Kept(connection) == {n \in SecretFields : ReferenceFor(connection, n) \in DOMAIN vault}

\* A name that is taken is refused, and a form that does not validate.
Accepted(name, values) ==
    /\ \A c \in DOMAIN connections : connections[c].name # name
    /\ SplitPayload(values) # <<>>

Made(connection, values, end, left) ==
    made' = [c \in DOMAIN made \cup {connection} |->
                IF c = connection THEN [values |-> values, end |-> end, left |-> left] ELSE made[c]]

RowOf(name, payload) ==
    [name |-> name, config |-> payload.config, fields |-> DOMAIN payload.secrets]

\* The row is committed last, after the source was tested: a source that is out
\* of reach is recorded, an error of the test itself leaves no row, nor does a
\* put that raises or a commit that fails.
CreateConnection(connection, name, values) ==
    /\ connection \notin DOMAIN made
    /\ Accepted(name, values)
    /\ LET payload == SplitPayload(values)[1]
           secrets == payload.secrets
       IN  \/ /\ vault' = Put(connection, secrets, DOMAIN secrets)
              /\ connections' = [c \in DOMAIN connections \cup {connection} |->
                              IF c = connection THEN RowOf(name, payload) ELSE connections[c]]
              /\ Made(connection, values, "created", {})
           \/ /\ vault' = Put(connection, secrets, DOMAIN secrets)
              /\ Made(connection, values, "raised", {})
              /\ UNCHANGED connections
           \/ \E failing \in DOMAIN secrets : \E stuck \in SUBSET Before(secrets, failing) :
                /\ vault' = PutFails(connection, secrets, failing, stuck)
                /\ Made(connection, values, "unsaved", stuck)
                /\ UNCHANGED connections

\* The credentials go first, as far as they can be deleted; then the row, unless
\* the commit fails.
DeleteConnection(connection) ==
    /\ connection \in DOMAIN connections
    /\ \E stuck \in SUBSET connections[connection].fields :
          /\ vault' = DeleteMany(vault, References(connection, connections[connection].fields),
                                 References(connection, stuck))
          /\ \/ /\ connections' = Without(connections, {connection})
                /\ Made(connection, made[connection].values, "deleted", stuck)
             \/ /\ Made(connection, made[connection].values, "undeleted", stuck)
                /\ UNCHANGED connections

CredentialsInit ==
    /\ vault = <<>>
    /\ connections = <<>>
    /\ made = <<>>

CredentialsNext ==
    \E connection \in NewIds :
        \/ \E name \in Names, values \in Submissions : CreateConnection(connection, name, values)
        \/ DeleteConnection(connection)

CredentialsSpec == CredentialsInit /\ [][CredentialsNext]_credentialVars

-----------------------------------------------------------------------------
(* Reading them.                                                             *)

\* The values of a connection, or <<>> when one of them is gone.
LoadSecrets(connection) ==
    LET fields == connections[connection].fields
    IN  IF References(connection, fields) \subseteq DOMAIN vault
        THEN <<[n \in fields |-> vault[ReferenceFor(connection, n)]]>> ELSE <<>>

Typed(n, submitted) == n \in DOMAIN submitted /\ submitted[n] # <<>>

\* A field left blank falls back to what is stored, where it still is.
MergeSecrets(connection, submitted) ==
    LET stored == {n \in connections[connection].fields : ReferenceFor(connection, n) \in DOMAIN vault}
    IN  [n \in DOMAIN submitted \cup stored |->
            IF Typed(n, submitted) \/ n \notin stored THEN submitted[n]
            ELSE vault[ReferenceFor(connection, n)]]

\* What an edit submits: only a connection that exists and has credentials lends
\* them to the form.
MergeStored(connection, submitted) ==
    IF connection \in DOMAIN connections /\ connections[connection].fields # {}
    THEN MergeSecrets(connection, submitted) ELSE submitted

\* test_connection of a connection that is being edited.
TestedWith(connection, submitted) == SplitPayload(MergeStored(connection, submitted))

-----------------------------------------------------------------------------
(* What the vault promises.                                                  *)

\* The form of a connection again, with none of its secrets typed.
Untyped(values) ==
    [n \in DOMAIN values \cup SecretFields |-> IF n \in SecretFields THEN <<>> ELSE values[n]]

\* What was asked for a connection when it was made.
AskedFor(connection) == SplitPayload(made[connection].values)[1].secrets

\* A connection that was created runs with what was submitted for it, and an edit
\* that types none of it again is tested with the same.  (A secret of nothing
\* but blanks is stored as the empty text, which counts as none when it is edited.)
Whole(connection) ==
    /\ LoadSecrets(connection) = <<AskedFor(connection)>>
    /\ (\A n \in DOMAIN AskedFor(connection) : AskedFor(connection)[n] # <<>>) =>
           TestedWith(connection, Untyped(made[connection].values))
               = SplitPayload(made[connection].values)

\* Of one whose deletion was not committed, an edit is asked for the required
\* secrets that are gone.
AskedAgain(connection) ==
    (\E n \in connections[connection].fields \ Kept(connection) : Form[n].required) =>
        TestedWith(connection, Untyped(made[connection].values)) = <<>>

\* However calls failed before it, a connection that is there has the whole of
\* its credentials, unless it was to be deleted.  Of one that is not there the
\* vault has nothing, never half a credential, except what could not be deleted
\* and the whole form of a connection whose row was not committed.
CredentialsAreWhole ==
    \A c \in DOMAIN made :
        IF c \in DOMAIN connections
        THEN (made[c].end = "created" /\ Whole(c)) \/ (made[c].end = "undeleted" /\ AskedAgain(c))
        ELSE \/ Kept(c) \subseteq made[c].left
             \/ made[c].end = "raised" /\ Kept(c) = DOMAIN AskedFor(c)
=============================================================================
