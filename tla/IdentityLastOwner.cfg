SPECIFICATION Spec

CONSTANTS
    ann = ann
    bob = bob
    Users = {ann, bob}
    Tenants = {"acme"}
    Invitations = {i1, i2}
    Roles = {"owner", "viewer"}
    Claim <- MCClaim
    AutoJoin <- MCAutoJoin
    NoTenant = NoTenant
    LateAnswers = TRUE
    Tokens = {s1}


INVARIANTS
    OwnerRemains

CHECK_DEADLOCK FALSE
