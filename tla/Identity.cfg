SPECIFICATION Spec

CONSTANTS
    ann = ann
    bob = bob
    Users = {ann, bob}
    Tenants = {"acme"}
    Invitations = {i1, i2}
    Roles = {"owner", "viewer"}
    Claim <- MCClaim
    AutoJoin <- MCAutoJoin
    NoTenant = NoTenant
    LateAnswers = FALSE
    Tokens = {s1, s2, s3}

SYMMETRY Symmetric

INVARIANTS
    FamiliesAreWhole
    RemovedIsOut
    OwnerRemains

CHECK_DEADLOCK FALSE
