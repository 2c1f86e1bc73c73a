-------------------------------- MODULE People -------------------------------
(* The accounts and organisations that memberships and sessions are of       *)
(* (identity/models.py, tenancy/models.py).                                  *)
CONSTANTS
    Users, Tenants,
    NoTenant        \* the organisation of a session that has none yet

ASSUME PeopleAssumption == NoTenant \notin Tenants /\ Users # {} /\ Tenants # {}
=============================================================================
