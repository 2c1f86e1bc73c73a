----------------------------- MODULE WarehouseMC ----------------------------
(* Small instances of Warehouse for TLC: two tenants, one cached engine.     *)
EXTENDS Warehouse

MCTenantOf == [w \in Threads |-> IF w = "reader" THEN "other" ELSE "acme"]
MCLoads == [w \in {"loader"} |-> "leases"]
=============================================================================
