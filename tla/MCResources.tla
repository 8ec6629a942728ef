---------------------------- MODULE MCResources ----------------------------
(* Two requests of one tenant and one of another. *)
EXTENDS Resources

MCTenantOf == [r1 |-> "t1", r2 |-> "t1", r3 |-> "t2"]
=============================================================================
