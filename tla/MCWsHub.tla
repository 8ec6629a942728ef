------------------------------ MODULE MCWsHub ------------------------------
(* Two connections of two tenants: c1 sends two chat frames, c2 only listens,
   and one post is for everybody. *)
EXTENDS WsHub

MCTwoTenants == [c1 |-> "t1", c2 |-> "t2"]
MCFrames == [c1 |-> 2, c2 |-> 0]
MCToAll == [p |-> Everybody]
=============================================================================
