----------------------------- MODULE MCAccounts -----------------------------
(* Two first logins with the default credentials, and two requests with
   whatever tokens there are.  Logins are alike, and so are requests. *)
EXTENDS Accounts, TLC

MCSeed == [name |-> "admin", pass |-> "admin"]
MCCredentials == [l \in Logins |-> MCSeed]
MCSymmetry == Permutations(Logins) \cup Permutations(Edits)
=============================================================================
