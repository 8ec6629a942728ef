-------------------------- MODULE FlowTransactions --------------------------
(***************************************************************************)
(* What Engine.Execute promises of the side-effect store: a run is a       *)
(* transaction on the keys it has for itself.  What it writes there shows  *)
(* when it commits, all at once, and never if it is rolled back.  A key    *)
(* that another run may write too is not isolated: writes show at once.    *)
(***************************************************************************)
CONSTANTS
  Runs,
  Keys,
  Writes  \* Writes[r]: the keys run r may write

VARIABLES
  store,  \* the value of each key without the writes of transactions
  phase,  \* "idle", "active", "committed", "aborted", "refused", "abandoned"
  own     \* own[r]: keys no other run could write since r began

vars == <<store, phase, own>>

Init ==
  /\ DOMAIN store = Keys
  /\ phase = [r \in Runs |-> "idle"]
  /\ own = [r \in Runs |-> {}]

Active == {r \in Runs : phase[r] = "active"}

(* A step that shows new values for the keys of S at most. *)
Shows(S) == \A k \in Keys \ S : store'[k] = store[k]

(* A run takes the keys no active run may write; from now on the keys it
   shares with active runs show what these have written so far. *)
Begin(r) ==
  /\ phase[r] = "idle"
  /\ phase' = [phase EXCEPT ![r] = "active"]
  /\ own' = [q \in Runs |-> IF q = r THEN Writes[r] \ UNION {Writes[p] : p \in Active}
                                     ELSE own[q] \ Writes[r]]
  /\ Shows(UNION {own[q] \cap Writes[r] : q \in Active})

(* A write, or the undoing of one. *)
Write(r) ==
  /\ phase[r] = "active"
  /\ Shows(Writes[r] \ own[r])
  /\ UNCHANGED <<phase, own>>

End(r, from, to, S) ==
  /\ phase[r] = from
  /\ phase' = [phase EXCEPT ![r] = to]
  /\ Shows(S)
  /\ UNCHANGED own

Commit(r) == End(r, "active", "committed", own[r])
Abort(r) == End(r, "active", "aborted", {})

(* A run that panics ends with what it has written so far. *)
Abandon(r) == End(r, "active", "abandoned", own[r])

(* The request is answered without a run. *)
Refuse(r) == End(r, "idle", "refused", {})

Next ==
  \E r \in Runs :
    Begin(r) \/ Write(r) \/ Commit(r) \/ Abort(r) \/ Abandon(r) \/ Refuse(r)

Spec == Init /\ [][Next]_vars
=============================================================================
