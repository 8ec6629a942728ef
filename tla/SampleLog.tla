----------------------------- MODULE SampleLog -----------------------------
(***************************************************************************)
(* What the dashboard history promises: a log of samples that keeps the    *)
(* last Capacity of them.  HistoryRing implements it with a ring buffer.   *)
(***************************************************************************)
EXTENDS Naturals, Sequences

CONSTANTS
  Capacity,   \* samples kept
  Sample      \* the set of samples

VARIABLE log  \* oldest first

Init == log = <<>>

(* One more sample; the oldest one leaves a full log. *)
Capture(s) ==
  log' = Append(IF Len(log) = Capacity THEN Tail(log) ELSE log, s)

Next == \E s \in Sample : Capture(s)

Spec == Init /\ [][Next]_log
=============================================================================
