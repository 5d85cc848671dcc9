---------------------------- MODULE SingleRepair ----------------------------
(***************************************************************************)
(* What the operator promises of the data of a running cluster: members    *)
(* are taken apart one by one, each of them only after it was marked, and  *)
(* the next one is not marked before the data of the last one is back.     *)
(* Nothing is said of why a member is marked, nor of failures, caches and  *)
(* requests.                                                               *)
(***************************************************************************)
EXTENDS TLAPS

CONSTANT Members

VARIABLES
    marked,  \* the members under repair
    lost     \* the members without their data

Init == marked = {} /\ lost = {}

Mark(m) ==
    /\ marked = {} /\ lost \subseteq {m}
    /\ marked' = {m} /\ UNCHANGED lost

Wipe(m) ==
    /\ m \in marked
    /\ lost' = lost \cup {m} /\ UNCHANGED marked

Unmark(m) ==
    /\ m \in marked
    /\ marked' = marked \ {m} /\ UNCHANGED lost

Refill(m) ==
    /\ m \in lost \ marked
    /\ lost' = lost \ {m} /\ UNCHANGED marked

Next == \E m \in Members : Mark(m) \/ Wipe(m) \/ Unmark(m) \/ Refill(m)

Spec == Init /\ [][Next]_<<marked, lost>>

-----------------------------------------------------------------------------

\* At most one member is without its data.
AtMostOneLost == \A j, k \in lost : j = k

\* Marked and lost are about the same member.
RepairInv == \E m : marked \subseteq {m} /\ lost \subseteq {m}

\* Repair never takes the data of two members (cluster_controller.go:302-307): the
\* mark waits for the data, not only for the mark before it.
THEOREM OneLost == Spec => []AtMostOneLost
  <1>1. Init => RepairInv
    BY DEF Init, RepairInv
  <1>2. RepairInv /\ [Next]_<<marked, lost>> => RepairInv'
    BY DEF RepairInv, Next, Mark, Wipe, Unmark, Refill
  <1>3. RepairInv => AtMostOneLost
    BY DEF RepairInv, AtMostOneLost
  <1> QED BY <1>1, <1>2, <1>3, PTL DEF Spec
=============================================================================
