--------------------------- MODULE OrderLifecycle ---------------------------
(***************************************************************************)
(* What the purchase module promises of the status of its orders           *)
(* (docs/architecture.md, 3.2): an order appears as ordered, or as inquiry *)
(* when a stock alert raises it, and from then on its status follows the   *)
(* transition table one event at a time.  The orders of the seed data are  *)
(* there from the start, at any stage of it.                               *)
(***************************************************************************)
EXTENDS PurchaseFSM

CONSTANT Orders

VARIABLE status    \* status[o]: the status of order o, NoStatus before it exists

Init == status \in [Orders -> {NoStatus} \cup SeedStatuses]

Create(o) ==
    /\ status[o] = NoStatus
    /\ \E first \in {"inquiry", "ordered"} : status' = [status EXCEPT ![o] = first]

Advance(o) ==
    /\ status[o] # NoStatus
    /\ \E t \in stateTransitions :
          status[o] \in t.src /\ status' = [status EXCEPT ![o] = t.dst]

Next == \E o \in Orders : Create(o) \/ Advance(o)

Spec == Init /\ [][Next]_status

=============================================================================
