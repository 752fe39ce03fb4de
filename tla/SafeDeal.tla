------------------------------ MODULE SafeDeal ------------------------------
(***************************************************************************)
(* What an escrow deal promises: the status of each deal, the payments      *)
(* booked for it and the payouts ordered for it, with each step taken       *)
(* atomically.  Escrow implements it when its handlers do not overlap.      *)
(***************************************************************************)
EXTENDS Naturals

CONSTANT Deal

VARIABLES status, booked, paidOut

vars == <<status, booked, paidOut>>

Live == {"payment_pending", "funded", "delivery_marked", "disputed"}

Init == /\ status = [d \in Deal |-> "none"]
        /\ booked = [d \in Deal |-> 0]
        /\ paidOut = [d \in Deal |-> 0]

Become(d, s) == status' = [status EXCEPT ![d] = s]

Create(d) == /\ status[d] = "none"
             /\ Become(d, "payment_pending")
             /\ UNCHANGED <<booked, paidOut>>

\* A payment may arrive late: for a disputed or a cancelled deal.
Book(d) == /\ status[d] \in {"payment_pending", "disputed", "cancelled"}
           /\ Become(d, "funded")
           /\ booked' = [booked EXCEPT ![d] = @ + 1]
           /\ UNCHANGED paidOut

Deliver(d) == /\ status[d] = "funded"
              /\ Become(d, "delivery_marked")
              /\ UNCHANGED <<booked, paidOut>>

\* The payout precedes the release and is repeated if the release is lost.
PayOut(d) == /\ status[d] = "delivery_marked"
             /\ paidOut' = [paidOut EXCEPT ![d] = @ + 1]
             /\ UNCHANGED <<status, booked>>

Release(d) == /\ status[d] = "delivery_marked"
              /\ paidOut[d] > 0
              /\ Become(d, "released")
              /\ UNCHANGED <<booked, paidOut>>

Dispute(d) == /\ status[d] \in Live
              /\ Become(d, "disputed")
              /\ UNCHANGED <<booked, paidOut>>

Cancel(d) == /\ status[d] \in Live
             /\ Become(d, "cancelled")
             /\ UNCHANGED <<booked, paidOut>>

Next == \E d \in Deal :
          \/ Create(d)
          \/ Book(d)
          \/ Deliver(d)
          \/ PayOut(d)
          \/ Release(d)
          \/ Dispute(d)
          \/ Cancel(d)

Spec == Init /\ [][Next]_vars
=============================================================================
