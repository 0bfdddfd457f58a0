------------------------------ MODULE OrderState ------------------------------
(***************************************************************************)
(* The order state machine: internal/service/order_state.go with the       *)
(* status constants of internal/model/commerce.go.  TransitionOrder is the *)
(* only function of the service that changes an order's status, so every   *)
(* other module goes through Transition below.                             *)
(***************************************************************************)
EXTENDS Naturals, Sequences

PendingPayment == "PENDING_PAYMENT"
Paid           == "PAID"
Processing     == "PROCESSING"
Completed      == "COMPLETED"
Cancelled      == "CANCELLED"
Expired        == "EXPIRED"

\* The empty FromStatus of the first history row, and the status of a row that
\* does not exist yet.
NoStatus == "NONE"

\* The targets that order_state.go allows for each current status.  A status
\* that is no key of the Go map has no target.
AllowedOrderTransitions ==
  [from \in {NoStatus, PendingPayment, Paid, Processing, Completed, Cancelled, Expired} |->
     CASE from = PendingPayment -> {Paid, Cancelled, Expired}
       [] from = Paid           -> {Processing}
       [] from = Processing     -> {Completed}
       [] OTHER                 -> {}]

OrderStatuses == {PendingPayment, Paid, Processing, Completed, Cancelled, Expired}

\* Broken variant: only a completed order is closed.
CanTransitionUntilCompleted(order, target) == order.status # Completed /\ target # order.status

CanTransition(order, target) == target \in AllowedOrderTransitions[order.status]

\* Broken variant: the version is not incremented.
TransitionSameVersion(order, target, now) ==
  [order EXCEPT
     !.status      = target,
     !.paidAt      = IF target = Paid THEN now ELSE @,
     !.cancelledAt = IF target = Cancelled THEN now ELSE @,
     !.history     = Append(@, [from |-> order.status, to |-> target])]

\* TransitionOrder followed by SaveOrderAndHistory: the two are always called
\* in one transaction, on a row read under its lock in that transaction.
Transition(order, target, now) ==
  [order EXCEPT
     !.status      = target,
     !.version     = @ + 1,
     !.paidAt      = IF target = Paid THEN now ELSE @,
     !.cancelledAt = IF target = Cancelled THEN now ELSE @,
     !.history     = Append(@, [from |-> order.status, to |-> target])]

\* The states of the money and of the stock an order stands for.
HoldsStock(status) == status = PendingPayment
WasPaid(status)    == status \in {Paid, Processing, Completed}
=============================================================================
