--------------------------- MODULE OrderLifecycle ---------------------------
(***************************************************************************)
(* The order state machine every service of the backend shares: the pure   *)
(* lookup table of order-state-machine.ts and the test made against it.    *)
(***************************************************************************)

OrderStatus == { "PENDING_PAYMENT", "PAYMENT_FAILED", "PAID", "CONFIRMED",
                 "IN_PRODUCTION", "SHIPPED", "DELIVERED", "CANCELLED",
                 "REFUNDED" }

ORDER_STATE_TRANSITIONS ==
  [ PENDING_PAYMENT |-> {"PAID", "PAYMENT_FAILED"},
    PAYMENT_FAILED  |-> {"PENDING_PAYMENT"},
    PAID            |-> {"CANCELLED", "CONFIRMED", "REFUNDED"},
    CONFIRMED       |-> {"CANCELLED", "IN_PRODUCTION", "REFUNDED"},
    IN_PRODUCTION   |-> {"SHIPPED", "REFUNDED"},
    SHIPPED         |-> {"DELIVERED", "REFUNDED"},
    DELIVERED       |-> {"REFUNDED"},
    CANCELLED       |-> {"REFUNDED"},
    REFUNDED        |-> {} ]

isTransitionAllowed(from, to) == to \in ORDER_STATE_TRANSITIONS[from]

(* The statuses an order has while nobody has paid for it. *)
Unpaid == {"PENDING_PAYMENT", "PAYMENT_FAILED"}

=============================================================================
