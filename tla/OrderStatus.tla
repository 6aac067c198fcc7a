---------------------------- MODULE OrderStatus ----------------------------
(* The order lifecycle: which status may follow which, and who may ask for it.
   src/src/common/constants/order-status-transitions.ts.  The tables are data,
   so they are written as sets of pairs and of <<pair, actor>>. *)

OrderStatuses ==
  { "PENDING", "PAYMENT_PENDING", "PAID", "AWAITING_CONFIRMATION", "CONFIRMED",
    "PREPARING", "OUT_FOR_DELIVERY", "DELIVERED", "CANCELLED", "REJECTED",
    "REFUND_PENDING", "REFUNDED" }

(* ORDER_STATUS_TRANSITIONS *)
Transitions ==
  { <<"PENDING", "PAYMENT_PENDING">>,          <<"PENDING", "CANCELLED">>,
    <<"PAYMENT_PENDING", "PAID">>,             <<"PAYMENT_PENDING", "CANCELLED">>,
    <<"PAID", "AWAITING_CONFIRMATION">>,
    <<"AWAITING_CONFIRMATION", "CONFIRMED">>,  <<"AWAITING_CONFIRMATION", "REJECTED">>,
    <<"CONFIRMED", "PREPARING">>,              <<"PREPARING", "OUT_FOR_DELIVERY">>,
    <<"OUT_FOR_DELIVERY", "DELIVERED">>,       <<"CANCELLED", "REFUND_PENDING">>,
    <<"REJECTED", "REFUND_PENDING">>,          <<"REFUND_PENDING", "REFUNDED">> }

CanTransition(from, to) == <<from, to>> \in Transitions

OrderActors == {"CUSTOMER", "SUPPLIER", "ADMIN"}

(* ORDER_TRANSITION_ACTORS: a transition that is absent is system-driven. *)
TransitionActors ==
  (({"PENDING", "PAYMENT_PENDING"} \X {"CANCELLED"}) \X {"CUSTOMER", "ADMIN"})
  \cup (({"AWAITING_CONFIRMATION"} \X {"CONFIRMED", "REJECTED"}) \X {"SUPPLIER", "ADMIN"})
  \cup ({<<"CONFIRMED", "PREPARING">>, <<"PREPARING", "OUT_FOR_DELIVERY">>}
          \X {"SUPPLIER", "ADMIN"})
  \cup ({<<"OUT_FOR_DELIVERY", "DELIVERED">>} \X {"CUSTOMER", "ADMIN"})
  \cup ({<<"REFUND_PENDING", "REFUNDED">>} \X {"ADMIN"})

AllowedActors(from, to) == {a \in OrderActors : <<<<from, to>>, a>> \in TransitionActors}
=============================================================================
