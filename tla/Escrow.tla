------------------------------- MODULE Escrow -------------------------------
(* What the marketplace promises about a buyer's money, whatever the requests,
   redeliveries and crashes it takes to keep it: an order is sold only on money
   that was captured and not given back, a dropped order whose money arrives
   late is owed a refund, money goes back only where a refund is owed or has just
   been closed by hand, and the marketplace itself records a refund only after
   money went back. *)
CONSTANT Orders

VARIABLES
  deal,            \* how far the bargain has come
  captured,        \* the provider has taken the buyer's money
  returned         \* the provider has given money back

vars == <<deal, captured, returned>>

Deals == {"open", "sold", "done", "dropped", "refused", "owed", "repaid", "closed"}

Init ==
  /\ deal = [o \in Orders |-> "open"]
  /\ captured = [o \in Orders |-> FALSE]
  /\ returned = [o \in Orders |-> FALSE]

Move(o, from, to) ==
  /\ deal[o] = from
  /\ deal' = [deal EXCEPT ![o] = to]
  /\ UNCHANGED <<captured, returned>>

\* The hosted page takes money at any time, wanted or not.
Capture(o) ==
  /\ ~captured[o]
  /\ captured' = [captured EXCEPT ![o] = TRUE]
  /\ UNCHANGED <<deal, returned>>

Sell(o) == captured[o] /\ ~returned[o] /\ Move(o, "open", "sold")

Drop(o) == Move(o, "open", "dropped")

OweLatePayer(o) == captured[o] /\ ~returned[o] /\ Move(o, "dropped", "owed")

OweRejected(o) == Move(o, "sold", "owed")

Refuse(o) == Move(o, "sold", "refused")

Deliver(o) == Move(o, "sold", "done")

GiveBack(o) ==
  /\ deal[o] \in {"owed", "closed"}
  /\ captured[o] /\ ~returned[o]
  /\ returned' = [returned EXCEPT ![o] = TRUE]
  /\ UNCHANGED <<deal, captured>>

Repay(o) == returned[o] /\ Move(o, "owed", "repaid")

\* An admin says that it was repaid, and is believed.
Close(o) == Move(o, "owed", "closed")

Next ==
  \E o \in Orders :
    \/ Capture(o) \/ Sell(o) \/ Drop(o) \/ OweLatePayer(o) \/ OweRejected(o)
    \/ Refuse(o) \/ Deliver(o) \/ GiveBack(o) \/ Repay(o) \/ Close(o)

Spec == Init /\ [][Next]_vars
=============================================================================
