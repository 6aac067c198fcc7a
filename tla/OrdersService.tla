--------------------------- MODULE OrdersService ---------------------------
(* OrdersService.updateOrderStatus (cancelOrder is a call of it), cut where the
   handler awaits: the read, the transaction, the notification. *)
EXTENDS OrderTables

\* a rejection gives back what payment confirmation took, if it took anything
MutKeepsStock(o, target) == FALSE
RestoresStock(o, target) == target = "REJECTED" /\ deducted[o]

\* a rejected order that was paid for owes the buyer a refund
MutOwesRefund(o, target) == FALSE
OwesRefund(o, target) == target = "REJECTED" /\ payment[o].status = "SUCCESS"

\* Read the order with its payment and check the request against what was read.
UpdateRead(c, o, target, actor) ==
  /\ At(c, "idle")
  /\ CanTransition(status[o], target)
  /\ actor \in AllowedActors(status[o], target)
  /\ Become(c, [pc |-> "update", order |-> o, from |-> status[o], target |-> target,
                restores |-> RestoresStock(o, target), owes |-> OwesRefund(o, target)])
  /\ UNCHANGED tableVars

\* UPDATE orders ... WHERE status = the status that was read
MutStillThere(o, from) == TRUE
StillThere(o, from) == status[o] = from

\* The rest of the transaction: stock, history, and the refund a rejection owes.
UpdateApply(c) ==
  LET o == call[c].order
      target == call[c].target
      row == <<call[c].from, target>>
  IN
  /\ At(c, "update")
  /\ StillThere(o, call[c].from)
  /\ IF call[c].owes
     THEN /\ status' = [status EXCEPT ![o] = "REFUND_PENDING"]
          /\ history' = [history EXCEPT ![o] =
                           Append(Append(@, row), <<"REJECTED", "REFUND_PENDING">>)]
     ELSE /\ status' = [status EXCEPT ![o] = target]
          /\ history' = [history EXCEPT ![o] = Append(@, row)]
  /\ IF call[c].restores
     THEN /\ deducted' = [deducted EXCEPT ![o] = FALSE]
          /\ stock' = [l \in Listings |-> stock[l] + Qty[o][l]]
     ELSE UNCHANGED <<deducted, stock>>
  /\ IF Recipient(target) = {} THEN Return(c)
     ELSE Become(c, [pc |-> "notify", order |-> o, target |-> target])
  /\ UNCHANGED <<flagged, payment, notices>>

\* 409, and nobody is told
MutAfterConflict(c) ==
  Become(c, [pc |-> "notify", order |-> call[c].order, target |-> call[c].target])
AfterConflict(c) == Return(c)

\* Nothing matched: the transaction has changed nothing.
UpdateConflict(c) ==
  /\ At(c, "update")
  /\ ~StillThere(call[c].order, call[c].from)
  /\ AfterConflict(c)
  /\ UNCHANGED tableVars

\* Outside the transaction: the notification row, for whoever did not act.
Notify(c) ==
  /\ At(c, "notify")
  /\ notices' = notices \cup
       {[order |-> call[c].order, about |-> call[c].target, to |-> p] :
          p \in Recipient(call[c].target)}
  /\ Return(c)
  /\ UNCHANGED <<status, deducted, history, flagged, payment, stock>>

OrdersStep(c) == UpdateApply(c) \/ UpdateConflict(c) \/ Notify(c)
=============================================================================
