-------------------------- MODULE PaymentsService --------------------------
(* PaymentsService: starting a checkout, confirming a payment (the browser's
   callback and the provider's webhook both end up here), refunding an order.
   Each handler is cut where it awaits the database or the provider. *)
EXTENDS OrderTables, Paystack

Payable == {"PENDING", "PAYMENT_PENDING"}

Settled == {"SUCCESS", "REFUNDED"}

-----------------------------------------------------------------------------
(* initializePayment. The read, its guards and the provider call are one step:
   a reference the provider just made is known to nobody, so nothing the rest of
   the system does can tell in which order they happened. *)
InitializePayment(c, o, r) ==
  /\ At(c, "idle")
  /\ status[o] \in Payable
  /\ payment[o].status # "SUCCESS"
  /\ txn[r].state = "unused"
  /\ txn' = [txn EXCEPT ![r] = [state |-> "created", order |-> o]]
  /\ Become(c, [pc |-> "checkout", order |-> o, from |-> status[o], ref |-> r])
  /\ UNCHANGED <<hooks, tableVars>>

\* the conditional move: only an order read as PENDING, and only if it still is
MovesToPayment(o, from) == from = "PENDING" /\ status[o] = "PENDING"

\* The transaction: the upsert has no condition on the payment it overwrites.
\* Then the response hands the link to the buyer.
StoreCheckout(c) ==
  LET o == call[c].order
      r == call[c].ref
  IN
  /\ At(c, "checkout")
  /\ ~Locked(o)
  /\ payment' = [payment EXCEPT ![o] = [status |-> "PENDING", ref |-> r]]
  /\ IF MovesToPayment(o, call[c].from)
     THEN /\ status' = [status EXCEPT ![o] = "PAYMENT_PENDING"]
          /\ history' = [history EXCEPT ![o] = Append(@, <<"PENDING", "PAYMENT_PENDING">>)]
     ELSE UNCHANGED <<status, history>>
  /\ txn' = [txn EXCEPT ![r].state = "open"]
  /\ Return(c)
  /\ UNCHANGED <<deducted, flagged, stock, notices, hooks>>

-----------------------------------------------------------------------------
(* confirmPayment *)

\* handleWebhook answers success once confirmPayment has returned normally
Acknowledge(c) == hooks' = IF call[c].hook THEN hooks \ {call[c].ref} ELSE hooks

\* An exception answers the provider with an error: the event stays undelivered.
MutRollback(c) == Return(c) /\ Acknowledge(c)
Rollback(c) == Return(c) /\ UNCHANGED hooks

\* findPaymentFor: the payment that holds this reference, or else the payment of
\* the order the provider's metadata names. A settled payment is returned as it
\* is; the second lookup happens after verification (see VerifyTransaction).
LookupPayment(c, r, hook) ==
  LET current == payment[txn[r].order].ref = r
  IN
  /\ At(c, "idle")
  /\ txn[r].state # "unused"
  /\ hook => r \in hooks
  /\ IF current /\ payment[txn[r].order].status \in Settled
     THEN /\ hooks' = IF hook THEN hooks \ {r} ELSE hooks
          /\ UNCHANGED call
     ELSE /\ Become(c, [pc |-> "verify", order |-> txn[r].order, ref |-> r,
                        current |-> current, hook |-> hook])
          /\ UNCHANGED hooks
  /\ UNCHANGED <<txn, tableVars>>

\* verifyTransaction, and what confirmPayment does with the answer. When no payment
\* held the reference, the order's payment is read now. A failed or mismatched
\* older link says nothing about the current attempt.
VerifyTransaction(c) ==
  LET o == call[c].order
      r == call[c].ref
      found == call[c].current
      goesOn == found \/ payment[o].status \notin Settled \cup {"NONE"}
      isCurrent == found \/ payment[o].ref = r
      result == VerifyResult(r)
  IN
  /\ At(c, "verify")
  /\ \/ ~found /\ payment[o].status = "NONE" /\ Rollback(c)        \* 404
     \/ ~found /\ payment[o].status \in Settled /\ Acknowledge(c) /\ Return(c)
     \/ goesOn /\ result # "success" /\ ~isCurrent /\ Acknowledge(c) /\ Return(c)
     \/ /\ goesOn /\ result # "success" /\ isCurrent
        /\ Become(c, [pc |-> "unpaid", order |-> o, ref |-> r, hook |-> call[c].hook,
                      outcome |-> IF result = "abandoned" THEN "ABANDONED" ELSE "FAILED"])
        /\ UNCHANGED hooks
     \/ /\ goesOn /\ result = "success"
        /\ Become(c, [pc |-> "claim", order |-> o, ref |-> r, hook |-> call[c].hook])
        /\ UNCHANGED hooks
  /\ UNCHANGED <<txn, tableVars>>

\* recordUnpaid: only the attempt it was verified for, and never a settled payment
MutMayRecordUnpaid(o, r) == payment[o].ref = r
MayRecordUnpaid(o, r) == payment[o].ref = r /\ payment[o].status \notin Settled

RecordUnpaid(c) ==
  LET o == call[c].order
  IN
  /\ At(c, "unpaid")
  /\ ~Locked(o)
  /\ payment' = IF MayRecordUnpaid(o, call[c].ref)
                THEN [payment EXCEPT ![o].status = call[c].outcome]
                ELSE payment
  /\ Acknowledge(c)
  /\ Return(c)
  /\ UNCHANGED <<txn, status, deducted, history, flagged, stock, notices>>

-----------------------------------------------------------------------------
(* The confirming transaction, cut in two: it claims the payment, which locks
   the row, and reads the order; then it moves the order and commits. *)

ClaimPayment(c) ==
  LET o == call[c].order
  IN
  /\ At(c, "claim")
  /\ ~Locked(o)
  /\ IF payment[o].status \notin Settled
     THEN /\ Become(c, [pc |-> "settle", order |-> o, ref |-> call[c].ref,
                        hook |-> call[c].hook, saw |-> status[o]])
          /\ UNCHANGED hooks
     ELSE Acknowledge(c) /\ Return(c)
  /\ UNCHANGED <<txn, tableVars>>

MutPathToSupplier(from) == <<<<from, "PAID">>, <<"PAID", "AWAITING_CONFIRMATION">>>>

\* the moves a confirmed payment makes of an order found in this status
PathToSupplier(from) ==
  IF from = "CANCELLED" THEN <<<<"CANCELLED", "REFUND_PENDING">>>>
  ELSE IF from = "PENDING"
  THEN <<<<"PENDING", "PAYMENT_PENDING">>, <<"PAYMENT_PENDING", "PAID">>,
         <<"PAID", "AWAITING_CONFIRMATION">>>>
  ELSE <<<<from, "PAID">>, <<"PAID", "AWAITING_CONFIRMATION">>>>

Blocked(from) ==
  \E i \in DOMAIN PathToSupplier(from) :
    ~CanTransition(PathToSupplier(from)[i][1], PathToSupplier(from)[i][2])

\* UPDATE supplier_fuels ... WHERE availableQuantity >= quantity
Fits(o, l) == Qty[o][l] <= stock[l]
DrawsDown(o) == Source[o] = "CATALOGUE"
StockAfterSale(o) ==
  [l \in Listings |-> IF DrawsDown(o) /\ Fits(o, l) THEN stock[l] - Qty[o][l] ELSE stock[l]]
FellShort(o) == DrawsDown(o) /\ \E l \in Listings : ~Fits(o, l)

\* what the transaction writes to the order and to stock
CarryOrderOn(o, from) ==
  LET path == PathToSupplier(from)
  IN
  /\ status' = [status EXCEPT ![o] = path[Len(path)][2]]
  /\ history' = [history EXCEPT ![o] = @ \o path]
  /\ IF from = "CANCELLED"
     THEN UNCHANGED <<deducted, stock>>
     ELSE /\ stock' = StockAfterSale(o)
          /\ deducted' = [deducted EXCEPT ![o] = ~FellShort(o)]

\* the reference that was actually paid, which is what a refund needs
MutPaidThrough(o, r) == [status |-> "SUCCESS", ref |-> payment[o].ref]
PaidThrough(o, r) == [status |-> "SUCCESS", ref |-> r]

SettlePayment(c) ==
  LET o == call[c].order
      from == call[c].saw
  IN
  /\ At(c, "settle")
  /\ \/ /\ Blocked(from)                              \* noted for manual review
        /\ flagged' = [flagged EXCEPT ![o] = TRUE]
        /\ UNCHANGED <<status, history, deducted, stock>>
     \/ /\ ~Blocked(from)
        /\ status[o] = from
        /\ CarryOrderOn(o, from)
        /\ UNCHANGED flagged
  /\ payment' = [payment EXCEPT ![o] = PaidThrough(o, call[c].ref)]
  /\ Acknowledge(c)
  /\ Return(c)
  /\ UNCHANGED <<txn, notices>>

\* moveOrder found the order elsewhere: the whole transaction rolls back.
SettleConflict(c) ==
  /\ At(c, "settle")
  /\ ~Blocked(call[c].saw)
  /\ status[call[c].order] # call[c].saw
  /\ Rollback(c)
  /\ UNCHANGED <<txn, tableVars>>

-----------------------------------------------------------------------------
(* refundOrder *)

RefundRead(c, o) ==
  /\ At(c, "idle")
  /\ payment[o].status = "SUCCESS"
  /\ CanTransition(status[o], "REFUNDED")
  /\ Become(c, [pc |-> "refund", order |-> o, ref |-> payment[o].ref, from |-> status[o]])
  /\ UNCHANGED <<providerVars, tableVars>>

\* The provider call comes before any write.
RefundAccepted(c) ==
  /\ At(c, "refund")
  /\ txn[call[c].ref].state = "paid"
  /\ txn' = [txn EXCEPT ![call[c].ref].state = "refunded"]
  /\ Become(c, [call[c] EXCEPT !.pc = "refunded"])
  /\ UNCHANGED <<hooks, tableVars>>

\* The provider may refuse for reasons of its own, and always refuses a second time.
MutRefundRefused(c) ==
  /\ At(c, "refund")
  /\ Become(c, [call[c] EXCEPT !.pc = "refunded"])
  /\ UNCHANGED <<providerVars, tableVars>>

RefundRefused(c) ==
  /\ At(c, "refund")
  /\ Return(c)
  /\ UNCHANGED <<providerVars, tableVars>>

RecordRefund(c) ==
  LET o == call[c].order
  IN
  /\ At(c, "refunded")
  /\ ~Locked(o)
  /\ IF payment[o].status = "SUCCESS" /\ status[o] = call[c].from
     THEN /\ payment' = [payment EXCEPT ![o].status = "REFUNDED"]
          /\ status' = [status EXCEPT ![o] = "REFUNDED"]
          /\ history' = [history EXCEPT ![o] = Append(@, <<call[c].from, "REFUNDED">>)]
     ELSE UNCHANGED <<payment, status, history>>
  /\ Return(c)
  /\ UNCHANGED <<providerVars, deducted, flagged, stock, notices>>

PaymentsStep(c) ==
  \/ StoreCheckout(c) \/ VerifyTransaction(c) \/ RecordUnpaid(c) \/ ClaimPayment(c)
  \/ SettlePayment(c) \/ SettleConflict(c) \/ RefundAccepted(c) \/ RefundRefused(c)
  \/ RecordRefund(c)
=============================================================================
