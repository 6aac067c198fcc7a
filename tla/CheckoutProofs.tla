--------------------------- MODULE CheckoutProofs ---------------------------
(* Theorems about Checkout, for every set of orders, listings, references and
   requests. *)
EXTENDS Checkout, TLAPS

USE ShopAssumption

-----------------------------------------------------------------------------
(* Every step of a request writes one slot of call. *)
LEMMA BecomeType ==
  ASSUME NEW c \in Calls, NEW local \in InFlight \cup {Idle},
         call \in [Calls -> InFlight \cup {Idle}], Become(c, local)
  PROVE  call' \in [Calls -> InFlight \cup {Idle}]
  BY DEF Become

LEMMA ReturnType ==
  ASSUME NEW c \in Calls, call \in [Calls -> InFlight \cup {Idle}], Return(c)
  PROVE  call' \in [Calls -> InFlight \cup {Idle}]
  BY DEF Return, Become

(* What a request that is at a given step carries. *)
LEMMA LocalsTyped ==
  ASSUME NEW c \in Calls, call \in [Calls -> InFlight \cup {Idle}], ~At(c, "idle")
  PROVE  /\ call[c] \in InFlight
         /\ call[c].order \in Orders
         /\ call[c].pc = "update" =>
              /\ call[c].from \in OrderStatuses /\ call[c].target \in OrderStatuses
              /\ call[c].restores \in BOOLEAN /\ call[c].owes \in BOOLEAN
         /\ call[c].pc = "notify" => call[c].target \in OrderStatuses
         /\ call[c].pc \in {"checkout", "verify", "unpaid", "claim", "settle", "refund",
                            "refunded"} => call[c].ref \in Refs
         /\ call[c].pc \in {"verify", "unpaid", "claim", "settle"} => call[c].hook \in BOOLEAN
         /\ call[c].pc = "verify" => call[c].current \in BOOLEAN
         /\ call[c].pc = "unpaid" => call[c].outcome \in {"FAILED", "ABANDONED"}
         /\ call[c].pc = "settle" => call[c].saw \in OrderStatuses
         /\ call[c].pc \in {"checkout", "refund", "refunded"} => call[c].from \in OrderStatuses
  BY DEF InFlight, Idle, At

(* A step adds rows at the end of one order's history. *)
LEMMA HistoryTyped ==
  ASSUME history \in [Orders -> Seq(Rows)], NEW o \in Orders, NEW rows \in Seq(Rows)
  PROVE  [history EXCEPT ![o] = @ \o rows] \in [Orders -> Seq(Rows)]
<1>1. history[o] \in Seq(Rows)
  OBVIOUS
<1>2. history[o] \o rows \in Seq(Rows)
  BY <1>1
<1> QED  BY <1>2

LEMMA RowAppended ==
  ASSUME history \in [Orders -> Seq(Rows)], NEW o \in Orders, NEW row \in Rows
  PROVE  [history EXCEPT ![o] = Append(@, row)] \in [Orders -> Seq(Rows)]
<1>1. history[o] \in Seq(Rows)
  OBVIOUS
<1>2. Append(history[o], row) \in Seq(Rows)
  BY <1>1
<1> QED  BY <1>2

LEMMA TwoRowsAppended ==
  ASSUME history \in [Orders -> Seq(Rows)], NEW o \in Orders,
         NEW row \in Rows, NEW next \in Rows
  PROVE  [history EXCEPT ![o] = Append(Append(@, row), next)] \in [Orders -> Seq(Rows)]
<1>1. history[o] \in Seq(Rows)
  OBVIOUS
<1>2. Append(history[o], row) \in Seq(Rows)
  BY <1>1
<1>3. Append(Append(history[o], row), next) \in Seq(Rows)
  BY <1>2
<1> QED  BY <1>3

(* The path a confirmed payment takes is a sequence of history rows. *)
LEMMA PathTyped ==
  ASSUME NEW from \in OrderStatuses
  PROVE  /\ PathToSupplier(from) \in Seq(Rows)
         /\ PathToSupplier(from)[Len(PathToSupplier(from))][2] =
              IF from = "CANCELLED" THEN "REFUND_PENDING" ELSE "AWAITING_CONFIRMATION"
<1>1. \A f \in OrderStatuses, t \in OrderStatuses : <<f, t>> \in Rows
  BY DEF Rows
<1>2. {"PENDING", "PAYMENT_PENDING", "PAID", "AWAITING_CONFIRMATION", "CANCELLED",
       "REFUND_PENDING"} \subseteq OrderStatuses
  BY DEF OrderStatuses
<1>3. CASE from = "CANCELLED"
  <2>1. PathToSupplier(from) = <<<<"CANCELLED", "REFUND_PENDING">>>>
    BY <1>3 DEF PathToSupplier
  <2>2. <<"CANCELLED", "REFUND_PENDING">> \in Rows
    BY <1>1, <1>2
  <2>3. PathToSupplier(from) \in Seq(Rows)
    BY <2>1, <2>2
  <2>4. PathToSupplier(from)[Len(PathToSupplier(from))] = <<"CANCELLED", "REFUND_PENDING">>
    BY <2>1
  <2> QED  BY <1>3, <2>3, <2>4
<1>4. CASE from = "PENDING"
  <2> DEFINE r1 == <<"PENDING", "PAYMENT_PENDING">>
             r2 == <<"PAYMENT_PENDING", "PAID">>
             r3 == <<"PAID", "AWAITING_CONFIRMATION">>
  <2>1. PathToSupplier(from) = <<r1, r2, r3>>
    BY <1>4 DEF PathToSupplier
  <2>2. r1 \in Rows /\ r2 \in Rows /\ r3 \in Rows
    BY <1>1, <1>2
  <2>3. r3[2] = "AWAITING_CONFIRMATION"
    OBVIOUS
  <2> HIDE DEF r1, r2, r3
  <2>4. PathToSupplier(from) \in Seq(Rows)
    BY <2>1, <2>2
  <2>5. PathToSupplier(from)[Len(PathToSupplier(from))] = r3
    BY <2>1
  <2> QED  BY <1>4, <2>3, <2>4, <2>5
<1>5. CASE from \notin {"CANCELLED", "PENDING"}
  <2> DEFINE r1 == <<from, "PAID">>
             r2 == <<"PAID", "AWAITING_CONFIRMATION">>
  <2>1. PathToSupplier(from) = <<r1, r2>>
    BY <1>5 DEF PathToSupplier
  <2>2. r1 \in Rows /\ r2 \in Rows
    BY <1>1, <1>2
  <2>3. r2[2] = "AWAITING_CONFIRMATION"
    OBVIOUS
  <2> HIDE DEF r1, r2
  <2>4. PathToSupplier(from) \in Seq(Rows)
    BY <2>1, <2>2
  <2>5. PathToSupplier(from)[Len(PathToSupplier(from))] = r2
    BY <2>1
  <2> QED  BY <1>5, <2>3, <2>4, <2>5
<1> QED  BY <1>3, <1>4, <1>5

LEMMA TxnTyped ==
  ASSUME txn \in [Refs -> Txns], NEW r \in Refs, NEW s \in TxnStates
  PROVE  [txn EXCEPT ![r].state = s] \in [Refs -> Txns]
<1>1. txn[r] \in Txns
  OBVIOUS
<1>2. [txn[r] EXCEPT !.state = s] \in Txns
  BY <1>1 DEF Txns
<1> QED  BY <1>2

LEMMA PaymentTyped ==
  ASSUME payment \in [Orders -> Payments], NEW o \in Orders, NEW s \in PaymentStatuses
  PROVE  [payment EXCEPT ![o].status = s] \in [Orders -> Payments]
<1>1. payment[o] \in Payments
  OBVIOUS
<1>2. [payment[o] EXCEPT !.status = s] \in Payments
  BY <1>1 DEF Payments
<1> QED  BY <1>2

LEMMA StockAfterSaleTyped ==
  ASSUME NEW o \in Orders, stock \in [Listings -> Nat]
  PROVE  StockAfterSale(o) \in [Listings -> Nat]
  BY DEF StockAfterSale, Fits, DrawsDown

-----------------------------------------------------------------------------
(* Type correctness: litres in stock stay natural numbers (nothing is oversold),
   every row and every local stays in its domain. *)
LEMMA InitTyped == ASSUME Init PROVE TypeOK
<1>1. PaystackTypeOK
  BY DEF Init, PaystackInit, PaystackTypeOK, Txns, TxnStates
<1>2. TablesTypeOK
  BY DEF Init, TablesInit, TablesTypeOK, OrderStatuses, Rows, Payments, PaymentStatuses
<1> QED  BY <1>1, <1>2 DEF TypeOK

LEMMA OrdersTyped ==
  ASSUME TypeOK, NEW c \in Calls, UNCHANGED providerVars,
         \/ \E o \in Orders, t \in OrderStatuses, a \in OrderActors : UpdateRead(c, o, t, a)
         \/ OrdersStep(c)
  PROVE  TypeOK'
<1> USE DEF TypeOK, PaystackTypeOK, TablesTypeOK, providerVars, tableVars
<1>1. ASSUME NEW o \in Orders, NEW t \in OrderStatuses, NEW a \in OrderActors,
             UpdateRead(c, o, t, a)
      PROVE  TypeOK'
  <2>1. [pc |-> "update", order |-> o, from |-> status[o], target |-> t,
         restores |-> RestoresStock(o, t), owes |-> OwesRefund(o, t)] \in InFlight
    BY DEF InFlight, RestoresStock, OwesRefund
  <2> QED  BY <1>1, <2>1, BecomeType DEF UpdateRead
<1>2. CASE UpdateApply(c)
  <2>1. /\ call[c].order \in Orders /\ call[c].target \in OrderStatuses
        /\ call[c].from \in OrderStatuses
    BY <1>2, LocalsTyped DEF UpdateApply, At
  <2>2. status' \in [Orders -> OrderStatuses]
    BY <1>2, <2>1 DEF UpdateApply, OrderStatuses
  <2>h. history \in [Orders -> Seq(Rows)]
    OBVIOUS
  <2>3. history' \in [Orders -> Seq(Rows)]
    <3>1. /\ <<call[c].from, call[c].target>> \in Rows
          /\ <<"REJECTED", "REFUND_PENDING">> \in Rows
      BY <2>1 DEF Rows, OrderStatuses
    <3>2. CASE call[c].owes
      <4>1. history' = [history EXCEPT ![call[c].order] =
                          Append(Append(@, <<call[c].from, call[c].target>>),
                                 <<"REJECTED", "REFUND_PENDING">>)]
        BY <1>2, <3>2 DEF UpdateApply
      <4> HIDE DEF TypeOK
      <4> QED  BY <2>1, <2>h, <3>1, <4>1, TwoRowsAppended
    <3>3. CASE ~call[c].owes
      <4>1. history' = [history EXCEPT ![call[c].order] =
                          Append(@, <<call[c].from, call[c].target>>)]
        BY <1>2, <3>3 DEF UpdateApply
      <4> HIDE DEF TypeOK
      <4> QED  BY <2>1, <2>h, <3>1, <4>1, RowAppended
    <3> QED  BY <3>2, <3>3
  <2>4. deducted' \in [Orders -> BOOLEAN] /\ stock' \in [Listings -> Nat]
    <3>1. Qty[call[c].order] \in [Listings -> Nat]
      BY <2>1 DEF ShopAssumption
    <3>2. CASE call[c].restores
      <4>1. /\ deducted' = [deducted EXCEPT ![call[c].order] = FALSE]
            /\ stock' = [l \in Listings |-> stock[l] + Qty[call[c].order][l]]
        BY <1>2, <3>2 DEF UpdateApply
      <4>2. stock \in [Listings -> Nat] /\ deducted \in [Orders -> BOOLEAN]
        OBVIOUS
      <4> HIDE DEF TypeOK
      <4>3. \A l \in Listings : stock[l] + Qty[call[c].order][l] \in Nat
        BY <3>1, <4>2
      <4> QED  BY <4>1, <4>2, <4>3
    <3>3. CASE ~call[c].restores
      BY <1>2, <3>3 DEF UpdateApply
    <3> QED  BY <3>2, <3>3
  <2>5. call' \in [Calls -> InFlight \cup {Idle}]
    <3>1. [pc |-> "notify", order |-> call[c].order, target |-> call[c].target] \in InFlight
      BY <2>1 DEF InFlight
    <3> QED  BY <1>2, <3>1, BecomeType, ReturnType DEF UpdateApply
  <2> QED  BY <1>2, <2>2, <2>3, <2>4, <2>5 DEF UpdateApply
<1>3. CASE UpdateConflict(c)
  BY <1>3, ReturnType DEF UpdateConflict, AfterConflict
<1>4. CASE Notify(c)
  <2>1. call[c].order \in Orders /\ call[c].target \in OrderStatuses
    BY <1>4, LocalsTyped DEF Notify, At
  <2>2. Recipient(call[c].target) \subseteq OrderActors
    BY <2>1 DEF Recipient, OrderActors
  <2>3. notices' \subseteq Notices
    BY <1>4, <2>1, <2>2 DEF Notify, Notices
  <2> QED  BY <1>4, <2>3, ReturnType DEF Notify
<1> QED  BY <1>1, <1>2, <1>3, <1>4 DEF OrdersStep

LEMMA CheckoutTyped ==
  ASSUME TypeOK, NEW c \in Calls,
         (\E o \in Orders, r \in Refs : InitializePayment(c, o, r)) \/ StoreCheckout(c)
  PROVE  TypeOK'
<1> USE DEF TypeOK, PaystackTypeOK, TablesTypeOK, providerVars, tableVars
<1>1. ASSUME NEW o \in Orders, NEW r \in Refs, InitializePayment(c, o, r)
      PROVE  TypeOK'
  <2>1. [pc |-> "checkout", order |-> o, from |-> status[o], ref |-> r] \in InFlight
    BY DEF InFlight
  <2>2. txn' \in [Refs -> Txns]
    BY <1>1 DEF InitializePayment, Txns, TxnStates
  <2> QED  BY <1>1, <2>1, <2>2, BecomeType DEF InitializePayment
<1>2. CASE StoreCheckout(c)
  <2>1. call[c].order \in Orders /\ call[c].ref \in Refs
    BY <1>2, LocalsTyped DEF StoreCheckout, At
  <2>2. payment' \in [Orders -> Payments]
    BY <1>2, <2>1 DEF StoreCheckout, Payments, PaymentStatuses
  <2>3. txn' \in [Refs -> Txns]
    BY <1>2, <2>1, TxnTyped DEF StoreCheckout, TxnStates
  <2>4. status' \in [Orders -> OrderStatuses]
    BY <1>2, <2>1 DEF StoreCheckout, OrderStatuses
  <2>5. history' \in [Orders -> Seq(Rows)]
    <3>1. <<"PENDING", "PAYMENT_PENDING">> \in Rows
      BY DEF Rows, OrderStatuses
    <3>2. history \in [Orders -> Seq(Rows)]
      OBVIOUS
    <3>3. history' = history \/
          history' = [history EXCEPT ![call[c].order] =
                        Append(@, <<"PENDING", "PAYMENT_PENDING">>)]
      BY <1>2 DEF StoreCheckout
    <3> HIDE DEF TypeOK
    <3>4. [history EXCEPT ![call[c].order] = Append(@, <<"PENDING", "PAYMENT_PENDING">>)]
            \in [Orders -> Seq(Rows)]
      BY <2>1, <3>1, <3>2, RowAppended
    <3> QED  BY <3>2, <3>3, <3>4
  <2> QED  BY <1>2, <2>2, <2>3, <2>4, <2>5, ReturnType DEF StoreCheckout
<1> QED  BY <1>1, <1>2

LEMMA ConfirmTyped ==
  ASSUME TypeOK, NEW c \in Calls,
         \/ \E r \in Refs, hook \in BOOLEAN : LookupPayment(c, r, hook)
         \/ VerifyTransaction(c) \/ RecordUnpaid(c) \/ ClaimPayment(c)
  PROVE  TypeOK'
<1> USE DEF TypeOK, PaystackTypeOK, TablesTypeOK, providerVars, tableVars
<1>1. ASSUME NEW r \in Refs, NEW hook \in BOOLEAN, LookupPayment(c, r, hook)
      PROVE  TypeOK'
  <2>1. txn[r].order \in Orders
    BY DEF Txns
  <2>2. (payment[txn[r].order].ref = r) \in BOOLEAN
    OBVIOUS
  <2>3. [pc |-> "verify", order |-> txn[r].order, ref |-> r,
         current |-> payment[txn[r].order].ref = r, hook |-> hook] \in InFlight
    BY <2>1, <2>2 DEF InFlight
  <2>4. call' \in [Calls -> InFlight \cup {Idle}]
    BY <1>1, <2>3, BecomeType DEF LookupPayment
  <2>5. hooks' \subseteq Refs
    BY <1>1 DEF LookupPayment
  <2> QED  BY <1>1, <2>4, <2>5 DEF LookupPayment
<1>2. CASE VerifyTransaction(c)
  <2>1. /\ call[c].order \in Orders /\ call[c].ref \in Refs /\ call[c].hook \in BOOLEAN
    BY <1>2, LocalsTyped DEF VerifyTransaction, At
  <2>2. /\ \A out \in {"FAILED", "ABANDONED"} :
             [pc |-> "unpaid", order |-> call[c].order, ref |-> call[c].ref,
              hook |-> call[c].hook, outcome |-> out] \in InFlight
        /\ [pc |-> "claim", order |-> call[c].order, ref |-> call[c].ref,
            hook |-> call[c].hook] \in InFlight
    BY <2>1 DEF InFlight
  <2>3. call' \in [Calls -> InFlight \cup {Idle}]
    BY <1>2, <2>2, BecomeType, ReturnType DEF VerifyTransaction, Rollback
  <2>4. hooks' \subseteq Refs
    BY <1>2 DEF VerifyTransaction, Acknowledge, Rollback
  <2> QED  BY <1>2, <2>3, <2>4 DEF VerifyTransaction
<1>3. CASE RecordUnpaid(c)
  <2>1. call[c].order \in Orders /\ call[c].outcome \in {"FAILED", "ABANDONED"}
    BY <1>3, LocalsTyped DEF RecordUnpaid, At
  <2>2. payment' \in [Orders -> Payments]
    <3>1. \/ payment' = payment
          \/ payment' = [payment EXCEPT ![call[c].order].status = call[c].outcome]
      BY <1>3 DEF RecordUnpaid
    <3>2. payment \in [Orders -> Payments] /\ call[c].outcome \in PaymentStatuses
      BY <2>1 DEF PaymentStatuses
    <3> HIDE DEF TypeOK
    <3>3. [payment EXCEPT ![call[c].order].status = call[c].outcome] \in [Orders -> Payments]
      BY <2>1, <3>2, PaymentTyped
    <3> QED  BY <3>1, <3>2, <3>3
  <2>3. hooks' \subseteq Refs
    BY <1>3 DEF RecordUnpaid, Acknowledge
  <2> QED  BY <1>3, <2>2, <2>3, ReturnType DEF RecordUnpaid
<1>4. CASE ClaimPayment(c)
  <2>1. /\ call[c].order \in Orders /\ call[c].ref \in Refs /\ call[c].hook \in BOOLEAN
    BY <1>4, LocalsTyped DEF ClaimPayment, At
  <2>2. [pc |-> "settle", order |-> call[c].order, ref |-> call[c].ref,
         hook |-> call[c].hook, saw |-> status[call[c].order]] \in InFlight
    BY <2>1 DEF InFlight
  <2>3. call' \in [Calls -> InFlight \cup {Idle}]
    BY <1>4, <2>2, BecomeType, ReturnType DEF ClaimPayment
  <2>4. hooks' \subseteq Refs
    BY <1>4 DEF ClaimPayment, Acknowledge
  <2> QED  BY <1>4, <2>3, <2>4 DEF ClaimPayment
<1> QED  BY <1>1, <1>2, <1>3, <1>4

LEMMA SettleTyped ==
  ASSUME TypeOK, NEW c \in Calls, SettlePayment(c) \/ SettleConflict(c)
  PROVE  TypeOK'
<1> USE DEF TypeOK, PaystackTypeOK, TablesTypeOK, providerVars, tableVars
<1>1. CASE SettlePayment(c)
  <2>1. /\ call[c].order \in Orders /\ call[c].ref \in Refs
        /\ call[c].saw \in OrderStatuses
    BY <1>1, LocalsTyped DEF SettlePayment, At
  <2>2. payment' \in [Orders -> Payments]
    BY <1>1, <2>1 DEF SettlePayment, PaidThrough, Payments, PaymentStatuses
  <2>3. hooks' \subseteq Refs
    BY <1>1 DEF SettlePayment, Acknowledge
  <2>4. flagged' \in [Orders -> BOOLEAN]
    BY <1>1 DEF SettlePayment
  <2>5. /\ status' \in [Orders -> OrderStatuses] /\ history' \in [Orders -> Seq(Rows)]
        /\ deducted' \in [Orders -> BOOLEAN] /\ stock' \in [Listings -> Nat]
    <3>1. CASE UNCHANGED <<status, history, deducted, stock>>
      BY <3>1
    <3>2. CASE CarryOrderOn(call[c].order, call[c].saw)
      <4> DEFINE path == PathToSupplier(call[c].saw)
      <4>1. /\ status' = [status EXCEPT ![call[c].order] = path[Len(path)][2]]
            /\ history' = [history EXCEPT ![call[c].order] = @ \o path]
        BY <3>2 DEF CarryOrderOn
      <4>2. path \in Seq(Rows) /\ path[Len(path)][2] \in OrderStatuses
        BY <2>1, PathTyped DEF OrderStatuses
      <4>3. history \in [Orders -> Seq(Rows)] /\ status \in [Orders -> OrderStatuses]
        OBVIOUS
      <4> HIDE DEF path
      <4>4. history' \in [Orders -> Seq(Rows)]
        BY <2>1, <4>1, <4>2, <4>3, HistoryTyped
      <4>5. status' \in [Orders -> OrderStatuses]
        BY <4>1, <4>2, <4>3
      <4>6. \/ UNCHANGED <<deducted, stock>>
            \/ /\ stock' = StockAfterSale(call[c].order)
               /\ deducted' = [deducted EXCEPT ![call[c].order] = ~FellShort(call[c].order)]
        BY <3>2 DEF CarryOrderOn
      <4>7. stock' \in [Listings -> Nat]
        BY <2>1, <4>6, StockAfterSaleTyped
      <4>8. deducted \in [Orders -> BOOLEAN] /\ (~FellShort(call[c].order)) \in BOOLEAN
        BY DEF FellShort
      <4> HIDE DEF TypeOK
      <4>9. deducted' \in [Orders -> BOOLEAN]
        BY <4>6, <4>8
      <4> QED  BY <4>4, <4>5, <4>7, <4>9
    <3> QED  BY <1>1, <3>1, <3>2 DEF SettlePayment
  <2> QED  BY <1>1, <2>2, <2>3, <2>4, <2>5, ReturnType DEF SettlePayment
<1>2. CASE SettleConflict(c)
  BY <1>2, ReturnType DEF SettleConflict, Rollback
<1> QED  BY <1>1, <1>2

(* A payment that exists names a reference; without it a refund would be asked for
   no transaction at all, so type correctness is inductive only together with it. *)
PaymentNamed == \A o \in Orders : payment[o].status # "NONE" => payment[o].ref \in Refs

LEMMA RefundTyped ==
  ASSUME TypeOK, PaymentNamed, NEW c \in Calls,
         \/ \E o \in Orders : RefundRead(c, o)
         \/ RefundAccepted(c) \/ RefundRefused(c) \/ RecordRefund(c)
  PROVE  TypeOK'
<1> USE DEF TypeOK, PaystackTypeOK, TablesTypeOK, providerVars, tableVars
<1>1. ASSUME NEW o \in Orders, RefundRead(c, o)
      PROVE  TypeOK'
  <2>1. payment[o].ref \in Refs
    BY <1>1 DEF RefundRead, PaymentNamed
  <2>2. [pc |-> "refund", order |-> o, ref |-> payment[o].ref, from |-> status[o]]
          \in InFlight
    BY <2>1 DEF InFlight
  <2> QED  BY <1>1, <2>2, BecomeType DEF RefundRead
<1>2. CASE RefundAccepted(c)
  <2>1. /\ call[c].order \in Orders /\ call[c].ref \in Refs
        /\ call[c].from \in OrderStatuses
        /\ call[c] = [pc |-> "refund", order |-> call[c].order, ref |-> call[c].ref,
                      from |-> call[c].from]
    BY <1>2 DEF RefundAccepted, At, InFlight, Idle
  <2> DEFINE Asking == [pc : {"refund", "refunded"}, order : Orders, ref : Refs,
                        from : OrderStatuses]
  <2>2. call[c] \in Asking
    BY <2>1
  <2> HIDE DEF TypeOK
  <2>3. [call[c] EXCEPT !.pc = "refunded"] \in Asking
    BY <2>2
  <2>6. [call[c] EXCEPT !.pc = "refunded"] \in InFlight
    BY <2>3 DEF InFlight
  <2> USE DEF TypeOK
  <2>4. call' \in [Calls -> InFlight \cup {Idle}]
    BY <1>2, <2>6, BecomeType DEF RefundAccepted
  <2>5. txn' \in [Refs -> Txns]
    <3>1. txn' = [txn EXCEPT ![call[c].ref].state = "refunded"]
      BY <1>2 DEF RefundAccepted
    <3>2. txn \in [Refs -> Txns] /\ "refunded" \in TxnStates
      BY DEF TxnStates
    <3> HIDE DEF TypeOK
    <3>3. [txn EXCEPT ![call[c].ref].state = "refunded"] \in [Refs -> Txns]
      BY <2>1, <3>2, TxnTyped
    <3> QED  BY <3>1, <3>2, <3>3
  <2> QED  BY <1>2, <2>4, <2>5 DEF RefundAccepted
<1>3. CASE RecordRefund(c)
  <2>1. call[c].order \in Orders /\ call[c].from \in OrderStatuses
    BY <1>3, LocalsTyped DEF RecordRefund, At
  <2>2. payment' \in [Orders -> Payments] /\ status' \in [Orders -> OrderStatuses]
    <3>1. \/ UNCHANGED <<payment, status>>
          \/ /\ payment' = [payment EXCEPT ![call[c].order].status = "REFUNDED"]
             /\ status' = [status EXCEPT ![call[c].order] = "REFUNDED"]
      BY <1>3 DEF RecordRefund
    <3>2. /\ payment \in [Orders -> Payments] /\ "REFUNDED" \in PaymentStatuses
          /\ status \in [Orders -> OrderStatuses] /\ "REFUNDED" \in OrderStatuses
      BY DEF PaymentStatuses, OrderStatuses
    <3> HIDE DEF TypeOK
    <3>3. [payment EXCEPT ![call[c].order].status = "REFUNDED"] \in [Orders -> Payments]
      BY <2>1, <3>2, PaymentTyped
    <3> QED  BY <3>1, <3>2, <3>3
  <2>3. history' \in [Orders -> Seq(Rows)]
    <3>1. <<call[c].from, "REFUNDED">> \in Rows
      BY <2>1 DEF Rows, OrderStatuses
    <3>2. history \in [Orders -> Seq(Rows)]
      OBVIOUS
    <3>3. history' = history \/
          history' = [history EXCEPT ![call[c].order] = Append(@, <<call[c].from, "REFUNDED">>)]
      BY <1>3 DEF RecordRefund
    <3> HIDE DEF TypeOK
    <3>4. [history EXCEPT ![call[c].order] = Append(@, <<call[c].from, "REFUNDED">>)]
            \in [Orders -> Seq(Rows)]
      BY <2>1, <3>1, <3>2, RowAppended
    <3> QED  BY <3>2, <3>3, <3>4
  <2> QED  BY <1>3, <2>2, <2>3, ReturnType DEF RecordRefund
<1>4. CASE RefundRefused(c)
  BY <1>4, ReturnType DEF RefundRefused
<1> QED  BY <1>1, <1>2, <1>3, <1>4

LEMMA OutsideTyped ==
  ASSUME TypeOK,
         \/ \E c \in Calls : Abandon(c) /\ UNCHANGED providerVars
         \/ \E r \in Refs : Buyer(r)
  PROVE  TypeOK'
<1> USE DEF TypeOK, PaystackTypeOK, TablesTypeOK, providerVars, tableVars
<1>1. ASSUME NEW c \in Calls, Abandon(c), UNCHANGED providerVars
      PROVE  TypeOK'
  BY <1>1, ReturnType DEF Abandon
<1>2. ASSUME NEW r \in Refs, Buyer(r)
      PROVE  TypeOK'
  <2>1. \E s \in TxnStates : txn' = [txn EXCEPT ![r].state = s]
    BY <1>2 DEF Buyer, Pay, PayShort, Decline, Charge, TxnStates
  <2>2. txn' \in [Refs -> Txns]
    BY <2>1, TxnTyped
  <2>3. hooks' \subseteq Refs
    BY <1>2 DEF Buyer, Pay, PayShort, Decline, Charge
  <2> QED  BY <1>2, <2>2, <2>3 DEF Buyer
<1> QED  BY <1>1, <1>2

LEMMA TypePreserved ==
  ASSUME TypeOK, PaymentNamed, [Next]_vars
  PROVE  TypeOK'
<1>1. CASE UNCHANGED vars
  BY <1>1 DEF TypeOK, PaystackTypeOK, TablesTypeOK, vars, providerVars, tableVars
<1>2. ASSUME NEW c \in Calls,
             Request(c) \/ (\E r \in Refs : Webhook(c, r)) \/ Handle(c)
      PROVE  TypeOK'
  BY <1>2, OrdersTyped, CheckoutTyped, ConfirmTyped, SettleTyped, RefundTyped
     DEF Request, Webhook, Handle, PaymentsStep
<1> QED  BY <1>1, <1>2, OutsideTyped DEF Next

(* Which steps write a payment at all, and which write an order,
   its history or its stock flag. *)
LEMMA WhoWritesPayments ==
  ASSUME [Next]_vars
  PROVE  \/ UNCHANGED payment
         \/ \E c \in Calls : \/ StoreCheckout(c) \/ RecordUnpaid(c)
                            \/ SettlePayment(c) \/ RecordRefund(c)
<1>1. ASSUME NEW c \in Calls, Request(c) \/ (\E r \in Refs : Webhook(c, r))
      PROVE  UNCHANGED payment
  BY <1>1 DEF Request, Webhook, UpdateRead, InitializePayment, LookupPayment, RefundRead,
              tableVars
<1>2. ASSUME NEW c \in Calls,
             \/ OrdersStep(c) \/ VerifyTransaction(c) \/ ClaimPayment(c)
             \/ SettleConflict(c) \/ RefundAccepted(c) \/ RefundRefused(c)
      PROVE  UNCHANGED payment
  BY <1>2 DEF OrdersStep, UpdateApply, UpdateConflict, AfterConflict, Notify, VerifyTransaction,
              ClaimPayment, SettleConflict, RefundAccepted, RefundRefused, tableVars
<1>3. ASSUME NEW c \in Calls, Abandon(c)
      PROVE  UNCHANGED payment
  BY <1>3 DEF Abandon, tableVars
<1>4. ASSUME NEW r \in Refs, Buyer(r)
      PROVE  UNCHANGED payment
  BY <1>4 DEF Buyer, tableVars
<1>5. UNCHANGED vars => UNCHANGED payment
  BY DEF vars, tableVars
<1> QED  BY <1>1, <1>2, <1>3, <1>4, <1>5 DEF Next, Handle, PaymentsStep

LEMMA WhoMovesOrders ==
  ASSUME [Next]_vars
  PROVE  \/ UNCHANGED <<status, deducted, history>>
         \/ \E c \in Calls : \/ UpdateApply(c) /\ UNCHANGED providerVars
                            \/ StoreCheckout(c) \/ SettlePayment(c) \/ RecordRefund(c)
<1>1. ASSUME NEW c \in Calls, Request(c) \/ (\E r \in Refs : Webhook(c, r))
      PROVE  UNCHANGED <<status, deducted, history>>
  BY <1>1 DEF Request, Webhook, UpdateRead, InitializePayment, LookupPayment, RefundRead,
              tableVars
<1>2. ASSUME NEW c \in Calls,
             \/ UpdateConflict(c) \/ Notify(c) \/ VerifyTransaction(c) \/ RecordUnpaid(c)
             \/ ClaimPayment(c) \/ SettleConflict(c) \/ RefundAccepted(c) \/ RefundRefused(c)
      PROVE  UNCHANGED <<status, deducted, history>>
  BY <1>2 DEF UpdateConflict, AfterConflict, Notify, VerifyTransaction, RecordUnpaid,
              ClaimPayment, SettleConflict, RefundAccepted, RefundRefused, tableVars
<1>3. ASSUME NEW c \in Calls, Abandon(c)
      PROVE  UNCHANGED <<status, deducted, history>>
  BY <1>3 DEF Abandon, tableVars
<1>4. ASSUME NEW r \in Refs, Buyer(r)
      PROVE  UNCHANGED <<status, deducted, history>>
  BY <1>4 DEF Buyer, tableVars
<1>5. UNCHANGED vars => UNCHANGED <<status, deducted, history>>
  BY DEF vars, tableVars
<1> QED  BY <1>1, <1>2, <1>3, <1>4, <1>5 DEF Next, Handle, PaymentsStep, OrdersStep

(* Only four steps write a payment, and each leaves it naming a reference. *)
LEMMA NamedPreserved ==
  ASSUME TypeOK, PaymentNamed, [Next]_vars
  PROVE  PaymentNamed'
<1> USE DEF TypeOK, TablesTypeOK
<1>1. CASE UNCHANGED payment
  BY <1>1 DEF PaymentNamed
<1>2. ASSUME NEW c \in Calls, StoreCheckout(c) \/ SettlePayment(c)
      PROVE  PaymentNamed'
  <2>1. call[c].order \in Orders /\ call[c].ref \in Refs
    BY <1>2, LocalsTyped DEF StoreCheckout, SettlePayment, At
  <2>2. \E s \in PaymentStatuses :
          payment' = [payment EXCEPT ![call[c].order] = [status |-> s, ref |-> call[c].ref]]
    BY <1>2 DEF StoreCheckout, SettlePayment, PaidThrough, PaymentStatuses
  <2> QED  BY <2>1, <2>2 DEF PaymentNamed
<1>3. ASSUME NEW c \in Calls, RecordUnpaid(c) \/ RecordRefund(c)
      PROVE  PaymentNamed'
  <2>1. /\ call[c].order \in Orders
        /\ call[c].pc = "unpaid" => call[c].ref \in Refs
    BY <1>3, LocalsTyped DEF RecordUnpaid, RecordRefund, At
  <2>2. \/ UNCHANGED payment
        \/ /\ payment[call[c].order].ref \in Refs
           /\ \E s \in PaymentStatuses :
                payment' = [payment EXCEPT ![call[c].order].status = s]
    <3>1. CASE RecordUnpaid(c)
      <4>1. call[c].outcome \in PaymentStatuses
        BY <3>1, LocalsTyped DEF RecordUnpaid, At, PaymentStatuses
      <4> QED  BY <2>1, <3>1, <4>1 DEF RecordUnpaid, MayRecordUnpaid, At
    <3>2. CASE RecordRefund(c)
      BY <2>1, <3>2 DEF RecordRefund, PaymentNamed, PaymentStatuses
    <3> QED  BY <1>3, <3>1, <3>2
  <2>3. ASSUME NEW s \in PaymentStatuses,
               payment[call[c].order].ref \in Refs,
               payment' = [payment EXCEPT ![call[c].order].status = s]
        PROVE  PaymentNamed'
    <3>1. /\ payment'[call[c].order] = [payment[call[c].order] EXCEPT !.status = s]
          /\ payment[call[c].order] \in Payments
      BY <2>1, <2>3
    <3>2. payment'[call[c].order].ref = payment[call[c].order].ref
      BY <3>1 DEF Payments
    <3>3. \A o \in Orders : o # call[c].order => payment'[o] = payment[o]
      BY <2>1, <2>3
    <3> QED  BY <2>3, <3>2, <3>3 DEF PaymentNamed
  <2> QED  BY <1>1, <2>2, <2>3
<1> QED  BY <1>1, <1>2, <1>3, WhoWritesPayments

(* Stock is never oversold and every table keeps its shape, whatever the orders,
   the links and the number of requests at once. *)
THEOREM TypeCorrect == Spec => []TypeOK
<1>1. Init => TypeOK /\ PaymentNamed
  <2>1. Init => PaymentNamed
    BY DEF Init, TablesInit, PaymentNamed
  <2> QED  BY <2>1, InitTyped
<1>2. TypeOK /\ PaymentNamed /\ [Next]_vars => (TypeOK /\ PaymentNamed)'
  BY TypePreserved, NamedPreserved
<1> QED  BY <1>1, <1>2, PTL DEF Spec

-----------------------------------------------------------------------------
(* What happens to money: MoneyInv is inductive. The proof goes through two
   summaries, of what any step may do to orders and of what it may do to
   transactions; they are all that a request in flight needs to know about the
   others. *)

\* where one step may take an order
Jumps ==
  { <<"PENDING", "PAYMENT_PENDING">>,            <<"PENDING", "CANCELLED">>,
    <<"PAYMENT_PENDING", "CANCELLED">>,          <<"PENDING", "AWAITING_CONFIRMATION">>,
    <<"PAYMENT_PENDING", "AWAITING_CONFIRMATION">>,
    <<"CANCELLED", "REFUND_PENDING">>,           <<"AWAITING_CONFIRMATION", "CONFIRMED">>,
    <<"AWAITING_CONFIRMATION", "REJECTED">>,     <<"AWAITING_CONFIRMATION", "REFUND_PENDING">>,
    <<"CONFIRMED", "PREPARING">>,                <<"PREPARING", "OUT_FOR_DELIVERY">>,
    <<"OUT_FOR_DELIVERY", "DELIVERED">>,         <<"REFUND_PENDING", "REFUNDED">> }

\* one order moves, and its stock flag with it
Moved(o, s, b) ==
  /\ status' = [status EXCEPT ![o] = s]
  /\ deducted' = [deducted EXCEPT ![o] = b]
  /\ <<status[o], s>> \in Jumps
  /\ b => s \in Fulfilling

OrderMove ==
  \/ UNCHANGED <<status, deducted>>
  \/ \E o \in Orders, s \in OrderStatuses, b \in BOOLEAN : Moved(o, s, b)

\* where one step may take a transaction
TxnJumps ==
  { <<"unused", "created">>, <<"created", "open">>, <<"open", "paid">>, <<"open", "short">>,
    <<"open", "failed">>, <<"failed", "paid">>, <<"failed", "short">>, <<"paid", "refunded">> }

TxnMoved(r, t) ==
  /\ txn' = [txn EXCEPT ![r] = t]
  /\ <<txn[r].state, t.state>> \in TxnJumps
  /\ txn[r].state # "unused" => t.order = txn[r].order

TxnMove == UNCHANGED txn \/ \E r \in Refs, t \in Txns : TxnMoved(r, t)

MoneyState == TypeOK /\ MoneyInv

-----------------------------------------------------------------------------
LEMMA UpdateMoves ==
  ASSUME MoneyState, NEW c \in Calls, UpdateApply(c)
  PROVE  OrderMove
<1> DEFINE o == call[c].order
           t == call[c].target
<1>1. /\ At(c, "update") /\ StillThere(o, call[c].from)
      /\ o \in Orders /\ t \in OrderStatuses /\ call[c].from \in OrderStatuses
      /\ call[c].restores \in BOOLEAN /\ call[c].owes \in BOOLEAN
  BY LocalsTyped DEF UpdateApply, At, MoneyState, TypeOK, TablesTypeOK
<1>2. /\ CanTransition(status[o], t) /\ AllowedActors(status[o], t) # {}
      /\ call[c].owes \/ call[c].restores => t = "REJECTED"
      /\ t = "REJECTED" => call[c].restores = deducted[o]
  BY <1>1 DEF MoneyState, MoneyInv, LocalsGood, StillThere, At
<1>3. /\ <<status[o], t>> \in Jumps
      /\ t = "REJECTED" => status[o] = "AWAITING_CONFIRMATION"
  BY <1>2 DEF CanTransition, Transitions, AllowedActors, TransitionActors, OrderActors, Jumps
<1>4. /\ status \in [Orders -> OrderStatuses] /\ deducted \in [Orders -> BOOLEAN]
      /\ deducted[o] => status[o] \in Fulfilling
  BY <1>1 DEF MoneyState, TypeOK, TablesTypeOK, MoneyInv, StockHeldOnlyWhileSold
<1>5. CASE t = "REJECTED"
  <2>1. deducted' = [deducted EXCEPT ![o] = FALSE]
    BY <1>1, <1>2, <1>4, <1>5 DEF UpdateApply
  <2>2. \E s \in {"REJECTED", "REFUND_PENDING"} : status' = [status EXCEPT ![o] = s]
    BY <1>5 DEF UpdateApply
  <2>3. \A s \in {"REJECTED", "REFUND_PENDING"} :
          s \in OrderStatuses /\ <<status[o], s>> \in Jumps
    BY <1>3, <1>5 DEF Jumps, OrderStatuses
  <2> QED  BY <1>1, <2>1, <2>2, <2>3 DEF OrderMove, Moved
<1>6. CASE t # "REJECTED"
  <2>1. status' = [status EXCEPT ![o] = t] /\ deducted' = [deducted EXCEPT ![o] = deducted[o]]
    BY <1>1, <1>2, <1>4, <1>6 DEF UpdateApply
  <2>2. deducted[o] => t \in Fulfilling
    BY <1>2, <1>4, <1>6 DEF Fulfilling, CanTransition, Transitions
  <2>3. deducted[o] \in BOOLEAN
    BY <1>1, <1>4
  <2> QED  BY <1>1, <1>3, <2>1, <2>2, <2>3 DEF OrderMove, Moved
<1> QED  BY <1>5, <1>6

LEMMA CheckoutMoves ==
  ASSUME MoneyState, NEW c \in Calls, StoreCheckout(c)
  PROVE  OrderMove
<1>1. call[c].order \in Orders
  BY LocalsTyped DEF StoreCheckout, At, MoneyState, TypeOK, TablesTypeOK
<1>2. /\ deducted \in [Orders -> BOOLEAN] /\ UNCHANGED deducted
      /\ deducted[call[c].order] => status[call[c].order] \in Fulfilling
  BY <1>1 DEF MoneyState, TypeOK, TablesTypeOK, MoneyInv, StockHeldOnlyWhileSold, StoreCheckout
<1>3. CASE MovesToPayment(call[c].order, call[c].from)
  <2>1. /\ status' = [status EXCEPT ![call[c].order] = "PAYMENT_PENDING"]
        /\ status[call[c].order] = "PENDING"
    BY <1>3 DEF StoreCheckout, MovesToPayment
  <2>2. ~deducted[call[c].order]
    BY <1>2, <2>1 DEF Fulfilling
  <2>3. deducted' = [deducted EXCEPT ![call[c].order] = FALSE]
    BY <1>1, <1>2, <2>2
  <2> QED  BY <1>1, <2>1, <2>3 DEF OrderMove, Moved, Jumps, OrderStatuses
<1>4. CASE ~MovesToPayment(call[c].order, call[c].from)
  BY <1>2, <1>4 DEF StoreCheckout, OrderMove
<1> QED  BY <1>3, <1>4

\* a confirmation that goes through found its order still to be paid for, or dropped
LEMMA NotBlocked ==
  ASSUME NEW from \in OrderStatuses, ~Blocked(from)
  PROVE  from \in {"PENDING", "PAYMENT_PENDING", "CANCELLED"}
<1>1. CASE from \notin {"PENDING", "CANCELLED"}
  <2>1. PathToSupplier(from) = <<<<from, "PAID">>, <<"PAID", "AWAITING_CONFIRMATION">>>>
    BY <1>1 DEF PathToSupplier
  <2>2. 1 \in DOMAIN PathToSupplier(from) /\ PathToSupplier(from)[1] = <<from, "PAID">>
    BY <2>1
  <2>3. CanTransition(from, "PAID")
    BY <2>2 DEF Blocked
  <2> QED  BY <2>3 DEF CanTransition, Transitions
<1> QED  BY <1>1

LEMMA NeverBlocked ==
  ASSUME NEW from \in {"PENDING", "PAYMENT_PENDING", "CANCELLED"}
  PROVE  ~Blocked(from)
<1>1. CASE from = "CANCELLED"
  BY <1>1 DEF Blocked, PathToSupplier, CanTransition, Transitions
<1>2. CASE from = "PENDING"
  BY <1>2 DEF Blocked, PathToSupplier, CanTransition, Transitions
<1>3. CASE from = "PAYMENT_PENDING"
  BY <1>3 DEF Blocked, PathToSupplier, CanTransition, Transitions
<1> QED  BY <1>1, <1>2, <1>3

LEMMA SettleMoves ==
  ASSUME MoneyState, NEW c \in Calls, SettlePayment(c)
  PROVE  OrderMove
<1> DEFINE o == call[c].order
           from == call[c].saw
<1>1. o \in Orders /\ from \in OrderStatuses
  BY LocalsTyped DEF SettlePayment, At, MoneyState, TypeOK, TablesTypeOK
<1>2. CASE UNCHANGED <<status, history, deducted, stock>>
  BY <1>2 DEF OrderMove
<1>3. CASE ~Blocked(from) /\ status[o] = from /\ CarryOrderOn(o, from)
  <2>1. from \in {"PENDING", "PAYMENT_PENDING", "CANCELLED"}
    BY <1>1, <1>3, NotBlocked
  <2>2. status' = [status EXCEPT ![o] = IF from = "CANCELLED" THEN "REFUND_PENDING"
                                        ELSE "AWAITING_CONFIRMATION"]
    BY <1>1, <1>3, PathTyped DEF CarryOrderOn
  <2>3. CASE from = "CANCELLED"
    <3>1. /\ deducted \in [Orders -> BOOLEAN] /\ UNCHANGED deducted
          /\ deducted[o] => status[o] \in Fulfilling
      BY <1>1, <1>3, <2>3 DEF CarryOrderOn, MoneyState, TypeOK, TablesTypeOK, MoneyInv,
                              StockHeldOnlyWhileSold
    <3>2. ~deducted[o]
      BY <1>3, <2>3, <3>1 DEF Fulfilling
    <3>3. deducted' = [deducted EXCEPT ![o] = FALSE]
      BY <1>1, <3>1, <3>2
    <3>4. status' = [status EXCEPT ![o] = "REFUND_PENDING"] /\ status[o] = "CANCELLED"
      BY <1>3, <2>2, <2>3
    <3> QED  BY <1>1, <3>3, <3>4 DEF OrderMove, Moved, Jumps, OrderStatuses
  <2>4. CASE from # "CANCELLED"
    <3>1. deducted' = [deducted EXCEPT ![o] = ~FellShort(o)] /\ (~FellShort(o)) \in BOOLEAN
      BY <1>3, <2>4 DEF CarryOrderOn
    <3>2. /\ status' = [status EXCEPT ![o] = "AWAITING_CONFIRMATION"]
          /\ status[o] \in {"PENDING", "PAYMENT_PENDING"}
      BY <1>3, <2>1, <2>2, <2>4
    <3>3. /\ <<status[o], "AWAITING_CONFIRMATION">> \in Jumps
          /\ "AWAITING_CONFIRMATION" \in OrderStatuses \cap Fulfilling
      BY <3>2 DEF Jumps, OrderStatuses, Fulfilling
    <3> QED  BY <1>1, <3>1, <3>2, <3>3 DEF OrderMove, Moved
  <2> QED  BY <2>3, <2>4
<1> QED  BY <1>2, <1>3 DEF SettlePayment

LEMMA RefundMoves ==
  ASSUME MoneyState, NEW c \in Calls, RecordRefund(c)
  PROVE  OrderMove
<1>1. call[c].order \in Orders
  BY LocalsTyped DEF RecordRefund, At, MoneyState, TypeOK, TablesTypeOK
<1>2. UNCHANGED deducted /\ call[c].from = "REFUND_PENDING"
  BY DEF RecordRefund, At, MoneyState, MoneyInv, LocalsGood
<1>3. CASE UNCHANGED status
  BY <1>2, <1>3 DEF OrderMove
<1>4. CASE /\ status[call[c].order] = "REFUND_PENDING"
           /\ status' = [status EXCEPT ![call[c].order] = "REFUNDED"]
  <2>1. /\ deducted \in [Orders -> BOOLEAN]
        /\ deducted[call[c].order] => status[call[c].order] \in Fulfilling
    BY <1>1 DEF MoneyState, TypeOK, TablesTypeOK, MoneyInv, StockHeldOnlyWhileSold
  <2>2. ~deducted[call[c].order]
    BY <1>4, <2>1 DEF Fulfilling
  <2>3. deducted' = [deducted EXCEPT ![call[c].order] = FALSE]
    BY <1>1, <1>2, <2>1, <2>2
  <2> QED  BY <1>1, <1>4, <2>3 DEF OrderMove, Moved, Jumps, OrderStatuses
<1> QED  BY <1>2, <1>3, <1>4 DEF RecordRefund

(* No step moves more than one order, or moves it anywhere but along Jumps. *)
LEMMA EveryOrderMove ==
  ASSUME MoneyState, [Next]_vars
  PROVE  OrderMove
<1>1. CASE UNCHANGED <<status, deducted>>
  BY <1>1 DEF OrderMove
<1> QED  BY <1>1, WhoMovesOrders, UpdateMoves, CheckoutMoves, SettleMoves, RefundMoves

(* No step changes more than one transaction, or takes captured money out of the
   books: a transaction only ever goes forward. *)
LEMMA EveryTxnMove ==
  ASSUME MoneyState, [Next]_vars
  PROVE  TxnMove
<1> USE DEF MoneyState, TypeOK, PaystackTypeOK
<1>1. CASE UNCHANGED txn
  BY <1>1 DEF TxnMove
<1>2. ASSUME NEW c \in Calls, NEW o \in Orders, NEW r \in Refs, InitializePayment(c, o, r)
      PROVE  TxnMove
  <2>1. [state |-> "created", order |-> o] \in Txns
    BY DEF Txns, TxnStates
  <2> QED  BY <1>2, <2>1 DEF InitializePayment, TxnMove, TxnMoved, TxnJumps
<1>3. ASSUME NEW r \in Refs, NEW s \in TxnStates, txn' = [txn EXCEPT ![r].state = s],
             <<txn[r].state, s>> \in TxnJumps
      PROVE  TxnMove
  <2> DEFINE t == [txn[r] EXCEPT !.state = s]
  <2>1. txn[r] \in Txns
    OBVIOUS
  <2>2. t \in Txns /\ t.state = s /\ t.order = txn[r].order
    BY <2>1 DEF Txns
  <2>3. txn' = [txn EXCEPT ![r] = t]
    BY <1>3
  <2> HIDE DEF t
  <2> QED  BY <1>3, <2>2, <2>3 DEF TxnMove, TxnMoved
<1>4. ASSUME NEW c \in Calls, StoreCheckout(c)
      PROVE  TxnMove
  <2>1. call[c].ref \in Refs
    BY <1>4, LocalsTyped DEF StoreCheckout, At, TablesTypeOK
  <2>2. LocalsGood(c) /\ call[c].pc = "checkout"
    BY <1>4 DEF StoreCheckout, At, MoneyInv
  <2>3. txn[call[c].ref].state = "created"
    BY <2>2 DEF LocalsGood
  <2> QED  BY <1>3, <1>4, <2>1, <2>3 DEF StoreCheckout, TxnStates, TxnJumps
<1>5. ASSUME NEW c \in Calls, RefundAccepted(c)
      PROVE  TxnMove
  <2>1. call[c].ref \in Refs
    BY <1>5, LocalsTyped DEF RefundAccepted, At, TablesTypeOK
  <2> QED  BY <1>3, <1>5, <2>1 DEF RefundAccepted, TxnStates, TxnJumps
<1>6. ASSUME NEW r \in Refs, Buyer(r)
      PROVE  TxnMove
  BY <1>3, <1>6 DEF Buyer, Pay, PayShort, Decline, Charge, TxnStates, TxnJumps
<1>7. ASSUME NEW c \in Calls, Request(c) \/ (\E r \in Refs : Webhook(c, r))
      PROVE  TxnMove
  BY <1>1, <1>2, <1>7 DEF Request, Webhook, LookupPayment, RefundRead, providerVars
<1>8. ASSUME NEW c \in Calls, Handle(c)
      PROVE  TxnMove
  <2>1. CASE \/ VerifyTransaction(c) \/ RecordUnpaid(c) \/ ClaimPayment(c) \/ SettlePayment(c)
             \/ SettleConflict(c) \/ RefundRefused(c) \/ RecordRefund(c)
             \/ UNCHANGED providerVars
    BY <1>1, <2>1 DEF VerifyTransaction, RecordUnpaid, ClaimPayment, SettlePayment,
                      SettleConflict, RefundRefused, RecordRefund, providerVars
  <2> QED  BY <1>4, <1>5, <1>8, <2>1 DEF Handle, PaymentsStep
<1> QED  BY <1>1, <1>6, <1>7, <1>8 DEF Next, vars, providerVars

-----------------------------------------------------------------------------
(* What a request in flight may keep relying on while others take steps. *)
LEMMA OrdersAdvance ==
  ASSUME MoneyState, OrderMove, NEW o \in Orders
  PROVE  /\ status'[o] # "PAID"
         /\ status[o] \in Past => status'[o] \in Past
         /\ status[o] \in Refunding => status'[o] \in Refunding
         /\ status[o] = "REFUNDED" => status'[o] = "REFUNDED"
         /\ status[o] \in Past /\ status'[o] = "AWAITING_CONFIRMATION" =>
              status[o] = "AWAITING_CONFIRMATION" /\ deducted'[o] = deducted[o]
         /\ deducted'[o] => status'[o] \in Fulfilling
<1>1. /\ status \in [Orders -> OrderStatuses] /\ deducted \in [Orders -> BOOLEAN]
      /\ status[o] # "PAID" /\ (deducted[o] => status[o] \in Fulfilling)
  BY DEF MoneyState, TypeOK, TablesTypeOK, MoneyInv, StockHeldOnlyWhileSold
<1>2. CASE status'[o] = status[o] /\ deducted'[o] = deducted[o]
  BY <1>1, <1>2
<1>3. ASSUME NEW s \in OrderStatuses, NEW b \in BOOLEAN, Moved(o, s, b)
      PROVE  /\ <<status[o], status'[o]>> \in Jumps
             /\ deducted'[o] => status'[o] \in Fulfilling
  BY <1>1, <1>3 DEF Moved
<1>4. ASSUME <<status[o], status'[o]>> \in Jumps
      PROVE  /\ status'[o] # "PAID"
             /\ status[o] \in Past => status'[o] \in Past
             /\ status[o] \in Refunding => status'[o] \in Refunding
             /\ status[o] # "REFUNDED"
             /\ status[o] \in Past => status'[o] # "AWAITING_CONFIRMATION"
  BY <1>4 DEF Jumps, Past, Payable, Refunding, OrderStatuses
<1>5. ASSUME NEW p \in Orders, NEW s \in OrderStatuses, NEW b \in BOOLEAN, Moved(p, s, b),
             p # o
      PROVE  status'[o] = status[o] /\ deducted'[o] = deducted[o]
  BY <1>1, <1>5 DEF Moved
<1> QED  BY <1>2, <1>3, <1>4, <1>5 DEF OrderMove

LEMMA TxnsAdvance ==
  ASSUME MoneyState, TxnMove, NEW r \in Refs
  PROVE  /\ txn[r].state # "unused" =>
              txn'[r].order = txn[r].order /\ txn'[r].state # "unused"
         /\ txn[r].state \notin {"unused", "created"} =>
              txn'[r].state \notin {"unused", "created"}
         /\ txn[r].state \in {"paid", "refunded"} => txn'[r].state \in {"paid", "refunded"}
         /\ txn[r].state = "refunded" => txn'[r].state = "refunded"
<1>1. txn \in [Refs -> Txns]
  BY DEF MoneyState, TypeOK, PaystackTypeOK
<1>2. CASE txn'[r] = txn[r]
  BY <1>2
<1>3. ASSUME NEW t \in Txns, TxnMoved(r, t)
      PROVE  /\ <<txn[r].state, txn'[r].state>> \in TxnJumps
             /\ txn[r].state # "unused" => txn'[r].order = txn[r].order
  BY <1>1, <1>3 DEF TxnMoved
<1>4. ASSUME NEW q \in Refs, NEW t \in Txns, TxnMoved(q, t), q # r
      PROVE  txn'[r] = txn[r]
  BY <1>1, <1>4 DEF TxnMoved
<1> QED  BY <1>2, <1>3, <1>4 DEF TxnMove, TxnJumps

LEMMA Undisturbed ==
  ASSUME MoneyState, OrderMove, TxnMove, NEW c \in Calls, call'[c] = call[c],
         At(c, "checkout") =>
           /\ txn'[call[c].ref] = txn[call[c].ref]
           /\ \A d \in Calls \ {c} : At(d, "checkout")' => call'[d].ref # call[c].ref
  PROVE  LocalsGood(c)'
<1>1. LocalsGood(c)
  BY DEF MoneyState, MoneyInv
<1> DEFINE k == call[c]
           o == call[c].order
           r == call[c].ref
<1>2. CASE At(c, "idle")
  BY <1>2 DEF LocalsGood, At
<1>3. CASE ~At(c, "idle")
  <2>1. /\ o \in Orders
        /\ k.pc \in {"checkout", "verify", "unpaid", "claim", "settle", "refund", "refunded"}
             => r \in Refs
        /\ k.pc = "update" => k.from \in OrderStatuses
    BY <1>3, LocalsTyped DEF MoneyState, TypeOK, TablesTypeOK
  <2>2. k.pc = "update" =>
          (k.target = "REJECTED" /\ status'[o] = k.from => k.restores = deducted'[o])
    <3>1. SUFFICES ASSUME k.pc = "update", k.target = "REJECTED", status'[o] = k.from
                   PROVE  k.restores = deducted'[o]
      OBVIOUS
    <3>2. k.from = "AWAITING_CONFIRMATION" /\ status[o] \in Past
      BY <1>1, <3>1 DEF LocalsGood, CanTransition, Transitions, StillPast, Past, Payable,
                        OrderStatuses
    <3>3. status[o] = k.from /\ deducted'[o] = deducted[o]
      BY <2>1, <3>1, <3>2, OrdersAdvance
    <3> QED  BY <1>1, <3>1, <3>3 DEF LocalsGood
  <2>3. k.pc = "update" => LocalsGood(c)'
    BY <1>1, <2>1, <2>2, OrdersAdvance DEF LocalsGood, StillPast, At
  <2>4. k.pc = "checkout" => LocalsGood(c)'
    BY <1>1 DEF LocalsGood, At
  <2>5. k.pc \in {"verify", "unpaid"} => LocalsGood(c)'
    BY <1>1, <2>1, TxnsAdvance DEF LocalsGood
  <2>6. k.pc \in {"claim", "settle"} => LocalsGood(c)'
    BY <1>1, <2>1, TxnsAdvance, OrdersAdvance DEF LocalsGood, Took, StillPast
  <2>7. k.pc \in {"refund", "refunded"} => LocalsGood(c)'
    BY <1>1, <2>1, TxnsAdvance, OrdersAdvance DEF LocalsGood, Took
  <2>8. k.pc = "notify" => LocalsGood(c)'
    BY DEF LocalsGood
  <2>9. k.pc \in {"update", "checkout", "verify", "unpaid", "claim", "settle", "refund",
                  "refunded", "notify"}
    BY <1>3 DEF MoneyState, TypeOK, TablesTypeOK, InFlight, Idle, At
  <2> QED  BY <2>3, <2>4, <2>5, <2>6, <2>7, <2>8, <2>9
<1> QED  BY <1>2, <1>3

-----------------------------------------------------------------------------
\* the steps of request c
StepOf(c) ==
  \/ Request(c) \/ (\E r \in Refs : Webhook(c, r)) \/ Handle(c)
  \/ Abandon(c) /\ UNCHANGED providerVars

LEMMA OneSlot ==
  ASSUME TypeOK, NEW c \in Calls, StepOf(c), NEW d \in Calls, d # c
  PROVE  call'[d] = call[d]
<1>1. call \in [Calls -> InFlight \cup {Idle}]
  BY DEF TypeOK, TablesTypeOK
<1>2. /\ \A local : Become(c, local) => call'[d] = call[d]
      /\ Return(c) => call'[d] = call[d]
      /\ UNCHANGED call => call'[d] = call[d]
  BY <1>1 DEF Become, Return
<1>3. Request(c) => call'[d] = call[d]
  <2>1. \A o \in Orders, t \in OrderStatuses, a \in OrderActors :
          UpdateRead(c, o, t, a) => call'[d] = call[d]
    BY <1>2 DEF UpdateRead
  <2>2. \A o \in Orders, r \in Refs : InitializePayment(c, o, r) => call'[d] = call[d]
    BY <1>2 DEF InitializePayment
  <2>3. \A r \in Refs : LookupPayment(c, r, FALSE) => call'[d] = call[d]
    BY <1>2 DEF LookupPayment
  <2>4. \A o \in Orders : RefundRead(c, o) => call'[d] = call[d]
    BY <1>2 DEF RefundRead
  <2> QED  BY <2>1, <2>2, <2>3, <2>4 DEF Request
<1>4. \A r \in Refs : Webhook(c, r) => call'[d] = call[d]
  BY <1>2 DEF Webhook, LookupPayment
<1>5. OrdersStep(c) \/ Abandon(c) => call'[d] = call[d]
  <2>1. UpdateApply(c) => call'[d] = call[d]
    BY <1>2 DEF UpdateApply
  <2> QED  BY <1>2, <2>1 DEF OrdersStep, UpdateConflict, AfterConflict, Notify, Abandon
<1>6. PaymentsStep(c) => call'[d] = call[d]
  <2>1. VerifyTransaction(c) => call'[d] = call[d]
    BY <1>2 DEF VerifyTransaction, Rollback
  <2>2. StoreCheckout(c) \/ RecordUnpaid(c) \/ ClaimPayment(c) => call'[d] = call[d]
    BY <1>2 DEF StoreCheckout, RecordUnpaid, ClaimPayment
  <2>3. SettlePayment(c) \/ SettleConflict(c) => call'[d] = call[d]
    BY <1>2 DEF SettlePayment, SettleConflict, Rollback
  <2>4. RefundAccepted(c) \/ RefundRefused(c) \/ RecordRefund(c) => call'[d] = call[d]
    BY <1>2 DEF RefundAccepted, RefundRefused, RecordRefund
  <2> QED  BY <2>1, <2>2, <2>3, <2>4 DEF PaymentsStep
<1> QED  BY <1>3, <1>4, <1>5, <1>6 DEF StepOf, Handle

(* A link that was made but not stored yet belongs to the one request that made it. *)
LEMMA LinkKept ==
  ASSUME MoneyState, NEW c \in Calls, StepOf(c), NEW d \in Calls, d # c, At(d, "checkout")
  PROVE  /\ txn'[call[d].ref] = txn[call[d].ref]
         /\ At(c, "checkout")' => call'[c].ref # call[d].ref
<1> DEFINE q == call[d].ref
<1>1. /\ q \in Refs /\ txn \in [Refs -> Txns]
      /\ call \in [Calls -> InFlight \cup {Idle}]
  BY LocalsTyped DEF MoneyState, TypeOK, PaystackTypeOK, TablesTypeOK, At
<1>2. txn[q].state = "created" /\ (At(c, "checkout") => call[c].ref # q)
  <2>1. LocalsGood(d)
    BY DEF MoneyState, MoneyInv
  <2> QED  BY <2>1 DEF LocalsGood, At
<1>3. CASE \E o \in Orders, r \in Refs : InitializePayment(c, o, r)
  <2>1. PICK o \in Orders, r \in Refs : InitializePayment(c, o, r)
    BY <1>3
  <2>2. r # q
    BY <1>2, <2>1 DEF InitializePayment
  <2>3. call'[c].ref = r
    BY <1>1, <2>1 DEF InitializePayment, Become
  <2> QED  BY <1>1, <2>1, <2>2, <2>3 DEF InitializePayment
<1>4. CASE StoreCheckout(c)
  <2>1. call[c].ref # q
    BY <1>2, <1>4 DEF StoreCheckout
  <2>2. ~At(c, "checkout")'
    BY <1>1, <1>4 DEF StoreCheckout, Return, Become, Idle, At
  <2> QED  BY <1>1, <1>4, <2>1, <2>2 DEF StoreCheckout
<1>5. CASE RefundAccepted(c)
  <2>1. call[c].ref # q
    BY <1>2, <1>5 DEF RefundAccepted
  <2>2. ~At(c, "checkout")'
    BY <1>1, <1>5 DEF RefundAccepted, Become, Idle, At, InFlight
  <2> QED  BY <1>1, <1>5, <2>1, <2>2 DEF RefundAccepted
<1>6. CASE UNCHANGED txn /\ (call'[c] = call[c] \/ call'[c].pc # "checkout")
  BY <1>1, <1>2, <1>6 DEF At
<1>7. /\ \A local : Become(c, local) => call'[c] = local
      /\ Return(c) => call'[c].pc # "checkout"
      /\ UNCHANGED call => call'[c] = call[c]
  BY <1>1 DEF Become, Return, Idle
<1>8. \/ \E o \in Orders, r \in Refs : InitializePayment(c, o, r)
      \/ StoreCheckout(c) \/ RefundAccepted(c)
      \/ UNCHANGED txn /\ (call'[c] = call[c] \/ call'[c].pc # "checkout")
  <2>1. \A o \in Orders, t \in OrderStatuses, a \in OrderActors :
          UpdateRead(c, o, t, a) => call'[c].pc # "checkout"
    BY <1>7 DEF UpdateRead
  <2>2. OrdersStep(c) => call'[c].pc # "checkout"
    <3>1. UpdateApply(c) => call'[c].pc # "checkout"
      BY <1>7 DEF UpdateApply
    <3> QED  BY <1>7, <3>1 DEF OrdersStep, UpdateConflict, AfterConflict, Notify
  <2>3. \A r \in Refs, hook \in BOOLEAN :
          LookupPayment(c, r, hook) => /\ UNCHANGED txn
                                       /\ call'[c] = call[c] \/ call'[c].pc # "checkout"
    BY <1>7 DEF LookupPayment
  <2>4. VerifyTransaction(c) => UNCHANGED txn /\ call'[c].pc # "checkout"
    BY <1>7 DEF VerifyTransaction, Rollback
  <2>5. RecordUnpaid(c) \/ ClaimPayment(c) => UNCHANGED txn /\ call'[c].pc # "checkout"
    BY <1>7 DEF RecordUnpaid, ClaimPayment
  <2>6. SettlePayment(c) \/ SettleConflict(c) => UNCHANGED txn /\ call'[c].pc # "checkout"
    BY <1>7 DEF SettlePayment, SettleConflict, Rollback, providerVars
  <2>7. \A o \in Orders : RefundRead(c, o) => UNCHANGED txn /\ call'[c].pc # "checkout"
    BY <1>7 DEF RefundRead, providerVars
  <2>9. RefundRefused(c) \/ RecordRefund(c) => UNCHANGED txn /\ call'[c].pc # "checkout"
    BY <1>7 DEF RefundRefused, RecordRefund, providerVars
  <2>8. Abandon(c) => call'[c].pc # "checkout"
    BY <1>7 DEF Abandon
  <2> QED  BY <2>1, <2>2, <2>3, <2>4, <2>5, <2>6, <2>7, <2>8, <2>9
           DEF StepOf, Request, Webhook, Handle, PaymentsStep, providerVars
<1> QED  BY <1>3, <1>4, <1>5, <1>6, <1>8

LEMMA OthersGood ==
  ASSUME MoneyState, [Next]_vars, NEW c \in Calls, StepOf(c), NEW d \in Calls, d # c
  PROVE  LocalsGood(d)'
<1>1. OrderMove /\ TxnMove
  BY EveryOrderMove, EveryTxnMove
<1>2. call'[d] = call[d]
  BY OneSlot DEF MoneyState
<1>3. ASSUME At(d, "checkout"), NEW e \in Calls \ {d}, At(e, "checkout")'
      PROVE  call'[e].ref # call[d].ref
  <2>1. CASE e = c
    BY <1>3, <2>1, LinkKept
  <2>2. CASE e # c
    <3>1. call'[e] = call[e]
      BY <2>2, OneSlot DEF MoneyState
    <3>2. LocalsGood(d)
      BY DEF MoneyState, MoneyInv
    <3> QED  BY <1>3, <3>1, <3>2 DEF LocalsGood, At
  <2> QED  BY <2>1, <2>2
<1> QED  BY <1>1, <1>2, <1>3, LinkKept, Undisturbed

(* The request that takes the step leaves itself in good order. *)
LEMMA ReadsGood ==
  ASSUME MoneyState, NEW c \in Calls, Request(c) \/ (\E r \in Refs : Webhook(c, r))
  PROVE  LocalsGood(c)'
<1> USE DEF MoneyState, TypeOK, PaystackTypeOK, TablesTypeOK
<1>0. \A local : Become(c, local) => call'[c] = local
  BY DEF Become
<1>1. ASSUME NEW o \in Orders, NEW t \in OrderStatuses, NEW a \in OrderActors,
             UpdateRead(c, o, t, a), UNCHANGED providerVars
      PROVE  LocalsGood(c)'
  <2>1. call'[c] = [pc |-> "update", order |-> o, from |-> status[o], target |-> t,
                    restores |-> RestoresStock(o, t), owes |-> OwesRefund(o, t)]
    BY <1>0, <1>1 DEF UpdateRead
  <2>2. /\ UNCHANGED <<status, deducted>> /\ CanTransition(status[o], t)
        /\ AllowedActors(status[o], t) # {}
    BY <1>1 DEF UpdateRead, tableVars
  <2>3. /\ call'[c].owes \/ call'[c].restores => t = "REJECTED"
        /\ t = "REJECTED" => call'[c].restores = deducted[o]
    <3>1. call'[c].restores = RestoresStock(o, t) /\ call'[c].owes = OwesRefund(o, t)
      BY <2>1
    <3>2. deducted[o] \in BOOLEAN
      OBVIOUS
    <3> HIDE DEF MoneyState
    <3>3. CASE t = "REJECTED"
      <4>1. RestoresStock(o, t) = deducted[o]
        BY <3>2, <3>3 DEF RestoresStock
      <4> QED  BY <3>1, <3>3, <4>1
    <3>4. CASE t # "REJECTED"
      <4>1. RestoresStock(o, t) = FALSE /\ OwesRefund(o, t) = FALSE
        BY <3>4 DEF RestoresStock, OwesRefund
      <4> QED  BY <3>1, <3>4, <4>1
    <3> QED  BY <3>3, <3>4
  <2> HIDE DEF MoneyState
  <2> QED  BY <2>1, <2>2, <2>3 DEF LocalsGood, StillPast
<1>2. ASSUME NEW o \in Orders, NEW r \in Refs, InitializePayment(c, o, r)
      PROVE  LocalsGood(c)'
  <2>1. call'[c] = [pc |-> "checkout", order |-> o, from |-> status[o], ref |-> r]
    BY <1>0, <1>2 DEF InitializePayment
  <2>2. txn'[r] = [state |-> "created", order |-> o]
    BY <1>2 DEF InitializePayment
  <2>3. ASSUME NEW d \in Calls \ {c}, At(d, "checkout")'
        PROVE  call'[d].ref # r
    <3>1. call'[d] = call[d] /\ LocalsGood(d)
      BY <1>2 DEF InitializePayment, Become, MoneyInv
    <3>2. txn[call[d].ref].state = "created"
      BY <2>3, <3>1 DEF LocalsGood, At
    <3> QED  BY <1>2, <3>1, <3>2 DEF InitializePayment
  <2> HIDE DEF MoneyState
  <2> QED  BY <2>1, <2>2, <2>3 DEF LocalsGood
<1>3. ASSUME NEW r \in Refs, NEW hook \in BOOLEAN, LookupPayment(c, r, hook)
      PROVE  LocalsGood(c)'
  <2>1. \/ UNCHANGED call /\ call[c].pc = "idle"
        \/ call'[c] = [pc |-> "verify", order |-> txn[r].order, ref |-> r,
                       current |-> payment[txn[r].order].ref = r, hook |-> hook]
    BY <1>0, <1>3 DEF LookupPayment, At
  <2>2. UNCHANGED txn /\ txn[r].state # "unused"
    BY <1>3 DEF LookupPayment
  <2> HIDE DEF MoneyState
  <2> QED  BY <2>1, <2>2 DEF LocalsGood
<1>4. ASSUME NEW o \in Orders, RefundRead(c, o)
      PROVE  LocalsGood(c)'
  <2>1. call'[c] = [pc |-> "refund", order |-> o, ref |-> payment[o].ref, from |-> status[o]]
    BY <1>0, <1>4 DEF RefundRead
  <2>2. UNCHANGED <<txn, status>> /\ Took(payment[o].ref, o) /\ status[o] = "REFUND_PENDING"
    BY <1>4 DEF RefundRead, providerVars, tableVars, MoneyInv, RecordMatchesProvider, Took,
                CanTransition, Transitions
  <2> HIDE DEF MoneyState
  <2> QED  BY <2>1, <2>2 DEF LocalsGood, Took, Refunding
<1> QED  BY <1>1, <1>2, <1>3, <1>4 DEF Request, Webhook

LEMMA HandlesGood ==
  ASSUME MoneyState, [Next]_vars, NEW c \in Calls,
         Handle(c) \/ (Abandon(c) /\ UNCHANGED providerVars)
  PROVE  LocalsGood(c)'
<1>0. /\ \A local : Become(c, local) => call'[c] = local
      /\ Return(c) => LocalsGood(c)'
  BY DEF MoneyState, TypeOK, TablesTypeOK, Become, Return, Idle, LocalsGood
<1>1. LocalsGood(c) /\ TypeOK
  BY DEF MoneyState, MoneyInv
<1>2. CASE VerifyTransaction(c)
  <2>1. UNCHANGED <<txn, status>> /\ call[c].pc = "verify" /\ call[c].ref \in Refs
    BY <1>1, <1>2, LocalsTyped DEF VerifyTransaction, tableVars, At, TypeOK, TablesTypeOK
  <2>2. txn[call[c].ref].order = call[c].order /\ txn[call[c].ref].state # "unused"
    BY <1>1, <2>1 DEF LocalsGood
  <2>3. CASE Return(c)
    BY <1>0, <2>3
  <2>4. CASE /\ VerifyResult(call[c].ref) = "success"
             /\ Become(c, [pc |-> "claim", order |-> call[c].order, ref |-> call[c].ref,
                           hook |-> call[c].hook])
    <3>1. txn[call[c].ref].state = "paid"
      BY <2>4 DEF VerifyResult
    <3>2. call'[c] = [pc |-> "claim", order |-> call[c].order, ref |-> call[c].ref,
                      hook |-> call[c].hook]
      BY <1>0, <2>4
    <3> QED  BY <2>1, <2>2, <3>1, <3>2 DEF LocalsGood, Took
  <2>5. ASSUME NEW out,
               Become(c, [pc |-> "unpaid", order |-> call[c].order, ref |-> call[c].ref,
                          hook |-> call[c].hook, outcome |-> out])
        PROVE  LocalsGood(c)'
    <3>1. call'[c] = [pc |-> "unpaid", order |-> call[c].order, ref |-> call[c].ref,
                      hook |-> call[c].hook, outcome |-> out]
      BY <1>0, <2>5
    <3> QED  BY <2>1, <2>2, <3>1 DEF LocalsGood
  <2> QED  BY <1>2, <2>3, <2>4, <2>5 DEF VerifyTransaction, Rollback
<1>3. CASE ClaimPayment(c)
  <2>1. /\ UNCHANGED <<txn, status>> /\ call[c].pc = "claim"
        /\ call[c].ref \in Refs /\ call[c].order \in Orders
    BY <1>1, <1>3, LocalsTyped DEF ClaimPayment, tableVars, At, TypeOK, TablesTypeOK
  <2>2. Took(call[c].ref, call[c].order) /\ status[call[c].order] # "PAID"
    BY <1>1, <2>1 DEF LocalsGood, MoneyState, MoneyInv
  <2>3. CASE Return(c)
    BY <1>0, <2>3
  <2>4. CASE Become(c, [pc |-> "settle", order |-> call[c].order, ref |-> call[c].ref,
                        hook |-> call[c].hook, saw |-> status[call[c].order]])
    <3>1. call'[c] = [pc |-> "settle", order |-> call[c].order, ref |-> call[c].ref,
                      hook |-> call[c].hook, saw |-> status[call[c].order]]
      BY <1>0, <2>4
    <3> QED  BY <2>1, <2>2, <3>1 DEF LocalsGood, Took, StillPast
  <2> QED  BY <1>3, <2>3, <2>4 DEF ClaimPayment
<1>4. CASE RefundAccepted(c)
  <2>1. /\ UNCHANGED status /\ call[c].pc = "refund" /\ call[c] \in InFlight
        /\ call[c].ref \in Refs /\ call[c].order \in Orders
    BY <1>1, <1>4, LocalsTyped DEF RefundAccepted, tableVars, At, TypeOK, TablesTypeOK
  <2>2. call'[c] = [call[c] EXCEPT !.pc = "refunded"]
    BY <1>0, <1>4 DEF RefundAccepted
  <2>3. /\ call'[c].pc = "refunded" /\ call'[c].order = call[c].order
        /\ call'[c].ref = call[c].ref /\ call'[c].from = call[c].from
    BY <2>1, <2>2 DEF InFlight
  <2>4. /\ txn'[call[c].ref].state = "refunded"
        /\ txn'[call[c].ref].order = txn[call[c].ref].order
    BY <1>1, <1>4, <2>1 DEF RefundAccepted, TypeOK, PaystackTypeOK, Txns
  <2> QED  BY <1>1, <2>1, <2>3, <2>4 DEF LocalsGood, Took
<1>5. CASE UpdateApply(c)
  <2>1. Return(c) \/ call'[c].pc = "notify"
    BY <1>0, <1>5 DEF UpdateApply
  <2> QED  BY <1>0, <2>1 DEF LocalsGood
<1> QED  BY <1>0, <1>2, <1>3, <1>4, <1>5
     DEF Handle, PaymentsStep, OrdersStep, StoreCheckout, RecordUnpaid, SettlePayment,
         SettleConflict, RefundRefused, Rollback, RecordRefund, UpdateConflict, AfterConflict, Notify, Abandon

LEMMA LocalsPreserved ==
  ASSUME MoneyState, [Next]_vars
  PROVE  \A c \in Calls : LocalsGood(c)'
<1>1. OrderMove /\ TxnMove
  BY EveryOrderMove, EveryTxnMove
<1>2. ASSUME NEW c \in Calls, NEW d \in Calls, StepOf(c)
      PROVE  LocalsGood(d)'
  <2>1. CASE c # d
    BY <1>2, <2>1, OthersGood
  <2>2. CASE c = d
    <3>1. CASE Request(c) \/ (\E r \in Refs : Webhook(c, r))
      BY <2>2, <3>1, ReadsGood
    <3>2. CASE Handle(c) \/ (Abandon(c) /\ UNCHANGED providerVars)
      BY <2>2, <3>2, HandlesGood
    <3> QED  BY <1>2, <3>1, <3>2 DEF StepOf
  <2> QED  BY <2>1, <2>2
<1>3. ASSUME NEW d \in Calls, UNCHANGED call, UNCHANGED txn
      PROVE  LocalsGood(d)'
  <2>1. LocalsGood(d)
    BY DEF MoneyState, MoneyInv
  <2> QED  BY <1>1, <1>3, <2>1, Undisturbed DEF LocalsGood, At
<1>4. ASSUME NEW d \in Calls, NEW r \in Refs, Buyer(r)
      PROVE  LocalsGood(d)'
  <2>1. LocalsGood(d) /\ txn \in [Refs -> Txns] /\ UNCHANGED call
    BY <1>4 DEF MoneyState, MoneyInv, TypeOK, PaystackTypeOK, Buyer
  <2>2. ASSUME At(d, "checkout")
        PROVE  txn'[call[d].ref] = txn[call[d].ref]
    <3>1. call[d].ref # r
      BY <1>4, <2>1, <2>2 DEF LocalsGood, At, Buyer, Pay, PayShort, Decline, Charge
    <3>2. call[d].ref \in Refs
      BY <2>2, LocalsTyped DEF MoneyState, TypeOK, TablesTypeOK, At
    <3> QED  BY <1>4, <2>1, <3>1, <3>2 DEF Buyer, Pay, PayShort, Decline, Charge
  <2> QED  BY <1>1, <2>1, <2>2, Undisturbed DEF LocalsGood, At
<1>5. CASE UNCHANGED vars
  BY <1>3, <1>5 DEF vars, providerVars
<1> QED  BY <1>2, <1>4, <1>5 DEF Next, StepOf

-----------------------------------------------------------------------------
(* What the payments say, after every step. *)
PaymentGood(o) ==
  /\ payment[o].status # "NONE" => payment[o].ref \in Refs
  /\ payment[o].ref \in Refs =>
       /\ txn[payment[o].ref].order = o
       /\ txn[payment[o].ref].state \notin {"unused", "created"}
  /\ payment[o].status = "SUCCESS" => status[o] \in Past /\ Took(payment[o].ref, o)
  /\ payment[o].status = "REFUNDED" => status[o] = "REFUNDED" /\ MoneyReturned(o)

LEMMA LinksPreserved ==
  ASSUME MoneyState, [Next]_vars
  PROVE  LinksGood' /\ PaidOrderGoesOn' /\ RecordMatchesProvider'
<1>1. OrderMove /\ TxnMove
  BY EveryOrderMove, EveryTxnMove
<1>2. /\ status \in [Orders -> OrderStatuses] /\ payment \in [Orders -> Payments]
      /\ txn \in [Refs -> Txns] /\ call \in [Calls -> InFlight \cup {Idle}]
  BY DEF MoneyState, TypeOK, PaystackTypeOK, TablesTypeOK
<1>3. \A o \in Orders : PaymentGood(o)
  BY <1>2 DEF MoneyState, MoneyInv, LinksGood, PaidOrderGoesOn, RecordMatchesProvider, Took, Past,
              PaymentGood
<1>4. ASSUME NEW o \in Orders, MoneyReturned(o)
      PROVE  MoneyReturned(o)'
  BY <1>1, <1>4, TxnsAdvance DEF MoneyReturned
<1>5. ASSUME NEW o \in Orders, payment'[o] = payment[o]
      PROVE  PaymentGood(o)'
  BY <1>1, <1>3, <1>4, <1>5, OrdersAdvance, TxnsAdvance DEF Took, PaymentGood
<1>6. ASSUME NEW c \in Calls, StoreCheckout(c)
      PROVE  \A o \in Orders : PaymentGood(o)'
  <2>0. call[c].order \in Orders
    BY <1>6, LocalsTyped DEF StoreCheckout, At, MoneyState, TypeOK, TablesTypeOK
  <2> PICK p \in Orders : p = call[c].order
    BY <2>0
  <2>1. call[c].ref \in Refs /\ At(c, "checkout") /\ LocalsGood(c)
    BY <1>6, LocalsTyped DEF StoreCheckout, At, MoneyState, MoneyInv, TypeOK, TablesTypeOK
  <2>2. payment'[p] = [status |-> "PENDING", ref |-> call[c].ref]
    BY <1>2, <1>6, <2>1 DEF StoreCheckout
  <2>3. txn'[call[c].ref].state = "open" /\ txn'[call[c].ref].order = p
    BY <1>2, <1>6, <2>1 DEF StoreCheckout, LocalsGood, At, Txns
  <2>4. PaymentGood(p)'
    BY <2>1, <2>2, <2>3 DEF PaymentGood
  <2>5. \A o \in Orders : o # p => payment'[o] = payment[o]
    BY <1>2, <1>6, <2>1 DEF StoreCheckout
  <2> QED  BY <1>5, <2>4, <2>5
<1>7. ASSUME NEW c \in Calls, RecordUnpaid(c)
      PROVE  \A o \in Orders : PaymentGood(o)'
  <2>0. call[c].order \in Orders
    BY <1>7, LocalsTyped DEF RecordUnpaid, At, MoneyState, TypeOK, TablesTypeOK
  <2> PICK p \in Orders : p = call[c].order
    BY <2>0
  <2>1. call[c].outcome \in {"FAILED", "ABANDONED"}
    BY <1>7, LocalsTyped DEF RecordUnpaid, At, MoneyState, TypeOK, TablesTypeOK
  <2>2. CASE MayRecordUnpaid(p, call[c].ref)
    <3>1. LocalsGood(c) /\ call[c].pc = "unpaid" /\ call[c].ref \in Refs
      BY <1>2, <1>7, LocalsTyped DEF RecordUnpaid, At, MoneyState, MoneyInv
    <3>2. payment'[p] = [payment[p] EXCEPT !.status = call[c].outcome] /\ payment[p] \in Payments
      BY <1>2, <1>7, <2>1, <2>2 DEF RecordUnpaid
    <3>3. payment'[p].status = call[c].outcome /\ payment'[p].ref = payment[p].ref
      BY <3>2 DEF Payments
    <3>4. payment[p].ref = call[c].ref /\ UNCHANGED txn
      BY <1>7, <2>2 DEF MayRecordUnpaid, RecordUnpaid
    <3>6. PaymentGood(p)'
      BY <1>3, <2>1, <3>1, <3>3, <3>4 DEF PaymentGood
    <3>7. \A o \in Orders : o # p => payment'[o] = payment[o]
      BY <1>2, <1>7, <2>1, <2>2 DEF RecordUnpaid
    <3> QED  BY <1>5, <3>6, <3>7
  <2>3. CASE ~MayRecordUnpaid(p, call[c].ref)
    BY <1>5, <1>7, <2>3 DEF RecordUnpaid
  <2> QED  BY <2>2, <2>3
<1>8. ASSUME NEW c \in Calls, SettlePayment(c)
      PROVE  \A o \in Orders : PaymentGood(o)'
  <2> DEFINE r == call[c].ref
  <2>0. call[c].order \in Orders
    BY <1>8, LocalsTyped DEF SettlePayment, At, MoneyState, TypeOK, TablesTypeOK
  <2> PICK p \in Orders : p = call[c].order
    BY <2>0
  <2>1. /\ r \in Refs /\ call[c].saw \in OrderStatuses
        /\ call[c].pc = "settle" /\ LocalsGood(c)
    BY <1>2, <1>8, LocalsTyped DEF SettlePayment, At, MoneyState, MoneyInv
  <2>2. /\ payment'[p] = [status |-> "SUCCESS", ref |-> r] /\ UNCHANGED txn
        /\ \A o \in Orders : o # p => payment'[o] = payment[o]
    BY <1>2, <1>8, <2>1 DEF SettlePayment, PaidThrough
  <2>3. Took(r, p) /\ call[c].saw # "PAID" /\ StillPast(call[c].saw, p)
    BY <2>1 DEF LocalsGood
  <2>4. status'[p] \in Past
    <3>1. CASE Blocked(call[c].saw) /\ UNCHANGED <<status, history, deducted, stock>>
      <4>1. call[c].saw \in Past
        <5>1. call[c].saw \notin {"PENDING", "PAYMENT_PENDING", "CANCELLED"}
          BY <3>1, NeverBlocked
        <5> QED  BY <2>1, <2>3, <5>1 DEF Past, Payable
      <4> QED  BY <2>3, <3>1, <4>1 DEF StillPast
    <3>2. CASE ~Blocked(call[c].saw) /\ CarryOrderOn(p, call[c].saw)
      <4>1. status' = [status EXCEPT ![p] = IF call[c].saw = "CANCELLED" THEN "REFUND_PENDING"
                                            ELSE "AWAITING_CONFIRMATION"]
        BY <2>1, <3>2, PathTyped DEF CarryOrderOn
      <4> QED  BY <1>2, <2>1, <4>1 DEF Past, Payable, OrderStatuses
    <3> QED  BY <1>8, <3>1, <3>2 DEF SettlePayment
  <2>5. PaymentGood(p)'
    BY <2>1, <2>2, <2>3, <2>4 DEF Took, PaymentGood
  <2> QED  BY <1>5, <2>2, <2>5
<1>9. ASSUME NEW c \in Calls, RecordRefund(c)
      PROVE  \A o \in Orders : PaymentGood(o)'
  <2>0. call[c].order \in Orders
    BY <1>9, LocalsTyped DEF RecordRefund, At, MoneyState, TypeOK, TablesTypeOK
  <2> PICK p \in Orders : p = call[c].order
    BY <2>0
  <2>1. /\ call[c].ref \in Refs /\ call[c].pc = "refunded" /\ LocalsGood(c)
        /\ UNCHANGED txn
    BY <1>2, <1>9, LocalsTyped DEF RecordRefund, At, MoneyState, MoneyInv, providerVars
  <2>2. CASE UNCHANGED payment
    BY <1>5, <2>2
  <2>3. CASE /\ payment[p].status = "SUCCESS"
             /\ payment' = [payment EXCEPT ![p].status = "REFUNDED"]
             /\ status' = [status EXCEPT ![p] = "REFUNDED"]
    <3>1. payment'[p] = [payment[p] EXCEPT !.status = "REFUNDED"] /\ payment[p] \in Payments
      BY <1>2, <2>1, <2>3
    <3>2. payment'[p].status = "REFUNDED" /\ payment'[p].ref = payment[p].ref
      BY <3>1 DEF Payments
    <3>3. MoneyReturned(p)'
      <4>1. txn'[call[c].ref].order = p /\ txn'[call[c].ref].state = "refunded"
        BY <2>1 DEF LocalsGood, Took
      <4> QED  BY <2>1, <4>1 DEF MoneyReturned
    <3>4. status'[p] = "REFUNDED"
      BY <1>2, <2>1, <2>3
    <3>5. PaymentGood(p)'
      BY <1>3, <2>1, <2>3, <3>2, <3>3, <3>4 DEF PaymentGood
    <3>6. \A o \in Orders : o # p => payment'[o] = payment[o]
      BY <1>2, <2>1, <2>3
    <3> QED  BY <1>5, <3>5, <3>6
  <2> QED  BY <1>9, <2>2, <2>3 DEF RecordRefund
<1>10. ASSUME UNCHANGED payment
       PROVE  \A o \in Orders : PaymentGood(o)'
  BY <1>5, <1>10
<1>11. \A o \in Orders : PaymentGood(o)'
  BY <1>6, <1>7, <1>8, <1>9, <1>10, WhoWritesPayments
<1> QED  BY <1>11 DEF PaymentGood, LinksGood, PaidOrderGoesOn, RecordMatchesProvider, Took, Past

(* The money invariants hold in every reachable state. *)
LEMMA MoneyInvPreserved ==
  ASSUME MoneyState, [Next]_vars
  PROVE  MoneyState'
<1>1. OrderMove
  BY EveryOrderMove
<1>2. TypeOK'
  <2>1. TypeOK /\ PaymentNamed
    BY DEF MoneyState, MoneyInv, LinksGood, PaymentNamed
  <2> QED  BY <2>1, TypePreserved
<1>3. \A o \in Orders : status'[o] # "PAID" /\ (deducted'[o] => status'[o] \in Fulfilling)
  BY <1>1, OrdersAdvance
<1> QED  BY <1>2, <1>3, LocalsPreserved, LinksPreserved
         DEF MoneyState, MoneyInv, StockHeldOnlyWhileSold

LEMMA MoneyInvInitially == ASSUME Init PROVE MoneyState
<1>1. TypeOK
  BY InitTyped
<1>2. /\ status = [o \in Orders |-> "PENDING"] /\ deducted = [o \in Orders |-> FALSE]
      /\ payment = [o \in Orders |-> [status |-> "NONE", ref |-> NoRef]]
      /\ call = [c \in Calls |-> [pc |-> "idle"]]
  BY DEF Init, TablesInit, Idle
<1>3. \A c \in Calls : LocalsGood(c)
  BY <1>2 DEF LocalsGood
<1>4. /\ \A o \in Orders : status[o] # "PAID"
      /\ StockHeldOnlyWhileSold /\ PaidOrderGoesOn /\ RecordMatchesProvider /\ LinksGood
  BY <1>2, ShopAssumption
     DEF StockHeldOnlyWhileSold, PaidOrderGoesOn, RecordMatchesProvider, LinksGood, ShopAssumption
<1>5. MoneyInv
  BY <1>3, <1>4 DEF MoneyInv
<1> QED  BY <1>1, <1>5 DEF MoneyState

(* Whatever a buyer, a supplier, the admins, the provider and crashes do, and in
   whatever order: every request in flight may trust what it still carries. *)
THEOREM MoneyInvariant == Spec => []MoneyInv
<1>1. Spec => []MoneyState
  BY MoneyInvInitially, MoneyInvPreserved, PTL DEF Spec
<1>2. MoneyState => MoneyInv
  BY DEF MoneyState
<1> QED  BY <1>1, <1>2, PTL

(* A recorded payment is never left on an order that waits for it or was dropped:
   confirmPayment carries the order on, or owes the refund. *)
THEOREM PaidOrdersGoOn == Spec => []PaidOrderGoesOn
<1>1. MoneyInv => PaidOrderGoesOn
  BY DEF MoneyInv
<1> QED  BY <1>1, MoneyInvariant, PTL

(* A recorded payment was captured, and a recorded refund went back: the claim in
   confirmPayment and the order of steps in refundOrder do what they are for. *)
THEOREM RecordsMatchProvider == Spec => []RecordMatchesProvider
<1>1. MoneyInv => RecordMatchesProvider
  BY DEF MoneyInv
<1> QED  BY <1>1, MoneyInvariant, PTL

(* Stock is taken only for orders on their way to a buyer, so a rejection or a
   refund never leaves an order holding litres. *)
THEOREM StockHeldWhileSold == Spec => []StockHeldOnlyWhileSold
<1>1. MoneyInv => StockHeldOnlyWhileSold
  BY DEF MoneyInv
<1> QED  BY <1>1, MoneyInvariant, PTL
=============================================================================
