---------------------------- MODULE PromiseProofs ----------------------------
(* What buyers and suppliers are told, and what the marketplace promises about a
   buyer's money, proved for every set of orders, listings, references and
   requests: the history, the notices and the reviews of an order are true, a
   refund is recorded only after money went back, and the services implement the
   escrow. CheckoutProofs has the invariant all of it rests on. *)
EXTENDS Reviews, CheckoutProofs

\* a history that is legal from its first row on and ends in status s
Faithful(h, s) ==
  /\ h # <<>> /\ h[1] = <<"NONE", "PENDING">>
  /\ \A i \in 2..Len(h) : h[i] \in Transitions /\ h[i][1] = h[i - 1][2]
  /\ h[Len(h)][2] = s

\* an order with history h has reached status t
Tells(h, t) == \E i \in DOMAIN h : h[i][2] = t

\* h continues the history g: it is legal to the end, and forgets nothing
Continues(h, g, s) ==
  /\ h \in Seq(Rows) /\ s \in OrderStatuses /\ Faithful(h, s) /\ Tells(h, s)
  /\ \A t \in OrderStatuses : Tells(g, t) => Tells(h, t)

LEMMA RowContinues ==
  ASSUME NEW h \in Seq(Rows), NEW s \in OrderStatuses, Faithful(h, s),
         NEW t \in OrderStatuses, CanTransition(s, t)
  PROVE  Continues(Append(h, <<s, t>>), h, t)
<1> DEFINE row == <<s, t>>
           g == Append(h, row)
<1>1. row \in Rows /\ row \in Transitions
  BY DEF Rows, CanTransition
<1>2. /\ g \in Seq(Rows) /\ Len(g) = Len(h) + 1 /\ g[Len(h) + 1] = row
      /\ \A i \in 1..Len(h) : g[i] = h[i]
      /\ Len(h) \in Nat /\ Len(h) # 0
      /\ DOMAIN g = 1..Len(g) /\ DOMAIN h = 1..Len(h)
  BY <1>1 DEF Faithful
<1>3. row[1] = s /\ row[2] = t
  OBVIOUS
<1> HIDE DEF g, row
<1>4. Faithful(g, t)
  <2>1. g # <<>> /\ g[1] = <<"NONE", "PENDING">> /\ g[Len(g)][2] = t
    BY <1>2, <1>3 DEF Faithful
  <2>2. ASSUME NEW i \in 2..Len(g)
        PROVE  g[i] \in Transitions /\ g[i][1] = g[i - 1][2]
    <3>1. CASE i = Len(h) + 1
      BY <1>1, <1>2, <1>3, <3>1 DEF Faithful
    <3>2. CASE i # Len(h) + 1
      <4>1. i \in 2..Len(h) /\ i \in 1..Len(h) /\ i - 1 \in 1..Len(h)
        BY <1>2, <3>2
      <4> QED  BY <1>2, <4>1 DEF Faithful
    <3> QED  BY <3>1, <3>2
  <2> QED  BY <2>1, <2>2 DEF Faithful
<1>5. Tells(g, t)
  BY <1>2, <1>3 DEF Tells
<1>6. ASSUME NEW u \in OrderStatuses, Tells(h, u)
      PROVE  Tells(g, u)
  <2>1. PICK i \in 1..Len(h) : h[i][2] = u
    BY <1>2, <1>6 DEF Tells
  <2>2. i \in DOMAIN g /\ g[i][2] = u
    BY <1>2, <2>1
  <2> QED  BY <2>2 DEF Tells
<1>7. Continues(g, h, t)
  BY <1>2, <1>4, <1>5, <1>6 DEF Continues
<1> QED  BY <1>7 DEF g, row

LEMMA ContinuesOn ==
  ASSUME NEW h, NEW g, NEW f, NEW s, NEW t, Continues(g, h, s), Continues(f, g, t)
  PROVE  Continues(f, h, t) /\ Tells(f, s)
  BY DEF Continues

\* the rows of a confirmed payment, one at a time
LEMMA PathRows ==
  ASSUME NEW h \in Seq(Rows)
  PROVE  /\ h \o PathToSupplier("CANCELLED") = Append(h, <<"CANCELLED", "REFUND_PENDING">>)
         /\ h \o PathToSupplier("PAYMENT_PENDING") =
              Append(Append(h, <<"PAYMENT_PENDING", "PAID">>), <<"PAID", "AWAITING_CONFIRMATION">>)
         /\ h \o PathToSupplier("PENDING") =
              Append(Append(Append(h, <<"PENDING", "PAYMENT_PENDING">>),
                            <<"PAYMENT_PENDING", "PAID">>), <<"PAID", "AWAITING_CONFIRMATION">>)
<1>1. \A a \in Rows : h \o <<a>> = Append(h, a)
  OBVIOUS
<1>2. \A a, b \in Rows : h \o <<a, b>> = Append(Append(h, a), b)
  OBVIOUS
<1>3. \A a, b, d \in Rows : h \o <<a, b, d>> = Append(Append(Append(h, a), b), d)
  OBVIOUS
<1>4. /\ <<"CANCELLED", "REFUND_PENDING">> \in Rows /\ <<"PAYMENT_PENDING", "PAID">> \in Rows
      /\ <<"PAID", "AWAITING_CONFIRMATION">> \in Rows
      /\ <<"PENDING", "PAYMENT_PENDING">> \in Rows
  BY DEF Rows, OrderStatuses
<1>5. /\ PathToSupplier("CANCELLED") = <<<<"CANCELLED", "REFUND_PENDING">>>>
      /\ PathToSupplier("PAYMENT_PENDING") =
           <<<<"PAYMENT_PENDING", "PAID">>, <<"PAID", "AWAITING_CONFIRMATION">>>>
      /\ PathToSupplier("PENDING") =
           <<<<"PENDING", "PAYMENT_PENDING">>, <<"PAYMENT_PENDING", "PAID">>,
             <<"PAID", "AWAITING_CONFIRMATION">>>>
  BY DEF PathToSupplier
<1>6. h \o PathToSupplier("CANCELLED") = Append(h, <<"CANCELLED", "REFUND_PENDING">>)
  BY <1>1, <1>4, <1>5, ZenonT(30)
<1>7. h \o PathToSupplier("PAYMENT_PENDING") =
        Append(Append(h, <<"PAYMENT_PENDING", "PAID">>), <<"PAID", "AWAITING_CONFIRMATION">>)
  BY <1>2, <1>4, <1>5, ZenonT(30)
<1>8. h \o PathToSupplier("PENDING") =
        Append(Append(Append(h, <<"PENDING", "PAYMENT_PENDING">>),
                      <<"PAYMENT_PENDING", "PAID">>), <<"PAID", "AWAITING_CONFIRMATION">>)
  <2>1. \A b, d \in Rows :
          h \o <<<<"PENDING", "PAYMENT_PENDING">>, b, d>> =
            Append(Append(Append(h, <<"PENDING", "PAYMENT_PENDING">>), b), d)
    BY <1>3, <1>4, ZenonT(30)
  <2>2. h \o <<<<"PENDING", "PAYMENT_PENDING">>, <<"PAYMENT_PENDING", "PAID">>,
                <<"PAID", "AWAITING_CONFIRMATION">>>> =
          Append(Append(Append(h, <<"PENDING", "PAYMENT_PENDING">>),
                        <<"PAYMENT_PENDING", "PAID">>), <<"PAID", "AWAITING_CONFIRMATION">>)
    BY <1>4, <2>1, ZenonT(30)
  <2> QED  BY <1>5, <2>2, ZenonT(30)
<1> QED  BY <1>6, <1>7, <1>8

-----------------------------------------------------------------------------
(* Who writes history, and what a step may add to it. *)

Grown(o, h, s) ==
  /\ status' = [status EXCEPT ![o] = s] /\ history' = [history EXCEPT ![o] = h]
  /\ Continues(h, history[o], s)

HistoryMove ==
  \/ UNCHANGED <<status, history>>
  \/ \E o \in Orders, h \in Seq(Rows), s \in OrderStatuses : Grown(o, h, s)

LEMMA UpdateGrows ==
  ASSUME MoneyState, HistoryFaithful, NEW c \in Calls, UpdateApply(c)
  PROVE  \E h \in Seq(Rows), s \in OrderStatuses :
           Grown(call[c].order, h, s) /\ Tells(h, call[c].target)
<1> DEFINE o == call[c].order
           t == call[c].target
           g == Append(history[o], <<status[o], t>>)
<1>1. /\ At(c, "update") /\ status[o] = call[c].from
      /\ o \in Orders /\ t \in OrderStatuses
      /\ history[o] \in Seq(Rows) /\ status[o] \in OrderStatuses
  BY LocalsTyped DEF UpdateApply, StillThere, At, MoneyState, TypeOK, TablesTypeOK
<1>2. CanTransition(status[o], t) /\ (call[c].owes => t = "REJECTED")
  BY <1>1 DEF MoneyState, MoneyInv, LocalsGood, At
<1>3. Faithful(history[o], status[o])
  BY <1>1 DEF HistoryFaithful, Faithful
<1>4. Continues(g, history[o], t)
  BY <1>1, <1>2, <1>3, RowContinues
<1>5. CASE call[c].owes
  <2> DEFINE h == Append(g, <<"REJECTED", "REFUND_PENDING">>)
  <2>1. /\ status' = [status EXCEPT ![o] = "REFUND_PENDING"]
        /\ history' = [history EXCEPT ![o] = h]
    BY <1>1, <1>5 DEF UpdateApply
  <2>2. t = "REJECTED" /\ g \in Seq(Rows) /\ Faithful(g, t)
    BY <1>2, <1>4, <1>5 DEF Continues
  <2>3. CanTransition("REJECTED", "REFUND_PENDING") /\ "REFUND_PENDING" \in OrderStatuses
    BY DEF CanTransition, Transitions, OrderStatuses
  <2> HIDE DEF g
  <2>4. Continues(h, g, "REFUND_PENDING")
    BY <1>1, <2>2, <2>3, RowContinues
  <2> HIDE DEF h
  <2>5. /\ Continues(h, history[o], "REFUND_PENDING") /\ Tells(h, t)
        /\ h \in Seq(Rows) /\ "REFUND_PENDING" \in OrderStatuses
    BY <1>4, <2>4 DEF Continues
  <2> QED  BY <2>1, <2>5 DEF Grown
<1>6. CASE ~call[c].owes
  <2>1. status' = [status EXCEPT ![o] = t] /\ history' = [history EXCEPT ![o] = g]
    BY <1>1, <1>6 DEF UpdateApply
  <2>2. g \in Seq(Rows) /\ Tells(g, t)
    BY <1>4 DEF Continues
  <2> HIDE DEF g
  <2> QED  BY <1>1, <1>4, <2>1, <2>2 DEF Grown
<1> QED  BY <1>5, <1>6

LEMMA CheckoutGrows ==
  ASSUME MoneyState, HistoryFaithful, NEW c \in Calls, StoreCheckout(c)
  PROVE  HistoryMove
<1> DEFINE o == call[c].order
           g == Append(history[o], <<"PENDING", "PAYMENT_PENDING">>)
<1>1. o \in Orders /\ history[o] \in Seq(Rows)
  BY LocalsTyped DEF StoreCheckout, At, MoneyState, TypeOK, TablesTypeOK
<1>2. CASE MovesToPayment(o, call[c].from)
  <2>1. /\ status[o] = "PENDING" /\ status' = [status EXCEPT ![o] = "PAYMENT_PENDING"]
        /\ history' = [history EXCEPT ![o] = g]
    BY <1>1, <1>2 DEF StoreCheckout, MovesToPayment
  <2>2. Faithful(history[o], "PENDING")
    BY <1>1, <2>1 DEF HistoryFaithful, Faithful
  <2>3. /\ CanTransition("PENDING", "PAYMENT_PENDING")
        /\ "PENDING" \in OrderStatuses /\ "PAYMENT_PENDING" \in OrderStatuses
    BY DEF CanTransition, Transitions, OrderStatuses
  <2>4. Continues(g, history[o], "PAYMENT_PENDING")
    BY <1>1, <2>2, <2>3, RowContinues
  <2>5. g \in Seq(Rows)
    BY <2>4 DEF Continues
  <2> HIDE DEF g
  <2> QED  BY <1>1, <2>1, <2>3, <2>4, <2>5 DEF HistoryMove, Grown
<1>3. CASE ~MovesToPayment(o, call[c].from)
  BY <1>3 DEF StoreCheckout, HistoryMove
<1> QED  BY <1>2, <1>3

\* whatever a confirmation finds it may go on from, its rows are legal ones
LEMMA PathContinues ==
  ASSUME NEW h \in Seq(Rows), NEW from \in {"PENDING", "PAYMENT_PENDING", "CANCELLED"},
         Faithful(h, from)
  PROVE  Continues(h \o PathToSupplier(from), h,
                   IF from = "CANCELLED" THEN "REFUND_PENDING" ELSE "AWAITING_CONFIRMATION")
<1> DEFINE toPayment(g) == Append(g, <<"PENDING", "PAYMENT_PENDING">>)
           toPaid(g) == Append(g, <<"PAYMENT_PENDING", "PAID">>)
           toSupplier(g) == Append(g, <<"PAID", "AWAITING_CONFIRMATION">>)
<1>1. /\ CanTransition("PENDING", "PAYMENT_PENDING") /\ CanTransition("PAYMENT_PENDING", "PAID")
      /\ CanTransition("PAID", "AWAITING_CONFIRMATION")
      /\ CanTransition("CANCELLED", "REFUND_PENDING")
      /\ {"PENDING", "PAYMENT_PENDING", "PAID", "AWAITING_CONFIRMATION", "CANCELLED",
          "REFUND_PENDING"} \subseteq OrderStatuses
  BY DEF CanTransition, Transitions, OrderStatuses
<1>2. ASSUME NEW g \in Seq(Rows), Faithful(g, "PAYMENT_PENDING")
      PROVE  Continues(toSupplier(toPaid(g)), g, "AWAITING_CONFIRMATION")
  <2>1. Continues(toPaid(g), g, "PAID")
    BY <1>1, <1>2, RowContinues
  <2>2. toPaid(g) \in Seq(Rows) /\ Faithful(toPaid(g), "PAID")
    BY <2>1 DEF Continues
  <2> HIDE DEF toPaid
  <2>3. Continues(toSupplier(toPaid(g)), toPaid(g), "AWAITING_CONFIRMATION")
    BY <1>1, <2>2, RowContinues
  <2> QED  BY <2>1, <2>3, ContinuesOn
<1>3. CASE from = "CANCELLED"
  BY <1>1, <1>3, RowContinues, PathRows
<1>4. CASE from = "PAYMENT_PENDING"
  <2>1. h \o PathToSupplier(from) = toSupplier(toPaid(h))
    BY <1>4, PathRows
  <2> HIDE DEF toSupplier, toPaid
  <2> QED  BY <1>2, <1>4, <2>1
<1>5. CASE from = "PENDING"
  <2>1. h \o PathToSupplier(from) = toSupplier(toPaid(toPayment(h)))
    BY <1>5, PathRows
  <2>2. Continues(toPayment(h), h, "PAYMENT_PENDING")
    BY <1>1, <1>5, RowContinues
  <2>3. toPayment(h) \in Seq(Rows) /\ Faithful(toPayment(h), "PAYMENT_PENDING")
    BY <2>2 DEF Continues
  <2> HIDE DEF toSupplier, toPaid, toPayment
  <2>4. Continues(toSupplier(toPaid(toPayment(h))), toPayment(h), "AWAITING_CONFIRMATION")
    BY <1>2, <2>3
  <2>5. Continues(toSupplier(toPaid(toPayment(h))), h, "AWAITING_CONFIRMATION")
    BY <2>2, <2>4, ContinuesOn
  <2> QED  BY <1>5, <2>1, <2>5
<1> QED  BY <1>3, <1>4, <1>5

LEMMA SettleGrows ==
  ASSUME MoneyState, HistoryFaithful, NEW c \in Calls, SettlePayment(c)
  PROVE  HistoryMove
<1> DEFINE o == call[c].order
           from == call[c].saw
           h == history[o] \o PathToSupplier(from)
           s == IF from = "CANCELLED" THEN "REFUND_PENDING" ELSE "AWAITING_CONFIRMATION"
<1>1. o \in Orders /\ from \in OrderStatuses /\ history[o] \in Seq(Rows)
  BY LocalsTyped DEF SettlePayment, At, MoneyState, TypeOK, TablesTypeOK
<1>2. CASE UNCHANGED <<status, history, deducted, stock>>
  BY <1>2 DEF HistoryMove
<1>3. CASE ~Blocked(from) /\ status[o] = from /\ CarryOrderOn(o, from)
  <2>1. from \in {"PENDING", "PAYMENT_PENDING", "CANCELLED"}
    BY <1>1, <1>3, NotBlocked
  <2>2. status' = [status EXCEPT ![o] = s] /\ history' = [history EXCEPT ![o] = h]
    BY <1>1, <1>3, PathTyped DEF CarryOrderOn
  <2>3. Faithful(history[o], from)
    BY <1>1, <1>3 DEF HistoryFaithful, Faithful
  <2>4. Continues(h, history[o], s)
    BY <1>1, <2>1, <2>3, PathContinues
  <2>5. h \in Seq(Rows) /\ s \in OrderStatuses
    BY <2>4 DEF Continues
  <2> HIDE DEF h, s
  <2> QED  BY <1>1, <2>2, <2>4, <2>5 DEF HistoryMove, Grown
<1> QED  BY <1>2, <1>3 DEF SettlePayment

LEMMA RefundGrows ==
  ASSUME MoneyState, HistoryFaithful, NEW c \in Calls, RecordRefund(c)
  PROVE  HistoryMove
<1> DEFINE o == call[c].order
           g == Append(history[o], <<"REFUND_PENDING", "REFUNDED">>)
<1>1. /\ o \in Orders /\ history[o] \in Seq(Rows) /\ call[c].from = "REFUND_PENDING"
  BY LocalsTyped DEF RecordRefund, At, MoneyState, MoneyInv, LocalsGood, TypeOK, TablesTypeOK
<1>2. CASE UNCHANGED <<status, history>>
  BY <1>2 DEF HistoryMove
<1>3. CASE /\ status[o] = "REFUND_PENDING" /\ status' = [status EXCEPT ![o] = "REFUNDED"]
           /\ history' = [history EXCEPT ![o] = g]
  <2>1. Faithful(history[o], "REFUND_PENDING")
    BY <1>1, <1>3 DEF HistoryFaithful, Faithful
  <2>2. /\ CanTransition("REFUND_PENDING", "REFUNDED")
        /\ "REFUND_PENDING" \in OrderStatuses /\ "REFUNDED" \in OrderStatuses
    BY DEF CanTransition, Transitions, OrderStatuses
  <2>3. Continues(g, history[o], "REFUNDED")
    BY <1>1, <2>1, <2>2, RowContinues
  <2>4. g \in Seq(Rows)
    BY <2>3 DEF Continues
  <2> HIDE DEF g
  <2> QED  BY <1>1, <1>3, <2>2, <2>3, <2>4 DEF HistoryMove, Grown
<1> QED  BY <1>1, <1>2, <1>3 DEF RecordRefund

LEMMA EveryHistoryMove ==
  ASSUME MoneyState, HistoryFaithful, [Next]_vars
  PROVE  HistoryMove
<1>1. CASE UNCHANGED <<status, deducted, history>>
  BY <1>1 DEF HistoryMove
<1>2. ASSUME NEW c \in Calls, UpdateApply(c)
      PROVE  HistoryMove
  <2>1. call[c].order \in Orders
    BY <1>2, LocalsTyped DEF UpdateApply, At, MoneyState, TypeOK, TablesTypeOK
  <2> QED  BY <1>2, <2>1, UpdateGrows DEF HistoryMove
<1> QED  BY <1>1, <1>2, WhoMovesOrders, CheckoutGrows, SettleGrows, RefundGrows

LEMMA HistoryPreserved ==
  ASSUME MoneyState, HistoryFaithful, HistoryMove
  PROVE  HistoryFaithful'
<1>1. \A o \in Orders : Faithful(history[o], status[o])
  BY DEF HistoryFaithful, Faithful
<1>2. status \in [Orders -> OrderStatuses] /\ history \in [Orders -> Seq(Rows)]
  BY DEF MoneyState, TypeOK, TablesTypeOK
<1>3. \A o \in Orders : Faithful(history'[o], status'[o])
  <2>1. CASE UNCHANGED <<status, history>>
    BY <1>1, <2>1
  <2>2. ASSUME NEW o \in Orders, NEW h \in Seq(Rows), NEW s \in OrderStatuses, Grown(o, h, s)
        PROVE  \A p \in Orders : Faithful(history'[p], status'[p])
    <3>1. history'[o] = h /\ status'[o] = s /\ Faithful(h, s)
      BY <1>2, <2>2 DEF Grown, Continues
    <3>2. \A p \in Orders : p # o => history'[p] = history[p] /\ status'[p] = status[p]
      BY <1>2, <2>2 DEF Grown
    <3> QED  BY <1>1, <3>1, <3>2
  <2> QED  BY <2>1, <2>2 DEF HistoryMove
<1> QED  BY <1>3 DEF HistoryFaithful, Faithful

(* The history of an order is the legal path it took, without a gap or a branch,
   and ends where the order is: the conditional UPDATE of changeStatus and the
   moves of a confirmation never both build on the same status. *)
THEOREM HistoriesAreFaithful == Spec => []HistoryFaithful
<1>1. Init => HistoryFaithful
  <2>1. ASSUME Init, NEW o \in Orders
        PROVE  history[o] = <<<<"NONE", "PENDING">>>> /\ status[o] = "PENDING"
    BY <2>1 DEF Init, TablesInit
  <2> QED  BY <2>1 DEF HistoryFaithful
<1>2. MoneyState /\ HistoryFaithful /\ [Next]_vars => HistoryFaithful'
  BY EveryHistoryMove, HistoryPreserved
<1>3. Spec => []MoneyState
  BY MoneyInvInitially, MoneyInvPreserved, PTL DEF Spec
<1> QED  BY <1>1, <1>2, <1>3, PTL DEF Spec

-----------------------------------------------------------------------------
(* How a request gets to the steps that rely on what it read before. *)
LEMMA Enters ==
  ASSUME TypeOK, NEW c \in Calls, StepOf(c)
  PROVE  /\ call'[c].pc = "notify" => UpdateApply(c)
         /\ call'[c].pc = "update" =>
              \E o \in Orders, t \in OrderStatuses, a \in OrderActors : UpdateRead(c, o, t, a)
         /\ call'[c].pc = "checkout" =>
              \E o \in Orders, r \in Refs : InitializePayment(c, o, r)
<1> DEFINE pc == call'[c].pc
           Watched == {"notify", "update", "checkout"}
<1>1. /\ \A local : Become(c, local) => call'[c] = local
      /\ Return(c) => pc \notin Watched
      /\ At(c, "idle") /\ UNCHANGED call => pc \notin Watched
  BY DEF Become, Return, Idle, At, TypeOK, TablesTypeOK
<1>2. \A o \in Orders, t \in OrderStatuses, a \in OrderActors :
        UpdateRead(c, o, t, a) => pc = "update"
  BY <1>1 DEF UpdateRead
<1>3. \A o \in Orders, r \in Refs : InitializePayment(c, o, r) => pc = "checkout"
  BY <1>1 DEF InitializePayment
<1>4. \A o \in Orders : RefundRead(c, o) => pc \notin Watched
  BY <1>1 DEF RefundRead
<1>5. \A r \in Refs, hook \in BOOLEAN : LookupPayment(c, r, hook) => pc \notin Watched
  BY <1>1 DEF LookupPayment
<1>6. UpdateApply(c) => pc \notin {"update", "checkout"}
  BY <1>1 DEF UpdateApply
<1>7. UpdateConflict(c) \/ Notify(c) \/ Abandon(c) => pc \notin Watched
  BY <1>1 DEF UpdateConflict, AfterConflict, Notify, Abandon
<1>8. PaymentsStep(c) => pc \notin Watched
  <2>1. VerifyTransaction(c) => pc \notin Watched
    BY <1>1 DEF VerifyTransaction, Rollback
  <2>2. StoreCheckout(c) \/ RecordUnpaid(c) => pc \notin Watched
    BY <1>1 DEF StoreCheckout, RecordUnpaid
  <2>6. ClaimPayment(c) => pc \notin Watched
    BY <1>1 DEF ClaimPayment
  <2>3. SettlePayment(c) \/ SettleConflict(c) => pc \notin Watched
    BY <1>1 DEF SettlePayment, SettleConflict, Rollback
  <2>4. RefundRefused(c) \/ RecordRefund(c) => pc \notin Watched
    BY <1>1 DEF RefundRefused, RecordRefund
  <2>5. RefundAccepted(c) => pc \notin Watched
    <3>1. RefundAccepted(c) => call[c] \in InFlight
      BY DEF RefundAccepted, At, Idle, TypeOK, TablesTypeOK
    <3>2. call[c] \in InFlight /\ call[c].pc = "refund" => [call[c] EXCEPT !.pc = "refunded"].pc = "refunded"
      BY DEF InFlight
    <3> QED  BY <1>1, <3>1, <3>2 DEF RefundAccepted, At
  <2> QED  BY <2>1, <2>2, <2>3, <2>4, <2>5, <2>6 DEF PaymentsStep
<1>9. Request(c) =>
        \/ pc \notin Watched
        \/ pc = "update" /\ \E o \in Orders, t \in OrderStatuses, a \in OrderActors :
                              UpdateRead(c, o, t, a)
        \/ pc = "checkout" /\ \E o \in Orders, r \in Refs : InitializePayment(c, o, r)
  BY <1>2, <1>3, <1>4, <1>5 DEF Request
<1> HIDE DEF pc
<1>10. /\ pc = "notify" => UpdateApply(c)
       /\ pc = "update" =>
            \E o \in Orders, t \in OrderStatuses, a \in OrderActors : UpdateRead(c, o, t, a)
       /\ pc = "checkout" => \E o \in Orders, r \in Refs : InitializePayment(c, o, r)
  BY <1>5, <1>6, <1>7, <1>8, <1>9 DEF StepOf, Webhook, Handle, OrdersStep
<1> QED  BY <1>10 DEF pc

\* no step makes a history forget a status it told of
LEMMA HistoryTells ==
  ASSUME MoneyState, HistoryMove, NEW o \in Orders, NEW t \in OrderStatuses,
         Tells(history[o], t)
  PROVE  Tells(history'[o], t)
<1>1. history \in [Orders -> Seq(Rows)]
  BY DEF MoneyState, TypeOK, TablesTypeOK
<1>2. CASE UNCHANGED <<status, history>>
  BY <1>2
<1>3. ASSUME NEW p \in Orders, NEW h \in Seq(Rows), NEW s \in OrderStatuses, Grown(p, h, s)
      PROVE  Tells(history'[o], t)
  <2>1. CASE p = o
    BY <1>1, <1>3, <2>1 DEF Grown, Continues
  <2>2. CASE p # o
    BY <1>1, <1>3, <2>2 DEF Grown
  <2> QED  BY <2>1, <2>2
<1> QED  BY <1>2, <1>3 DEF HistoryMove

LEMMA WhoWritesNotices ==
  ASSUME [Next]_vars
  PROVE  UNCHANGED notices \/ \E c \in Calls : Notify(c)
<1>1. ASSUME NEW c \in Calls, Request(c) \/ (\E r \in Refs : Webhook(c, r)) \/ Abandon(c)
      PROVE  UNCHANGED notices
  BY <1>1 DEF Request, Webhook, UpdateRead, InitializePayment, LookupPayment, RefundRead,
              Abandon, tableVars
<1>2. ASSUME NEW c \in Calls, PaymentsStep(c) \/ UpdateApply(c) \/ UpdateConflict(c)
      PROVE  UNCHANGED notices
  BY <1>2 DEF PaymentsStep, StoreCheckout, VerifyTransaction, RecordUnpaid, ClaimPayment,
              SettlePayment, SettleConflict, RefundAccepted, RefundRefused, RecordRefund,
              UpdateApply, UpdateConflict, tableVars
<1>3. ASSUME NEW r \in Refs, Buyer(r)
      PROVE  UNCHANGED notices
  BY <1>3 DEF Buyer, tableVars
<1>4. UNCHANGED vars => UNCHANGED notices
  BY DEF vars, tableVars
<1> QED  BY <1>1, <1>2, <1>3, <1>4 DEF Next, Handle, OrdersStep

\* a request that is about to tell of a status has seen it committed
WillTell(c) == At(c, "notify") => Tells(history[call[c].order], call[c].target)

NoticesInv == NoticesAreTrue /\ \A c \in Calls : WillTell(c)

LEMMA NoticesPreserved ==
  ASSUME MoneyState, HistoryFaithful, NoticesInv, [Next]_vars
  PROVE  NoticesInv'
<1> USE DEF MoneyState, TypeOK, TablesTypeOK
<1>0. HistoryMove
  BY EveryHistoryMove
<1>1. NoticesAreTrue'
  <2>1. ASSUME NEW n \in notices
        PROVE  Tells(history'[n.order], n.about)
    <3>1. n.order \in Orders /\ n.about \in OrderStatuses /\ Tells(history[n.order], n.about)
      BY DEF Notices, NoticesInv, NoticesAreTrue, Tells
    <3> HIDE DEF MoneyState
    <3> QED  BY <1>0, <3>1, HistoryTells
  <2>2. ASSUME NEW c \in Calls, Notify(c)
        PROVE  NoticesAreTrue'
    <3>1. /\ UNCHANGED history /\ Tells(history[call[c].order], call[c].target)
          /\ \A n \in notices' :
               n \notin notices => n.order = call[c].order /\ n.about = call[c].target
      BY <2>2 DEF Notify, NoticesInv, WillTell, At
    <3>2. \A n \in notices' : Tells(history'[n.order], n.about)
      BY <2>1, <3>1
    <3> QED  BY <3>2 DEF NoticesAreTrue, Tells
  <2>3. CASE UNCHANGED notices
    BY <2>1, <2>3 DEF NoticesAreTrue, Tells
  <2> QED  BY <2>2, <2>3, WhoWritesNotices
<1>2. ASSUME NEW d \in Calls, call'[d] = call[d]
      PROVE  WillTell(d)'
  <2>1. At(d, "notify") =>
          /\ call[d].order \in Orders /\ call[d].target \in OrderStatuses
          /\ Tells(history[call[d].order], call[d].target)
    BY LocalsTyped DEF NoticesInv, WillTell, At
  <2> HIDE DEF MoneyState
  <2>2. At(d, "notify") => Tells(history'[call[d].order], call[d].target)
    BY <1>0, <2>1, HistoryTells
  <2> QED  BY <1>2, <2>2 DEF WillTell, At
<1>3. ASSUME NEW c \in Calls, StepOf(c), NEW d \in Calls
      PROVE  WillTell(d)'
  <2>1. CASE d # c
    BY <1>2, <1>3, <2>1, OneSlot
  <2>2. CASE d = c /\ ~UpdateApply(c)
    BY <1>3, <2>2, Enters DEF WillTell, At
  <2>3. CASE d = c /\ UpdateApply(c)
    <3>1. PICK h \in Seq(Rows), s \in OrderStatuses :
            Grown(call[c].order, h, s) /\ Tells(h, call[c].target)
      BY <2>3, UpdateGrows
    <3>2. call[c].order \in Orders
      BY <2>3, LocalsTyped DEF UpdateApply, At
    <3>3. Tells(history'[call[c].order], call[c].target)
      BY <3>1, <3>2 DEF Grown
    <3>4. At(c, "notify")' => call'[c].order = call[c].order /\ call'[c].target = call[c].target
      BY <2>3 DEF UpdateApply, Become, Return, Idle, At
    <3> QED  BY <2>3, <3>3, <3>4 DEF WillTell
  <2> QED  BY <2>1, <2>2, <2>3
<1>4. ASSUME UNCHANGED call, NEW d \in Calls
      PROVE  WillTell(d)'
  BY <1>2, <1>4
<1>5. \A d \in Calls : WillTell(d)'
  BY <1>3, <1>4 DEF Next, StepOf, Buyer, vars
<1> QED  BY <1>1, <1>5 DEF NoticesInv

(* Whoever is told of a status can read it in the order's history, whatever became
   of the order since: notifyStatusChange runs after the commit, and only then. *)
THEOREM NoticesTellTheTruth == Spec => []NoticesAreTrue
<1>1. Init => NoticesInv
  BY DEF Init, TablesInit, NoticesInv, NoticesAreTrue, WillTell, At, Idle
<1>2. MoneyState /\ HistoryFaithful /\ NoticesInv /\ [Next]_vars => NoticesInv'
  BY NoticesPreserved
<1>3. Spec => []MoneyState
  BY MoneyInvInitially, MoneyInvPreserved, PTL DEF Spec
<1>4. NoticesInv => NoticesAreTrue
  BY DEF NoticesInv
<1> QED  BY <1>1, <1>2, <1>3, <1>4, HistoriesAreFaithful, PTL DEF Spec

-----------------------------------------------------------------------------
(* A payment that was settled and is not any more: only a checkout does that. *)
LEMMA UnsettledBy ==
  ASSUME TypeOK, [Next]_vars, NEW o \in Orders,
         payment[o].status \in Settled, payment'[o].status \notin Settled
  PROVE  \E c \in Calls : StoreCheckout(c) /\ call[c].order = o
<1>1. /\ payment \in [Orders -> Payments] /\ call \in [Calls -> InFlight \cup {Idle}]
      /\ payment'[o] # payment[o]
  BY DEF TypeOK, TablesTypeOK
<1>2. ASSUME NEW c \in Calls, RecordUnpaid(c)
      PROVE  FALSE
  <2>1. call[c].order = o /\ MayRecordUnpaid(o, call[c].ref)
    BY <1>1, <1>2 DEF RecordUnpaid
  <2> QED  BY <2>1 DEF MayRecordUnpaid
<1>3. ASSUME NEW c \in Calls, SettlePayment(c)
      PROVE  FALSE
  <2>1. payment' = [payment EXCEPT ![call[c].order] = PaidThrough(call[c].order, call[c].ref)]
    BY <1>3 DEF SettlePayment
  <2>2. payment'[o] = PaidThrough(o, call[c].ref)
    BY <1>1, <2>1
  <2> QED  BY <2>2 DEF PaidThrough, Settled
<1>4. ASSUME NEW c \in Calls, RecordRefund(c)
      PROVE  FALSE
  <2>1. payment' = [payment EXCEPT ![call[c].order].status = "REFUNDED"] /\ call[c].order = o
    BY <1>1, <1>4 DEF RecordRefund
  <2>2. payment[o] \in Payments /\ payment'[o] = [payment[o] EXCEPT !.status = "REFUNDED"]
    BY <1>1, <2>1
  <2>3. payment'[o].status = "REFUNDED"
    BY <2>2 DEF Payments
  <2> QED  BY <2>3 DEF Settled
<1>5. ASSUME NEW c \in Calls, StoreCheckout(c)
      PROVE  call[c].order = o
  BY <1>1, <1>5 DEF StoreCheckout
<1> QED  BY <1>1, <1>2, <1>3, <1>4, <1>5, WhoWritesPayments

\* a request that takes no step stays where it is
LEMMA Untouched ==
  ASSUME TypeOK, [Next]_vars, NEW d \in Calls, ~StepOf(d)
  PROVE  call'[d] = call[d]
<1>1. CASE \E c \in Calls : StepOf(c)
  BY <1>1, OneSlot
<1>2. CASE UNCHANGED call
  BY <1>2
<1> QED  BY <1>1, <1>2 DEF Next, StepOf, Buyer, vars

LEMMA FinalStays ==
  ASSUME MoneyState, [Next]_vars, NEW o \in Orders, Final(o)
  PROVE  Final(o)'
<1>1. payment'[o].status \in Settled
  BY UnsettledBy DEF Final, CheckingOut, StoreCheckout, MoneyState
<1>2. status[o] \notin Payable \/ payment[o].status = "SUCCESS"
  BY DEF Final, Settled, Payable, MoneyState, MoneyInv, PaidOrderGoesOn
<1>3. ASSUME NEW c \in Calls, call'[c].pc = "checkout", call'[c].order = o
      PROVE  FALSE
  <2>1. call'[c] # call[c]
    BY <1>3 DEF Final, CheckingOut, At
  <2>2. StepOf(c)
    BY <2>1, Untouched DEF MoneyState
  <2>3. PICK p \in Orders, r \in Refs : InitializePayment(c, p, r)
    BY <1>3, <2>2, Enters DEF MoneyState
  <2>4. call'[c] = [pc |-> "checkout", order |-> p, from |-> status[p], ref |-> r]
    BY <2>3 DEF InitializePayment, Become, MoneyState, TypeOK, TablesTypeOK
  <2>5. p = o
    BY <1>3, <2>4
  <2> QED  BY <1>2, <2>3, <2>5 DEF InitializePayment
<1> QED  BY <1>1, <1>3 DEF Final, CheckingOut, At

(* Verified again, early, late or repeatedly, a settled payment is left alone, and
   initializePayment lets nobody begin a checkout on it: once the checkouts that
   read the order before it settled have ended, nothing undoes it. *)
THEOREM SettledForGood == Spec => SettledIsFinal
<1>1. MoneyState /\ [Next]_vars => [\A o \in Orders : Final(o) => Final(o)']_vars
  BY FinalStays
<1>2. Spec => []MoneyState
  BY MoneyInvInitially, MoneyInvPreserved, PTL DEF Spec
<1> QED  BY <1>1, <1>2, PTL DEF Spec, SettledIsFinal

-----------------------------------------------------------------------------
(* Why an order moves: one of four steps, from a status that step relies on. *)

AskedToMove(c, o) ==
  /\ UpdateApply(c) /\ UNCHANGED providerVars
  /\ CanTransition(status[o], call[c].target)
  /\ AllowedActors(status[o], call[c].target) # {}
  /\ call[c].owes => call[c].target = "REJECTED"
  /\ status'[o] = IF call[c].owes THEN "REFUND_PENDING" ELSE call[c].target

CheckedOut(c, o) ==
  StoreCheckout(c) /\ status[o] = "PENDING" /\ status'[o] = "PAYMENT_PENDING"

PaidFor(c, o) ==
  /\ SettlePayment(c) /\ Took(call[c].ref, o) /\ call[c].ref \in Refs
  /\ \/ status[o] \in Payable /\ status'[o] = "AWAITING_CONFIRMATION"
     \/ status[o] = "CANCELLED" /\ status'[o] = "REFUND_PENDING"

PaidBack(c, o) ==
  /\ RecordRefund(c) /\ Took(call[c].ref, o) /\ call[c].ref \in Refs
  /\ txn[call[c].ref].state = "refunded"
  /\ status[o] = "REFUND_PENDING" /\ status'[o] = "REFUNDED"

LEMMA MovedBy ==
  ASSUME MoneyState, [Next]_vars, NEW o \in Orders, status'[o] # status[o]
  PROVE  \E c \in Calls :
           /\ call[c].order = o
           /\ AskedToMove(c, o) \/ CheckedOut(c, o) \/ PaidFor(c, o) \/ PaidBack(c, o)
<1>1. /\ status \in [Orders -> OrderStatuses] /\ call \in [Calls -> InFlight \cup {Idle}]
      /\ \A c \in Calls : LocalsGood(c)
  BY DEF MoneyState, MoneyInv, TypeOK, TablesTypeOK
<1>2. ASSUME NEW c \in Calls, UpdateApply(c), UNCHANGED providerVars
      PROVE  call[c].order = o /\ AskedToMove(c, o)
  <2>1. /\ \/ status' = [status EXCEPT ![call[c].order] = "REFUND_PENDING"] /\ call[c].owes
           \/ status' = [status EXCEPT ![call[c].order] = call[c].target] /\ ~call[c].owes
        /\ At(c, "update") /\ status[call[c].order] = call[c].from
    BY <1>2 DEF UpdateApply, StillThere
  <2>2. call[c].order = o
    BY <1>1, <2>1
  <2>3. status'[o] = IF call[c].owes THEN "REFUND_PENDING" ELSE call[c].target
    BY <1>1, <2>1, <2>2
  <2>4. /\ CanTransition(status[o], call[c].target)
        /\ AllowedActors(status[o], call[c].target) # {}
        /\ call[c].owes => call[c].target = "REJECTED"
    BY <1>1, <2>1, <2>2 DEF LocalsGood, At
  <2> QED  BY <1>2, <2>2, <2>3, <2>4 DEF AskedToMove
<1>3. ASSUME NEW c \in Calls, StoreCheckout(c)
      PROVE  call[c].order = o /\ CheckedOut(c, o)
  <2>1. /\ status' = [status EXCEPT ![call[c].order] = "PAYMENT_PENDING"]
        /\ status[call[c].order] = "PENDING"
    BY <1>3 DEF StoreCheckout, MovesToPayment
  <2> QED  BY <1>1, <1>3, <2>1 DEF CheckedOut
<1>4. ASSUME NEW c \in Calls, SettlePayment(c)
      PROVE  call[c].order = o /\ PaidFor(c, o)
  <2>1. /\ call[c].saw \in OrderStatuses /\ call[c].ref \in Refs
        /\ Took(call[c].ref, call[c].order)
    BY <1>1, <1>4, LocalsTyped DEF SettlePayment, At, LocalsGood
  <2>2. /\ ~Blocked(call[c].saw) /\ status[call[c].order] = call[c].saw
        /\ CarryOrderOn(call[c].order, call[c].saw)
    BY <1>4 DEF SettlePayment
  <2>3. call[c].saw \in {"PENDING", "PAYMENT_PENDING", "CANCELLED"}
    BY <2>1, <2>2, NotBlocked
  <2>4. status' = [status EXCEPT ![call[c].order] = IF call[c].saw = "CANCELLED"
                                 THEN "REFUND_PENDING" ELSE "AWAITING_CONFIRMATION"]
    BY <2>1, <2>2, PathTyped DEF CarryOrderOn
  <2>5. call[c].order = o
    BY <1>1, <2>4
  <2> QED  BY <1>1, <1>4, <2>1, <2>2, <2>3, <2>4, <2>5 DEF PaidFor, Payable
<1>5. ASSUME NEW c \in Calls, RecordRefund(c)
      PROVE  call[c].order = o /\ PaidBack(c, o)
  <2>1. /\ status' = [status EXCEPT ![call[c].order] = "REFUNDED"]
        /\ status[call[c].order] = call[c].from
    BY <1>5 DEF RecordRefund
  <2>2. /\ call[c].ref \in Refs /\ Took(call[c].ref, call[c].order)
        /\ call[c].from = "REFUND_PENDING" /\ txn[call[c].ref].state = "refunded"
    BY <1>1, <1>5, LocalsTyped DEF RecordRefund, At, LocalsGood
  <2>3. call[c].order = o
    BY <1>1, <2>1
  <2> QED  BY <1>1, <1>5, <2>1, <2>2, <2>3 DEF PaidBack
<1> QED  BY <1>2, <1>3, <1>4, <1>5, WhoMovesOrders

-----------------------------------------------------------------------------
(* What a rejection knows of the money. *)

LEMMA WhoFlags ==
  ASSUME [Next]_vars
  PROVE  UNCHANGED flagged \/ \E c \in Calls : SettlePayment(c)
<1>1. ASSUME NEW c \in Calls, Request(c) \/ (\E r \in Refs : Webhook(c, r)) \/ Abandon(c)
      PROVE  UNCHANGED flagged
  BY <1>1 DEF Request, Webhook, UpdateRead, InitializePayment, LookupPayment, RefundRead,
              Abandon, tableVars
<1>2. ASSUME NEW c \in Calls, PaymentsStep(c), ~SettlePayment(c)
      PROVE  UNCHANGED flagged
  BY <1>2 DEF PaymentsStep, StoreCheckout, VerifyTransaction, RecordUnpaid, ClaimPayment,
              SettleConflict, RefundAccepted, RefundRefused, RecordRefund, tableVars
<1>3. ASSUME NEW c \in Calls, OrdersStep(c)
      PROVE  UNCHANGED flagged
  BY <1>3 DEF OrdersStep, UpdateApply, UpdateConflict, Notify, tableVars
<1>4. ASSUME NEW r \in Refs, Buyer(r)
      PROVE  UNCHANGED flagged
  BY <1>4 DEF Buyer, tableVars
<1>5. UNCHANGED vars => UNCHANGED flagged
  BY DEF vars, tableVars
<1> QED  BY <1>1, <1>2, <1>3, <1>4, <1>5 DEF Next, Handle

\* a confirmation that does not carry its order on has it looked at
LEMMA SettleFlags ==
  ASSUME MoneyState, NEW c \in Calls, SettlePayment(c), NEW o \in Orders
  PROVE  /\ flagged[o] => flagged'[o]
         /\ call[c].order = o =>
              flagged'[o] \/ status[o] \in {"PENDING", "PAYMENT_PENDING", "CANCELLED"}
<1>1. flagged \in [Orders -> BOOLEAN] /\ call[c].saw \in OrderStatuses
  BY LocalsTyped DEF SettlePayment, At, MoneyState, TypeOK, TablesTypeOK
<1>2. CASE Blocked(call[c].saw) /\ flagged' = [flagged EXCEPT ![call[c].order] = TRUE]
  BY <1>1, <1>2
<1>3. CASE /\ ~Blocked(call[c].saw) /\ status[call[c].order] = call[c].saw
           /\ UNCHANGED flagged
  BY <1>1, <1>3, NotBlocked
<1> QED  BY <1>2, <1>3 DEF SettlePayment

LEMMA FlagsStay ==
  ASSUME MoneyState, [Next]_vars, NEW o \in Orders, flagged[o]
  PROVE  flagged'[o]
<1>1. ASSUME UNCHANGED flagged
      PROVE  flagged'[o]
  BY <1>1
<1> QED  BY <1>1, WhoFlags, SettleFlags

\* a payment that comes to count after its order was sold has been flagged
LEMMA CountsLate ==
  ASSUME MoneyState, [Next]_vars, NEW o \in Orders,
         payment[o].status # "SUCCESS", payment'[o].status = "SUCCESS",
         status[o] \notin {"PENDING", "PAYMENT_PENDING", "CANCELLED"}
  PROVE  flagged'[o]
<1>1. /\ payment \in [Orders -> Payments] /\ call \in [Calls -> InFlight \cup {Idle}]
  BY DEF MoneyState, TypeOK, TablesTypeOK
<1>2. PICK c \in Calls : \/ StoreCheckout(c) \/ RecordUnpaid(c)
                         \/ SettlePayment(c) \/ RecordRefund(c)
  BY WhoWritesPayments
<1>3. call[c].order = o
  BY <1>1, <1>2 DEF StoreCheckout, RecordUnpaid, SettlePayment, RecordRefund
<1>4. CASE StoreCheckout(c)
  <2>1. payment' = [payment EXCEPT ![o] = [status |-> "PENDING", ref |-> call[c].ref]]
    BY <1>3, <1>4 DEF StoreCheckout
  <2> QED  BY <1>1, <2>1
<1>5. CASE RecordUnpaid(c)
  <2>1. payment' = [payment EXCEPT ![o].status = call[c].outcome]
    BY <1>3, <1>5 DEF RecordUnpaid
  <2>2. call[c].outcome \in {"FAILED", "ABANDONED"}
    BY <1>5, LocalsTyped DEF RecordUnpaid, At, MoneyState, TypeOK, TablesTypeOK
  <2>3. payment[o] \in Payments /\ payment'[o] = [payment[o] EXCEPT !.status = call[c].outcome]
    BY <1>1, <2>1
  <2> QED  BY <2>2, <2>3 DEF Payments
<1>6. CASE RecordRefund(c)
  <2>1. payment' = [payment EXCEPT ![o].status = "REFUNDED"]
    BY <1>3, <1>6 DEF RecordRefund
  <2>2. payment[o] \in Payments /\ payment'[o] = [payment[o] EXCEPT !.status = "REFUNDED"]
    BY <1>1, <2>1
  <2> QED  BY <2>2 DEF Payments
<1>7. CASE SettlePayment(c)
  BY <1>3, <1>7, SettleFlags
<1> QED  BY <1>2, <1>4, <1>5, <1>6, <1>7

\* a rejection that owes nothing read no payment that counts, and if one counts now
\* it has been flagged
OwesNothing(c) ==
  At(c, "update") /\ call[c].target = "REJECTED" /\ ~call[c].owes
    /\ status[call[c].order] = call[c].from /\ payment[call[c].order].status = "SUCCESS" =>
      flagged[call[c].order]

RejectedInv == RejectedIsOwedOrFlagged /\ \A c \in Calls : OwesNothing(c)

LEMMA RejectionsKnow ==
  ASSUME MoneyState, RejectedInv, [Next]_vars, NEW d \in Calls
  PROVE  OwesNothing(d)'
<1>1. ASSUME NEW o \in Orders, NEW t \in OrderStatuses, NEW a \in OrderActors,
             UpdateRead(d, o, t, a)
      PROVE  OwesNothing(d)'
  <2>1. call'[d] = [pc |-> "update", order |-> o, from |-> status[o], target |-> t,
                    restores |-> RestoresStock(o, t), owes |-> OwesRefund(o, t)]
    BY <1>1 DEF UpdateRead, Become, MoneyState, TypeOK, TablesTypeOK
  <2>2. UNCHANGED payment
    BY <1>1 DEF UpdateRead, tableVars
  <2>3. call'[d].owes <=> t = "REJECTED" /\ payment[o].status = "SUCCESS"
    <3>1. call'[d].owes = OwesRefund(o, t)
      BY <2>1
    <3> QED  BY <3>1, Zenon DEF OwesRefund
  <2>4. call'[d].order = o /\ call'[d].target = t
    BY <2>1
  <2> QED  BY <2>2, <2>3, <2>4 DEF OwesNothing
<1>2. CASE StepOf(d)
  <2>1. call'[d].pc # "update" => OwesNothing(d)'
    BY DEF OwesNothing, At
  <2> QED  BY <1>1, <1>2, <2>1, Enters DEF MoneyState
<1>3. CASE ~StepOf(d)
  <2>1. SUFFICES ASSUME call'[d].pc = "update", call'[d].target = "REJECTED", ~call'[d].owes,
                        status'[call'[d].order] = call'[d].from,
                        payment'[call'[d].order].status = "SUCCESS"
                 PROVE  flagged'[call'[d].order]
    BY DEF OwesNothing, At
  <2>2. call'[d] = call[d]
    BY <1>3, Untouched DEF MoneyState
  <2>3. call[d].order \in Orders /\ At(d, "update")
    BY <2>1, <2>2, LocalsTyped DEF At, MoneyState, TypeOK, TablesTypeOK
  <2> PICK o \in Orders : o = call[d].order
    BY <2>3
  <2>4. call[d].from = "AWAITING_CONFIRMATION" /\ StillPast(call[d].from, o)
    BY <2>1, <2>2, <2>3 DEF At, MoneyState, MoneyInv, LocalsGood, CanTransition, Transitions
  <2>5. status[o] = "AWAITING_CONFIRMATION"
    BY <2>1, <2>2, <2>4, EveryOrderMove, OrdersAdvance DEF StillPast, Past, Payable, OrderStatuses
  <2>6. CASE payment[o].status = "SUCCESS"
    <3>1. flagged[o]
      BY <2>1, <2>2, <2>3, <2>4, <2>5, <2>6 DEF RejectedInv, OwesNothing
    <3> QED  BY <2>2, <3>1, FlagsStay
  <2>7. CASE payment[o].status # "SUCCESS"
    BY <2>1, <2>2, <2>5, <2>7, CountsLate
  <2> QED  BY <2>6, <2>7
<1> QED  BY <1>2, <1>3

LEMMA RejectedPreserved ==
  ASSUME MoneyState, RejectedInv, [Next]_vars
  PROVE  RejectedInv'
<1>1. ASSUME NEW o \in Orders, status'[o] = "REJECTED", payment'[o].status = "SUCCESS"
      PROVE  flagged'[o]
  <2>1. CASE status[o] = "REJECTED" /\ payment[o].status = "SUCCESS"
    BY <2>1, FlagsStay DEF RejectedInv, RejectedIsOwedOrFlagged
  <2>2. CASE status[o] = "REJECTED" /\ payment[o].status # "SUCCESS"
    BY <1>1, <2>2, CountsLate
  <2>3. CASE status[o] # "REJECTED"
    <3>1. PICK c \in Calls :
            /\ call[c].order = o
            /\ AskedToMove(c, o) \/ CheckedOut(c, o) \/ PaidFor(c, o) \/ PaidBack(c, o)
      BY <1>1, <2>3, MovedBy
    <3>2. AskedToMove(c, o)
      BY <1>1, <3>1 DEF CheckedOut, PaidFor, PaidBack
    <3>3. /\ At(c, "update") /\ call[c].target = "REJECTED" /\ ~call[c].owes
          /\ status[o] = call[c].from /\ UNCHANGED <<payment, flagged>>
      BY <1>1, <3>1, <3>2 DEF AskedToMove, UpdateApply, StillThere
    <3> QED  BY <1>1, <3>1, <3>3 DEF RejectedInv, OwesNothing
  <2> QED  BY <2>1, <2>2, <2>3
<1> QED  BY <1>1, RejectionsKnow DEF RejectedInv, RejectedIsOwedOrFlagged

(* However its rejection interleaves with confirmations and checkouts, an order is
   never left REJECTED beside a payment that counts, unless that payment came through
   another link after the order was sold, and then it was noted for manual review. *)
THEOREM RejectedMoneyIsSeen == Spec => []RejectedIsOwedOrFlagged
<1>1. Init => RejectedInv
  BY DEF Init, TablesInit, RejectedInv, RejectedIsOwedOrFlagged, OwesNothing, At, Idle
<1>2. MoneyState /\ RejectedInv /\ [Next]_vars => RejectedInv'
  BY RejectedPreserved
<1>3. Spec => []MoneyState
  BY MoneyInvInitially, MoneyInvPreserved, PTL DEF Spec
<1>4. RejectedInv => RejectedIsOwedOrFlagged
  BY DEF RejectedInv
<1> QED  BY <1>1, <1>2, <1>3, <1>4, PTL DEF Spec

-----------------------------------------------------------------------------
(* Money that went back. *)

\* money of this order went back, so a refund was owed; and a refund that is
\* recorded is one of money that went back, or was closed by hand
Repaid(o) ==
  /\ MoneyReturned(o) => status[o] \in Refunding
  /\ status[o] = "REFUNDED" => MoneyReturned(o) \/ o \in byHand
  /\ o \in byHand => status[o] = "REFUNDED"

RepaidInv == byHand \subseteq Orders /\ \A o \in Orders : Repaid(o)

LEMMA RefundedBy ==
  ASSUME MoneyState, [Next]_vars, NEW r \in Refs,
         txn'[r].state = "refunded", txn[r].state # "refunded"
  PROVE  /\ txn[r].state = "paid" /\ txn'[r].order = txn[r].order
         /\ status[txn[r].order] \in Refunding
         /\ UNCHANGED status
<1>1. /\ txn \in [Refs -> Txns] /\ call \in [Calls -> InFlight \cup {Idle}]
      /\ \A c \in Calls : LocalsGood(c)
  BY DEF MoneyState, MoneyInv, TypeOK, PaystackTypeOK, TablesTypeOK
<1>2. txn[r].state = "paid" /\ txn'[r].order = txn[r].order
  <2>1. PICK q \in Refs, t \in Txns : TxnMoved(q, t)
    BY EveryTxnMove DEF TxnMove
  <2>2. q = r /\ txn'[r] = t
    BY <1>1, <2>1 DEF TxnMoved
  <2> QED  BY <2>1, <2>2 DEF TxnMoved, TxnJumps
<1>3. ASSUME NEW c \in Calls, RefundAccepted(c)
      PROVE  status[txn[r].order] \in Refunding /\ UNCHANGED status
  <2>1. /\ call[c].ref \in Refs /\ call[c].pc = "refund"
        /\ txn' = [txn EXCEPT ![call[c].ref].state = "refunded"] /\ UNCHANGED status
    BY <1>1, <1>3, LocalsTyped DEF RefundAccepted, At, tableVars
  <2>2. call[c].ref = r
    BY <1>1, <2>1
  <2> QED  BY <1>1, <2>1, <2>2 DEF LocalsGood, Took
<1>4. ASSUME NEW c \in Calls, StoreCheckout(c)
      PROVE  FALSE
  <2>1. /\ call[c].ref \in Refs /\ txn' = [txn EXCEPT ![call[c].ref].state = "open"]
    BY <1>1, <1>4, LocalsTyped DEF StoreCheckout, At
  <2>2. txn'[r] = txn[r] \/ txn'[r] = [txn[r] EXCEPT !.state = "open"]
    BY <1>1, <2>1
  <2>3. txn[r] \in Txns
    BY <1>1
  <2> QED  BY <2>2, <2>3 DEF Txns
<1>5. ASSUME NEW c \in Calls, Request(c) \/ (\E q \in Refs : Webhook(c, q))
      PROVE  FALSE
  <2>1. UNCHANGED txn \/ \E q \in Refs, o \in Orders :
                           txn' = [txn EXCEPT ![q] = [state |-> "created", order |-> o]]
    BY <1>5 DEF Request, Webhook, LookupPayment, InitializePayment, RefundRead, providerVars
  <2> QED  BY <1>1, <2>1
<1>6. ASSUME NEW c \in Calls, Handle(c), ~StoreCheckout(c), ~RefundAccepted(c)
      PROVE  UNCHANGED txn
  BY <1>6 DEF Handle, PaymentsStep, VerifyTransaction, RecordUnpaid, ClaimPayment,
              SettlePayment, SettleConflict, RefundRefused, RecordRefund, providerVars
<1>7. ASSUME NEW q \in Refs, Buyer(q)
      PROVE  FALSE
  <2>1. \E s \in {"paid", "short", "failed"} : txn' = [txn EXCEPT ![q].state = s]
    BY <1>7 DEF Buyer, Pay, PayShort, Decline, Charge
  <2>2. PICK s \in {"paid", "short", "failed"} :
          txn'[r] = txn[r] \/ txn'[r] = [txn[r] EXCEPT !.state = s]
    BY <1>1, <2>1
  <2>3. txn[r] \in Txns
    BY <1>1
  <2> QED  BY <2>2, <2>3 DEF Txns
<1>8. UNCHANGED vars \/ (\E c \in Calls : Abandon(c) /\ UNCHANGED providerVars) => UNCHANGED txn
  BY DEF vars, providerVars
<1> QED  BY <1>2, <1>3, <1>4, <1>5, <1>6, <1>7, <1>8 DEF Next

\* money does not come back from where it went
LEMMA GoneForGood ==
  ASSUME MoneyState, TxnMove, NEW o \in Orders
  PROVE  /\ MoneyReturned(o) => MoneyReturned(o)'
         /\ MoneyCaptured(o) => MoneyCaptured(o)'
  BY TxnsAdvance DEF MoneyReturned, MoneyCaptured

\* closing an order by hand moves it, and is the only step that counts it as closed
LEMMA ByHandMoves ==
  ASSUME MoneyState, [Next]_vars, NEW o \in byHand', o \notin byHand
  PROVE  /\ o \in Orders /\ status[o] = "REFUND_PENDING" /\ status'[o] = "REFUNDED"
         /\ \E c \in Calls : UpdateApply(c) /\ call[c].order = o
<1>1. PICK c \in Calls : Handle(c) /\ o \in ClosesByHand(c)
  BY DEF Next, vars
<1>2. /\ o \in Orders /\ At(c, "update") /\ call[c].order = o /\ call[c].target = "REFUNDED"
      /\ StillThere(o, call[c].from) /\ status[o] = call[c].from
  BY <1>1 DEF ClosesByHand, StillThere
<1>3. LocalsGood(c) /\ status \in [Orders -> OrderStatuses]
  BY DEF MoneyState, MoneyInv, TypeOK, TablesTypeOK
<1>4. UpdateApply(c)
  BY <1>1, <1>2 DEF Handle, PaymentsStep, OrdersStep, StoreCheckout, VerifyTransaction,
     RecordUnpaid, ClaimPayment, SettlePayment, SettleConflict, RefundAccepted, RefundRefused,
     RecordRefund, UpdateConflict, Notify, At
<1>5. ~call[c].owes /\ call[c].from = "REFUND_PENDING"
  BY <1>2, <1>3 DEF LocalsGood, At, CanTransition, Transitions
<1>6. status' = [status EXCEPT ![o] = "REFUNDED"]
  BY <1>2, <1>4, <1>5 DEF UpdateApply
<1> QED  BY <1>2, <1>3, <1>4, <1>5, <1>6

\* and the other way round: an order that updateOrderStatus takes to REFUNDED is counted
LEMMA MovesByHand ==
  ASSUME MoneyState, [Next]_vars, NEW o \in Orders, NEW c \in Calls, call[c].order = o,
         AskedToMove(c, o), status'[o] # status[o], status'[o] = "REFUNDED"
  PROVE  o \in byHand'
<1>1. /\ At(c, "update") /\ StillThere(o, call[c].from) /\ call[c].target = "REFUNDED"
      /\ call'[c] # call[c] /\ UpdateApply(c)
  BY DEF AskedToMove, UpdateApply, Become, Return, Idle, At, MoneyState, TypeOK, TablesTypeOK
<1>2. StepOf(c)
  BY <1>1, Untouched DEF MoneyState
<1>3. ASSUME NEW d \in Calls, StepOf(d)
      PROVE  d = c
  BY <1>1, <1>3, OneSlot DEF MoneyState
<1>4. ASSUME NEW r \in Refs, Buyer(r)
      PROVE  FALSE
  BY <1>1, <1>4 DEF Buyer
<1>5. ASSUME NEW r \in Refs, Webhook(c, r) \/ Request(c)
      PROVE  FALSE
  BY <1>1, <1>5 DEF Webhook, Request, LookupPayment, UpdateRead, InitializePayment, RefundRead, At
<1>6. ~Request(c)
  BY <1>1 DEF Request, LookupPayment, UpdateRead, InitializePayment, RefundRead, At
<1>7. ~Abandon(c)
  BY DEF Abandon, tableVars
<1>8. Handle(c) /\ byHand' = byHand \cup ClosesByHand(c)
  BY <1>1, <1>3, <1>4, <1>5, <1>6, <1>7 DEF Next, vars, StepOf
<1> QED  BY <1>1, <1>8 DEF ClosesByHand

LEMMA ByHandStays ==
  ASSUME [Next]_vars
  PROVE  byHand \subseteq byHand'
  BY DEF Next, vars

LEMMA RepaidPreserved ==
  ASSUME MoneyState, RepaidInv, [Next]_vars
  PROVE  RepaidInv'
<1>1. OrderMove /\ TxnMove
  BY EveryOrderMove, EveryTxnMove
<1>2. ASSUME NEW o \in Orders, status'[o] = "REFUNDED"
      PROVE  MoneyReturned(o)' \/ o \in byHand'
  <2>1. CASE status[o] = "REFUNDED"
    BY <1>1, <2>1, GoneForGood, ByHandStays DEF RepaidInv, Repaid
  <2>2. CASE status[o] # "REFUNDED"
    <3>1. PICK c \in Calls :
            /\ call[c].order = o
            /\ AskedToMove(c, o) \/ CheckedOut(c, o) \/ PaidFor(c, o) \/ PaidBack(c, o)
      BY <1>2, <2>2, MovedBy
    <3>2. CASE AskedToMove(c, o)
      BY <1>2, <2>2, <3>1, <3>2, MovesByHand
    <3>3. CASE PaidBack(c, o)
      <4>1. MoneyReturned(o)
        BY <3>3 DEF PaidBack, Took, MoneyReturned
      <4> QED  BY <1>1, <4>1, GoneForGood
    <3> QED  BY <1>2, <3>1, <3>2, <3>3 DEF CheckedOut, PaidFor
  <2> QED  BY <2>1, <2>2
<1>3. ASSUME NEW o \in Orders, MoneyReturned(o)'
      PROVE  status'[o] \in Refunding
  <2>1. CASE MoneyReturned(o)
    BY <1>1, <2>1, OrdersAdvance DEF RepaidInv, Repaid
  <2>2. CASE ~MoneyReturned(o)
    <3>1. PICK r \in Refs : txn'[r].order = o /\ txn'[r].state = "refunded"
      BY <1>3 DEF MoneyReturned
    <3>2. txn[r].state = "refunded" => txn'[r].order = txn[r].order
      BY <1>1, TxnsAdvance
    <3>3. txn[r].state # "refunded"
      BY <2>2, <3>1, <3>2 DEF MoneyReturned
    <3> QED  BY <3>1, <3>3, RefundedBy
  <2> QED  BY <2>1, <2>2
<1>4. ASSUME NEW o \in byHand'
      PROVE  o \in Orders /\ status'[o] = "REFUNDED"
  <2>1. CASE o \in byHand
    BY <1>1, <2>1, OrdersAdvance DEF RepaidInv, Repaid
  <2>2. CASE o \notin byHand
    BY <2>2, ByHandMoves
  <2> QED  BY <2>1, <2>2
<1> QED  BY <1>2, <1>3, <1>4 DEF RepaidInv, Repaid

LEMMA RepaidInvariant == Spec => [](MoneyState /\ RepaidInv)
<1>1. Init => MoneyState /\ RepaidInv
  <2>1. Init => RepaidInv
    BY DEF Init, TablesInit, PaystackInit, RepaidInv, Repaid, MoneyReturned
  <2> QED  BY <2>1, MoneyInvInitially
<1>2. MoneyState /\ RepaidInv /\ [Next]_vars => (MoneyState /\ RepaidInv)'
  BY RepaidPreserved, MoneyInvPreserved
<1> QED  BY <1>1, <1>2, PTL DEF Spec

(* Whatever admins type, overlap or retry, refundOrder asks the provider before it
   writes anything: an order that is REFUNDED without money having gone back was
   taken there by updateOrderStatus. *)
THEOREM RefundsAreAskedFor == Spec => []RefundsAskTheProvider
<1>1. RepaidInv => RefundsAskTheProvider
  BY DEF RepaidInv, Repaid, RefundsAskTheProvider
<1> QED  BY <1>1, RepaidInvariant, PTL

-----------------------------------------------------------------------------
(* The refinement: what a step does to the deal, to the money taken and to the
   money given back, and which step of the escrow that is. *)

Bargains == [o \in Orders |-> IF o \in byHand THEN "closed" ELSE Deal(status[o])]
Takings == [o \in Orders |-> MoneyCaptured(o)]
Givings == [o \in Orders |-> MoneyReturned(o)]

LEMMA DealOf ==
  /\ Deal("PENDING") = "open" /\ Deal("PAYMENT_PENDING") = "open"
  /\ Deal("CANCELLED") = "dropped" /\ Deal("REJECTED") = "refused"
  /\ Deal("REFUND_PENDING") = "owed" /\ Deal("REFUNDED") = "repaid"
  /\ Deal("DELIVERED") = "done"
  /\ \A s \in {"PAID", "AWAITING_CONFIRMATION", "CONFIRMED", "PREPARING", "OUT_FOR_DELIVERY"} :
       Deal(s) = "sold"
<1>1. Deal("PENDING") = "open" /\ Deal("PAYMENT_PENDING") = "open"
  BY DEF Deal, Payable
<1>2. Deal("CANCELLED") = "dropped" /\ Deal("REJECTED") = "refused"
  BY DEF Deal, Payable
<1>3. Deal("REFUND_PENDING") = "owed" /\ Deal("REFUNDED") = "repaid"
  BY DEF Deal, Payable
<1>4. Deal("DELIVERED") = "done"
  BY DEF Deal, Payable
<1>5. Deal("PAID") = "sold" /\ Deal("AWAITING_CONFIRMATION") = "sold"
  BY DEF Deal, Payable
<1>6. /\ Deal("CONFIRMED") = "sold" /\ Deal("PREPARING") = "sold"
      /\ Deal("OUT_FOR_DELIVERY") = "sold"
  BY DEF Deal, Payable
<1> QED  BY <1>1, <1>2, <1>3, <1>4, <1>5, <1>6

\* one order moves, one deal does
LEMMA OneBargain ==
  ASSUME MoneyState, RepaidInv, [Next]_vars, NEW o \in Orders, status'[o] # status[o]
  PROVE  /\ Bargains[o] = Deal(status[o])
         /\ o \notin byHand' => Bargains' = [Bargains EXCEPT ![o] = Deal(status'[o])]
         /\ o \in byHand' => Bargains' = [Bargains EXCEPT ![o] = "closed"]
<1>1. status \in [Orders -> OrderStatuses] /\ OrderMove
  BY EveryOrderMove DEF MoneyState, TypeOK, TablesTypeOK
<1>2. PICK p \in Orders, s \in OrderStatuses : status' = [status EXCEPT ![p] = s]
  BY <1>1 DEF OrderMove, Moved
<1>3. \A q \in Orders : q # o => status'[q] = status[q]
  BY <1>1, <1>2
<1>4. o \notin byHand
  BY <1>1, OrdersAdvance DEF RepaidInv, Repaid
<1>5. \A q \in Orders : q # o => (q \in byHand' <=> q \in byHand)
  BY <1>3, ByHandMoves, ByHandStays
<1>6. \A q \in Orders : q # o => Bargains'[q] = Bargains[q]
  BY <1>3, <1>5 DEF Bargains
<1>7. /\ o \notin byHand' => Bargains'[o] = Deal(status'[o])
      /\ o \in byHand' => Bargains'[o] = "closed"
      /\ Bargains[o] = Deal(status[o])
  BY <1>4 DEF Bargains
<1>8. /\ Bargains = [q \in Orders |-> Bargains[q]]
      /\ Bargains' = [q \in Orders |-> Bargains'[q]]
  BY DEF Bargains
<1> QED  BY <1>6, <1>7, <1>8

LEMMA BargainsStill ==
  ASSUME MoneyState, [Next]_vars, UNCHANGED status
  PROVE  UNCHANGED Bargains
<1>1. byHand' = byHand
  BY ByHandMoves, ByHandStays
<1> QED  BY <1>1 DEF Bargains

\* a transaction that took or gave back money, and one that did neither
LEMMA MoneyStill ==
  ASSUME MoneyState, NEW r \in Refs, NEW t \in Txns, TxnMoved(r, t),
         t.state \notin {"paid", "refunded"}
  PROVE  UNCHANGED <<Takings, Givings>>
<1>1. txn \in [Refs -> Txns] /\ txn[r].state \notin {"paid", "refunded"}
  BY DEF MoneyState, TypeOK, PaystackTypeOK, TxnMoved, TxnJumps
<1>2. txn'[r].state \notin {"paid", "refunded"} /\ \A q \in Refs : q # r => txn'[q] = txn[q]
  BY <1>1 DEF TxnMoved
<1>3. \A o \in Orders : (MoneyCaptured(o)' <=> MoneyCaptured(o)) /\ (MoneyReturned(o)' <=> MoneyReturned(o))
  BY <1>1, <1>2 DEF MoneyCaptured, MoneyReturned
<1>4. \A o \in Orders : MoneyCaptured(o)' = MoneyCaptured(o) /\ MoneyReturned(o)' = MoneyReturned(o)
  BY <1>3 DEF MoneyCaptured, MoneyReturned
<1> QED  BY <1>4 DEF Takings, Givings

LEMMA MoneyTaken ==
  ASSUME MoneyState, NEW r \in Refs, NEW t \in Txns, TxnMoved(r, t), t.state = "paid"
  PROVE  /\ UNCHANGED Givings
         /\ \/ UNCHANGED Takings
            \/ \E o \in Orders : ~Takings[o] /\ Takings' = [Takings EXCEPT ![o] = TRUE]
<1>1. /\ txn \in [Refs -> Txns] /\ txn[r].state \notin {"unused", "paid", "refunded"}
      /\ t.order = txn[r].order /\ t.order \in Orders
  BY DEF MoneyState, TypeOK, PaystackTypeOK, TxnMoved, TxnJumps, Txns
<1>2. txn'[r] = t /\ \A q \in Refs : q # r => txn'[q] = txn[q]
  BY <1>1 DEF TxnMoved
<1> PICK o \in Orders : o = t.order
  BY <1>1
<1>3. \A p \in Orders : MoneyReturned(p)' <=> MoneyReturned(p)
  BY <1>1, <1>2 DEF MoneyReturned
<1>4. \A p \in Orders : p # o => (MoneyCaptured(p)' <=> MoneyCaptured(p))
  BY <1>1, <1>2 DEF MoneyCaptured
<1>5. MoneyCaptured(o)'
  BY <1>2 DEF MoneyCaptured
<1>6. UNCHANGED Givings
  <2>1. \A p \in Orders : MoneyReturned(p)' = MoneyReturned(p)
    BY <1>3 DEF MoneyReturned
  <2> QED  BY <2>1 DEF Givings
<1>7. \A p \in Orders : p # o => MoneyCaptured(p)' = MoneyCaptured(p)
  BY <1>4 DEF MoneyCaptured
<1>8. MoneyCaptured(o)' = TRUE
  BY <1>5 DEF MoneyCaptured
<1>9. CASE MoneyCaptured(o)
  <2>1. MoneyCaptured(o) = TRUE
    BY <1>9 DEF MoneyCaptured
  <2> QED  BY <1>6, <1>7, <1>8, <2>1 DEF Takings
<1>10. CASE ~MoneyCaptured(o)
  BY <1>6, <1>7, <1>8, <1>10 DEF Takings
<1> QED  BY <1>9, <1>10

LEMMA MoneyGiven ==
  ASSUME MoneyState, NEW r \in Refs, NEW t \in Txns, TxnMoved(r, t), t.state = "refunded"
  PROVE  /\ UNCHANGED Takings
         /\ \/ UNCHANGED Givings
            \/ /\ ~Givings[t.order] /\ Takings[t.order]
               /\ Givings' = [Givings EXCEPT ![t.order] = TRUE]
<1>1. /\ txn \in [Refs -> Txns] /\ txn[r].state = "paid"
      /\ t.order = txn[r].order /\ t.order \in Orders
  BY DEF MoneyState, TypeOK, PaystackTypeOK, TxnMoved, TxnJumps, Txns
<1>2. txn'[r] = t /\ \A q \in Refs : q # r => txn'[q] = txn[q]
  BY <1>1 DEF TxnMoved
<1> PICK o \in Orders : o = t.order
  BY <1>1
<1>3. \A p \in Orders : MoneyCaptured(p)' <=> MoneyCaptured(p)
  BY <1>1, <1>2 DEF MoneyCaptured
<1>4. \A p \in Orders : p # o => (MoneyReturned(p)' <=> MoneyReturned(p))
  BY <1>1, <1>2 DEF MoneyReturned
<1>5. MoneyReturned(o)' /\ MoneyCaptured(o)
  BY <1>1, <1>2 DEF MoneyReturned, MoneyCaptured
<1>6. UNCHANGED Takings
  <2>1. \A p \in Orders : MoneyCaptured(p)' = MoneyCaptured(p)
    BY <1>3 DEF MoneyCaptured
  <2> QED  BY <2>1 DEF Takings
<1>7. \A p \in Orders : p # o => MoneyReturned(p)' = MoneyReturned(p)
  BY <1>4 DEF MoneyReturned
<1>8. MoneyReturned(o)' = TRUE /\ Takings[o]
  BY <1>5 DEF MoneyReturned, Takings
<1>9. CASE MoneyReturned(o)
  <2>1. MoneyReturned(o) = TRUE
    BY <1>9 DEF MoneyReturned
  <2> QED  BY <1>6, <1>7, <1>8, <2>1 DEF Givings
<1>10. CASE ~MoneyReturned(o)
  <2>1. Givings' = [Givings EXCEPT ![o] = TRUE] /\ ~Givings[o]
    BY <1>7, <1>8, <1>10 DEF Givings
  <2> QED  BY <1>6, <1>8, <2>1
<1> QED  BY <1>9, <1>10

\* a step that leaves every order where it is: at most, money is taken or given back
LEMMA MoneySteps ==
  ASSUME MoneyState, RepaidInv, [Next]_vars, UNCHANGED status
  PROVE  \/ UNCHANGED <<Bargains, Takings, Givings>>
         \/ \E o \in Orders : Promise!Capture(o) \/ Promise!GiveBack(o)
<1>1. UNCHANGED Bargains
  BY BargainsStill
<1>2. CASE UNCHANGED txn
  <2>1. UNCHANGED <<Takings, Givings>>
    BY <1>2 DEF Takings, Givings, MoneyCaptured, MoneyReturned
  <2> QED  BY <1>1, <2>1
<1>3. ASSUME NEW r \in Refs, NEW t \in Txns, TxnMoved(r, t)
      PROVE  \/ UNCHANGED <<Bargains, Takings, Givings>>
             \/ \E o \in Orders : Promise!Capture(o) \/ Promise!GiveBack(o)
  <2>1. CASE t.state \notin {"paid", "refunded"}
    BY <1>1, <1>3, <2>1, MoneyStill
  <2>2. CASE t.state = "paid"
    <3>1. ASSUME NEW o \in Orders, ~Takings[o], Takings' = [Takings EXCEPT ![o] = TRUE],
                 UNCHANGED Givings
          PROVE  Promise!Capture(o)
      BY <1>1, <3>1 DEF Promise!Capture, Bargains, Takings, Givings
    <3> QED  BY <1>1, <1>3, <2>2, <3>1, MoneyTaken
  <2>3. CASE t.state = "refunded"
    <3>1. /\ UNCHANGED Takings
          /\ \/ UNCHANGED Givings
             \/ /\ ~Givings[t.order] /\ Takings[t.order]
                /\ Givings' = [Givings EXCEPT ![t.order] = TRUE]
      BY <1>3, <2>3, MoneyGiven
    <3>2. t.order \in Orders /\ txn[r].state = "paid" /\ txn'[r] = t /\ txn[r].order = t.order
      BY <1>3, <2>3 DEF TxnMoved, TxnJumps, Txns, MoneyState, TypeOK, PaystackTypeOK
    <3>3. status[t.order] \in Refunding
      BY <2>3, <3>2, RefundedBy
    <3>4. CASE UNCHANGED Givings
      BY <1>1, <3>1, <3>4
    <3>5. CASE /\ ~Givings[t.order] /\ Takings[t.order]
               /\ Givings' = [Givings EXCEPT ![t.order] = TRUE]
      <4>1. ~MoneyReturned(t.order)
        BY <3>2, <3>5 DEF Givings
      <4>2. status[t.order] = "REFUND_PENDING" \/ t.order \in byHand
        BY <3>2, <3>3, <4>1 DEF Refunding, RepaidInv, Repaid
      <4>3. Bargains[t.order] \in {"owed", "closed"}
        BY <3>2, <4>2, DealOf DEF Bargains
      <4>4. Promise!GiveBack(t.order)
        BY <1>1, <3>1, <3>5, <4>3 DEF Promise!GiveBack, Bargains, Takings, Givings
      <4> QED  BY <3>2, <4>4
    <3> QED  BY <3>1, <3>4, <3>5
  <2>4. t.state \in {"paid", "refunded"} \/ t.state \notin {"paid", "refunded"}
    OBVIOUS
  <2> QED  BY <2>1, <2>2, <2>3, <2>4
<1> QED  BY <1>2, <1>3, EveryTxnMove DEF TxnMove

\* what refundOrder records was not closed by hand
LEMMA RecordsApart ==
  ASSUME MoneyState, [Next]_vars, NEW c \in Calls, RecordRefund(c), NEW o \in Orders,
         status[o] = "REFUND_PENDING", RepaidInv
  PROVE  o \notin byHand'
<1>1. o \notin byHand
  BY DEF RepaidInv, Repaid
<1>2. At(c, "refunded") /\ call'[c] # call[c]
  BY DEF RecordRefund, Return, Become, Idle, At, MoneyState, TypeOK, TablesTypeOK
<1>3. ASSUME NEW d \in Calls, UpdateApply(d)
      PROVE  FALSE
  <2>1. d # c /\ call'[d] # call[d]
    BY <1>2, <1>3 DEF UpdateApply, Return, Become, Idle, At, MoneyState, TypeOK, TablesTypeOK
  <2>2. StepOf(c) /\ StepOf(d)
    BY <1>2, <2>1, Untouched DEF MoneyState
  <2> QED  BY <1>2, <2>1, <2>2, OneSlot DEF MoneyState
<1> QED  BY <1>1, <1>3, ByHandMoves

\* the moves of the escrow, over what they are mapped to
LEMMA PromiseMoves ==
  ASSUME NEW o \in Orders, NEW from, NEW to, Bargains[o] = from,
         Bargains' = [Bargains EXCEPT ![o] = to], UNCHANGED <<Takings, Givings>>
  PROVE  Promise!Move(o, from, to)
  BY DEF Promise!Move, Bargains, Takings, Givings

\* a step that moves an order is one the escrow allows, or one it does not see
LEMMA OrderSteps ==
  ASSUME MoneyState, RepaidInv, [Next]_vars, NEW o \in Orders, status'[o] # status[o]
  PROVE  [Promise!Next]_(Promise!vars)
<1>1. PICK c \in Calls :
        /\ call[c].order = o
        /\ AskedToMove(c, o) \/ CheckedOut(c, o) \/ PaidFor(c, o) \/ PaidBack(c, o)
  BY MovedBy
<1>2. /\ Bargains[o] = Deal(status[o])
      /\ o \notin byHand' => Bargains' = [Bargains EXCEPT ![o] = Deal(status'[o])]
      /\ o \in byHand' => Bargains' = [Bargains EXCEPT ![o] = "closed"]
  BY OneBargain
<1>10. status'[o] # "REFUNDED" => o \notin byHand'
  BY RepaidPreserved DEF RepaidInv, Repaid
<1>3. ASSUME UNCHANGED txn
      PROVE  UNCHANGED <<Takings, Givings>>
  BY <1>3 DEF Takings, Givings, MoneyCaptured, MoneyReturned
<1>4. ASSUME Deal(status'[o]) = Deal(status[o]), status'[o] # "REFUNDED"
      PROVE  UNCHANGED Bargains
  BY <1>2, <1>4, <1>10 DEF Bargains
<1>5. ASSUME UNCHANGED <<Bargains, Takings, Givings>>
      PROVE  [Promise!Next]_(Promise!vars)
  BY <1>5 DEF Promise!vars, Bargains, Takings, Givings
<1>6. CASE CheckedOut(c, o)
  <2>1. UNCHANGED Bargains
    BY <1>4, <1>6, DealOf DEF CheckedOut
  <2>2. PICK r \in Refs, t \in Txns : TxnMoved(r, t) /\ t.state = "open"
    <3>1. /\ call[c].ref \in Refs /\ txn' = [txn EXCEPT ![call[c].ref].state = "open"]
          /\ txn \in [Refs -> Txns] /\ call[c].pc = "checkout" /\ LocalsGood(c)
      BY <1>6, LocalsTyped DEF CheckedOut, StoreCheckout, At, MoneyState, MoneyInv,
                               TypeOK, PaystackTypeOK, TablesTypeOK
    <3>4. txn[call[c].ref].state = "created"
      BY <3>1 DEF LocalsGood
    <3> DEFINE r == call[c].ref
               t == [txn[r] EXCEPT !.state = "open"]
    <3>2. t \in Txns /\ t.state = "open" /\ t.order = txn[r].order
      BY <3>1 DEF Txns, TxnStates
    <3>3. txn' = [txn EXCEPT ![r] = t]
      BY <3>1
    <3> HIDE DEF t
    <3> QED  BY <3>1, <3>2, <3>3, <3>4 DEF TxnMoved, TxnJumps
  <2>3. UNCHANGED <<Takings, Givings>>
    BY <2>2, MoneyStill
  <2> QED  BY <1>5, <2>1, <2>3
<1>7. CASE PaidFor(c, o)
  <2>1. UNCHANGED txn
    BY <1>7 DEF PaidFor, SettlePayment
  <2>2. MoneyCaptured(o) /\ ~MoneyReturned(o)
    BY <1>7 DEF PaidFor, Took, MoneyCaptured, RepaidInv, Repaid, Refunding, Payable
  <2>3. Takings[o] /\ ~Givings[o]
    BY <2>2 DEF Takings, Givings
  <2>4. CASE status[o] \in Payable /\ status'[o] = "AWAITING_CONFIRMATION"
    <3>1. Promise!Move(o, "open", "sold")
      BY <1>2, <1>3, <1>10, <2>1, <2>4, DealOf, PromiseMoves DEF Payable
    <3>2. Promise!Sell(o)
      BY <2>3, <3>1 DEF Promise!Sell, Takings, Givings
    <3> QED  BY <3>2 DEF Promise!Next
  <2>5. CASE status[o] = "CANCELLED" /\ status'[o] = "REFUND_PENDING"
    <3>1. Promise!Move(o, "dropped", "owed")
      BY <1>2, <1>3, <1>10, <2>1, <2>5, DealOf, PromiseMoves
    <3>2. Promise!OweLatePayer(o)
      BY <2>3, <3>1 DEF Promise!OweLatePayer, Takings, Givings
    <3> QED  BY <3>2 DEF Promise!Next
  <2> QED  BY <1>7, <2>4, <2>5 DEF PaidFor
<1>8. CASE PaidBack(c, o)
  <2>1. UNCHANGED txn
    BY <1>8 DEF PaidBack, RecordRefund, providerVars
  <2>2. MoneyReturned(o)
    BY <1>8 DEF PaidBack, Took, MoneyReturned
  <2>5. o \notin byHand'
    BY <1>1, <1>8, RecordsApart DEF PaidBack
  <2>3. Promise!Move(o, "owed", "repaid")
    BY <1>2, <1>3, <1>8, <2>1, <2>5, DealOf, PromiseMoves DEF PaidBack
  <2>4. Promise!Repay(o)
    BY <2>2, <2>3 DEF Promise!Repay, Givings
  <2> QED  BY <2>4 DEF Promise!Next
<1>9. CASE AskedToMove(c, o)
  <2>1. UNCHANGED txn
    BY <1>9 DEF AskedToMove, providerVars
  <2>2. ASSUME NEW from, NEW to, Deal(status[o]) = from, Deal(status'[o]) = to,
               status'[o] # "REFUNDED"
        PROVE  Promise!Move(o, from, to)
    <3>1. UNCHANGED <<Takings, Givings>>
      BY <1>3, <2>1
    <3>2. Bargains[o] = from /\ Bargains' = [Bargains EXCEPT ![o] = to]
      BY <1>2, <1>10, <2>2
    <3> QED  BY <3>1, <3>2, PromiseMoves
  <2>3. <<status[o], call[c].target>> \in
          { <<"PENDING", "CANCELLED">>, <<"PAYMENT_PENDING", "CANCELLED">>,
            <<"AWAITING_CONFIRMATION", "CONFIRMED">>, <<"AWAITING_CONFIRMATION", "REJECTED">>,
            <<"CONFIRMED", "PREPARING">>, <<"PREPARING", "OUT_FOR_DELIVERY">>,
            <<"OUT_FOR_DELIVERY", "DELIVERED">>, <<"REFUND_PENDING", "REFUNDED">> }
    BY <1>9 DEF AskedToMove, CanTransition, Transitions, AllowedActors, TransitionActors
  <2>4. CASE status[o] \in {"PENDING", "PAYMENT_PENDING"} /\ status'[o] = "CANCELLED"
    <3>1. Promise!Drop(o)
      BY <2>2, <2>4, DealOf DEF Promise!Drop
    <3> QED  BY <3>1 DEF Promise!Next
  <2>5. CASE status[o] = "AWAITING_CONFIRMATION" /\ status'[o] = "REJECTED"
    <3>1. Promise!Refuse(o)
      BY <2>2, <2>5, DealOf DEF Promise!Refuse
    <3> QED  BY <3>1 DEF Promise!Next
  <2>6. CASE status[o] = "AWAITING_CONFIRMATION" /\ status'[o] = "REFUND_PENDING"
    <3>1. Promise!OweRejected(o)
      BY <2>2, <2>6, DealOf DEF Promise!OweRejected
    <3> QED  BY <3>1 DEF Promise!Next
  <2>7. CASE status[o] = "OUT_FOR_DELIVERY" /\ status'[o] = "DELIVERED"
    <3>1. Promise!Deliver(o)
      BY <2>2, <2>7, DealOf DEF Promise!Deliver
    <3> QED  BY <3>1 DEF Promise!Next
  <2>8. CASE <<status[o], status'[o]>> \in
               { <<"AWAITING_CONFIRMATION", "CONFIRMED">>, <<"CONFIRMED", "PREPARING">>,
                 <<"PREPARING", "OUT_FOR_DELIVERY">> }
    <3>1. Deal(status[o]) = "sold" /\ Deal(status'[o]) = "sold" /\ status'[o] # "REFUNDED"
      BY <2>8, DealOf
    <3> QED  BY <1>3, <1>4, <1>5, <2>1, <3>1
  <2>9. /\ call[c].owes => call[c].target = "REJECTED"
        /\ status'[o] = IF call[c].owes THEN "REFUND_PENDING" ELSE call[c].target
    BY <1>9 DEF AskedToMove
  <2>10. CASE status[o] = "REFUND_PENDING" /\ status'[o] = "REFUNDED"
    <3>1. o \in byHand'
      BY <1>1, <1>9, <2>10, MovesByHand
    <3>2. Promise!Move(o, "owed", "closed")
      BY <1>2, <1>3, <2>1, <2>10, <3>1, DealOf, PromiseMoves
    <3> QED  BY <3>2 DEF Promise!Close, Promise!Next
  <2> QED  BY <2>3, <2>4, <2>5, <2>6, <2>7, <2>8, <2>9, <2>10
<1> QED  BY <1>1, <1>6, <1>7, <1>8, <1>9

LEMMA PromiseStep ==
  ASSUME MoneyState, RepaidInv, [Next]_vars
  PROVE  [Promise!Next]_(Promise!vars)
<1>1. CASE UNCHANGED status
  <2>1. CASE UNCHANGED <<Bargains, Takings, Givings>>
    BY <2>1 DEF Promise!vars, Bargains, Takings, Givings
  <2>2. CASE \E o \in Orders : Promise!Capture(o) \/ Promise!GiveBack(o)
    BY <2>2 DEF Promise!Next
  <2> QED  BY <1>1, <2>1, <2>2, MoneySteps
<1>2. CASE \E o \in Orders : status'[o] # status[o]
  BY <1>2, OrderSteps
<1>3. UNCHANGED status \/ \E o \in Orders : status'[o] # status[o]
  <2>1. status \in [Orders -> OrderStatuses] /\ status' \in [Orders -> OrderStatuses]
    BY MoneyInvPreserved DEF MoneyState, TypeOK, TablesTypeOK
  <2> QED  BY <2>1
<1> QED  BY <1>1, <1>2, <1>3

(* Whatever overlaps, is repeated or crashes, and whatever admins type, orders and
   payments keep the promise about the buyer's money: nothing is sold on money that
   was not captured or went back, late money on a dropped order is owed, money goes
   back only where it is owed or was closed by hand, once. *)
THEOREM CheckoutImplementsEscrow == Spec => KeepsPromise
<1>1. Init => Promise!Init
  <2>1. ASSUME Init
        PROVE  Promise!Init
    <3>1. \A o \in Orders : Deal(status[o]) = "open" /\ o \notin byHand
      BY <2>1, DealOf DEF Init, TablesInit
    <3>2. \A o \in Orders : MoneyCaptured(o) = FALSE /\ MoneyReturned(o) = FALSE
      BY <2>1 DEF Init, PaystackInit, MoneyCaptured, MoneyReturned
    <3> QED  BY <3>1, <3>2 DEF Promise!Init
  <2> QED  BY <2>1
<1>2. MoneyState /\ RepaidInv /\ [Next]_vars => [Promise!Next]_(Promise!vars)
  BY PromiseStep
<1> QED  BY <1>1, <1>2, RepaidInvariant, PTL DEF Spec, KeepsPromise, Promise!Spec

-----------------------------------------------------------------------------
(* Reviews, beside everything else that happens to an order. *)

ReviewsInv ==
  /\ review \in [Orders -> Submissions \cup {NoReview}]
  /\ checked \in [Submissions -> SUBSET Orders]
  /\ ReviewsFollowDelivery
  /\ \A s \in Submissions : \A o \in checked[s] : status[o] = "DELIVERED"

\* no step takes a delivery back
LEMMA DeliveredForGood ==
  ASSUME MoneyState, [Next]_vars, NEW o \in Orders, status[o] = "DELIVERED"
  PROVE  status'[o] = "DELIVERED"
<1>1. status \in [Orders -> OrderStatuses]
  BY DEF MoneyState, TypeOK, TablesTypeOK
<1>2. ASSUME NEW p \in Orders, NEW s \in OrderStatuses, NEW b \in BOOLEAN, Moved(p, s, b)
      PROVE  p # o
  BY <1>2 DEF Moved, Jumps
<1> QED  BY <1>1, <1>2, EveryOrderMove DEF OrderMove, Moved

LEMMA ReviewsStep ==
  ASSUME MoneyState, ReviewsInv, [ReviewsNext]_<<vars, reviewVars>>
  PROVE  ReviewsInv'
<1>1. CASE UNCHANGED reviewVars /\ [Next]_vars
  <2>1. UNCHANGED <<review, checked>>
    BY <1>1 DEF reviewVars
  <2>2. \A o \in Orders : status[o] = "DELIVERED" => status'[o] = "DELIVERED"
    BY <1>1, DeliveredForGood
  <2> QED  BY <2>1, <2>2 DEF ReviewsInv, ReviewsFollowDelivery
<1>2. ASSUME NEW s \in Submissions, NEW o \in Orders, NEW actor \in OrderActors,
             SubmitReview(s, o, actor), UNCHANGED vars
      PROVE  ReviewsInv'
  <2>1. /\ UNCHANGED <<review, status>> /\ status[o] = "DELIVERED"
        /\ checked' = [checked EXCEPT ![s] = {o}]
    BY <1>2 DEF SubmitReview, MayReview, vars, tableVars
  <2> QED  BY <2>1 DEF ReviewsInv, ReviewsFollowDelivery
<1>3. ASSUME NEW s \in Submissions, NEW o \in Orders, InsertReview(s, o), UNCHANGED vars
      PROVE  ReviewsInv'
  <2>1. /\ UNCHANGED <<checked, status>> /\ status[o] = "DELIVERED"
        /\ review' = [review EXCEPT ![o] = RowAfterInsert(s, o)]
    BY <1>3 DEF InsertReview, ReviewsInv, vars, tableVars
  <2>2. RowAfterInsert(s, o) \in Submissions \cup {NoReview}
    BY DEF RowAfterInsert, ReviewsInv
  <2> QED  BY <2>1, <2>2 DEF ReviewsInv, ReviewsFollowDelivery
<1> QED  BY <1>1, <1>2, <1>3 DEF ReviewsNext

LEMMA ReviewsInvariant == ReviewsSpec => [](MoneyState /\ ReviewsInv)
<1>1. Init /\ ReviewsInit => MoneyState /\ ReviewsInv
  <2>1. ReviewsInit => ReviewsInv
    BY DEF ReviewsInit, ReviewsInv, ReviewsFollowDelivery
  <2> QED  BY <2>1, MoneyInvInitially
<1>2. [ReviewsNext]_<<vars, reviewVars>> => [Next]_vars
  BY DEF ReviewsNext
<1>3. MoneyState /\ ReviewsInv /\ [ReviewsNext]_<<vars, reviewVars>> =>
        (MoneyState /\ ReviewsInv)'
  BY <1>2, ReviewsStep, MoneyInvPreserved
<1> QED  BY <1>1, <1>3, PTL DEF ReviewsSpec

(* A review is of an order that was delivered and still is: nothing that overlaps
   createReview, or comes after it, takes an order out of DELIVERED. *)
THEOREM ReviewsAreOfDeliveries == ReviewsSpec => []ReviewsFollowDelivery
<1>1. ReviewsInv => ReviewsFollowDelivery
  BY DEF ReviewsInv
<1> QED  BY <1>1, ReviewsInvariant, PTL
=============================================================================
