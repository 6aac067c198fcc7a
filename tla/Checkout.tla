------------------------------ MODULE Checkout ------------------------------
(* The whole life of an order's money: the order service, the payment service
   and the provider, interleaved. *)
EXTENDS OrdersService, PaymentsService

VARIABLE
  byHand           \* history: orders an admin closed as REFUNDED by updateOrderStatus

vars == <<providerVars, tableVars, call, byHand>>

Init == PaystackInit /\ TablesInit /\ byHand = {}

\* a request arrives: an API call of a buyer, a supplier or an admin
Request(c) ==
  \/ \E o \in Orders, t \in OrderStatuses, a \in OrderActors :
       UpdateRead(c, o, t, a) /\ UNCHANGED providerVars
  \/ \E o \in Orders, r \in Refs : InitializePayment(c, o, r)
  \/ \E r \in Refs : LookupPayment(c, r, FALSE)
  \/ \E o \in Orders : RefundRead(c, o)

\* the provider delivers, or redelivers, its charge.success event
Webhook(c, r) == LookupPayment(c, r, TRUE)

Handle(c) == PaymentsStep(c) \/ (OrdersStep(c) /\ UNCHANGED providerVars)

\* the buyer on the hosted page
Buyer(r) == (Pay(r) \/ PayShort(r) \/ Decline(r)) /\ UNCHANGED <<tableVars, call>>

\* the order whose refund this call is about to record without asking the provider
ClosesByHand(c) ==
  {o \in Orders : /\ At(c, "update") /\ call[c].order = o /\ call[c].target = "REFUNDED"
                  /\ StillThere(o, call[c].from)}

Next ==
  \/ \E c \in Calls :
       \/ Request(c) /\ UNCHANGED byHand
       \/ \E r \in Refs : Webhook(c, r) /\ UNCHANGED byHand
       \/ Handle(c) /\ byHand' = byHand \cup ClosesByHand(c)
       \/ Abandon(c) /\ UNCHANGED providerVars /\ UNCHANGED byHand
  \/ \E r \in Refs : Buyer(r) /\ UNCHANGED byHand

Spec == Init /\ [][Next]_vars

\* Redelivery: an event that is never acknowledged is delivered again and again,
\* and no step of confirming it is lost every single time.
Confirming(c, r, pc) == At(c, pc) /\ call[c].ref = r /\ Handle(c)

served == <<providerVars, tableVars, call>>

Redelivery ==
  \A r \in Refs :
    /\ SF_served(\E c \in Calls : Webhook(c, r))
    /\ \A pc \in {"verify", "claim", "settle"} :
         SF_served(\E c \in Calls : Confirming(c, r, pc))

\* A handler that can go on does, or leaves with an exception. Strong, because a
\* row lock is granted in the order it was asked for: a waiter is not overtaken
\* for ever by requests that lock the row and crash.
HandlersRun == \A c \in Calls : SF_served(Handle(c))

\* An admin who sees a refund pending asks for it until it is refused for good or
\* recorded; the provider does not refuse or miss every one of those requests.
AdminsRefund ==
  \A o \in Orders :
    /\ SF_served(\E c \in Calls : RefundRead(c, o))
    /\ SF_served(\E c \in Calls : RefundAccepted(c) /\ call[c].order = o)

LiveSpec == Spec /\ Redelivery /\ HandlersRun /\ AdminsRefund

-----------------------------------------------------------------------------
TypeOK == PaystackTypeOK /\ TablesTypeOK

(* Every row of an order's history is a legal transition that starts where the
   one before it ended, and the last row ends in the order's status: two requests
   never both apply a change to the status they read (orders.service.ts:392). The
   "manual review" rows, which repeat a status, are kept apart in flagged. *)
HistoryFaithful ==
  \A o \in Orders :
    /\ history[o] # <<>> /\ history[o][1] = <<"NONE", "PENDING">>
    /\ \A i \in 2..Len(history[o]) :
         history[o][i] \in Transitions /\ history[o][i][1] = history[o][i - 1][2]
    /\ history[o][Len(history[o])][2] = status[o]

(* Whoever is told that an order reached a status can see it in the order's history:
   the notice is written outside the transaction, but never of a change that was
   refused or rolled back (orders.service.ts:455). *)
NoticesAreTrue ==
  \A n \in notices : \E i \in DOMAIN history[n.order] : history[n.order][i][2] = n.about

(* Money that was recorded is never left on an order that still waits for it or
   was cancelled: the order has gone on to the supplier, or past it into a rejection
   or a refund (payments.service.ts:234; see RejectedIsOwedOrFlagged for the first of
   those). A refunded payment belongs to a refunded order. *)
PaidOrderGoesOn ==
  \A o \in Orders :
    /\ payment[o].status = "SUCCESS" => status[o] \notin Payable \cup {"CANCELLED", "PAID"}
    /\ payment[o].status = "REFUNDED" => status[o] = "REFUNDED"

\* the provider has given money for this order back
MoneyReturned(o) == \E r \in Refs : txn[r].order = o /\ txn[r].state = "refunded"

(* A payment recorded as a success names a transaction that captured this order's
   money, whichever of its links was paid (payments.service.ts:221), and one
   recorded as refunded belongs to an order some of whose money went back. *)
RecordMatchesProvider ==
  \A o \in Orders :
    /\ payment[o].status = "SUCCESS" =>
         /\ txn[payment[o].ref].order = o
         /\ txn[payment[o].ref].state \in {"paid", "refunded"}
    /\ payment[o].status = "REFUNDED" => MoneyReturned(o)

(* Stock is held for an order only while the order is on its way to the buyer. *)
Fulfilling ==
  {"AWAITING_CONFIRMATION", "CONFIRMED", "PREPARING", "OUT_FOR_DELIVERY", "DELIVERED"}
StockHeldOnlyWhileSold == \A o \in Orders : deducted[o] => status[o] \in Fulfilling

(* A settled payment is never derived anew, however often and however late it is
   verified (payments.service.ts:27), and no new checkout begins on it: the upsert
   of a checkout that read the order before it settled is the one thing that can
   undo it, and once those have ended it is settled for good. *)
CheckingOut(o) == \E c \in Calls : At(c, "checkout") /\ call[c].order = o
Final(o) == payment[o].status \in Settled /\ ~CheckingOut(o)
SettledIsFinal == [][\A o \in Orders : Final(o) => Final(o)']_vars

(* A rejected order whose payment counts is owed its refund in the transaction that
   rejects it (orders.service.ts:429). One that is left in REJECTED beside a payment
   that counts was paid through a second link, and somebody has been asked to look
   at it (payments.service.ts:260). *)
RejectedIsOwedOrFlagged ==
  \A o \in Orders :
    status[o] = "REJECTED" /\ payment[o].status = "SUCCESS" => flagged[o]

(* The services record a refund only once the provider has accepted one
   (payments.service.ts:492): every other refunded order was closed by an admin's
   change of its status. *)
RefundsAskTheProvider ==
  \A o \in Orders : status[o] = "REFUNDED" /\ o \notin byHand => MoneyReturned(o)

(* What the record claims without that exception: nothing says that a buyer was
   paid back before money moved (payments.service.ts:492). *)
RefundedMeansRepaid == \A o \in Orders : status[o] = "REFUNDED" => MoneyReturned(o)

-----------------------------------------------------------------------------
(* Why the money invariants hold: what each request in flight may still rely on
   when it wakes up, however many others ran meanwhile. *)

\* past the payment, for good: no transition leads from here to the other statuses
Past == OrderStatuses \ (Payable \cup {"PAID", "CANCELLED"})

StillPast(s, o) == s \in Past => status[o] \in Past

Refunding == {"REFUND_PENDING", "REFUNDED"}

\* the transaction of a reference took this order's money
Took(r, o) == txn[r].order = o /\ txn[r].state \in {"paid", "refunded"}

LocalsGood(c) ==
  LET k == call[c]
      o == call[c].order
      r == call[c].ref
  IN
  /\ k.pc = "update" =>
       /\ CanTransition(k.from, k.target) /\ AllowedActors(k.from, k.target) # {}
       /\ StillPast(k.from, o)
       /\ k.owes \/ k.restores => k.target = "REJECTED"
       /\ k.target = "REJECTED" /\ status[o] = k.from => k.restores = deducted[o]
  /\ k.pc = "checkout" =>
       /\ txn[r] = [state |-> "created", order |-> o]
       /\ \A d \in Calls \ {c} : At(d, "checkout") => call[d].ref # r
  /\ k.pc \in {"verify", "unpaid"} => txn[r].order = o /\ txn[r].state # "unused"
  /\ k.pc \in {"claim", "settle"} => Took(r, o)
  /\ k.pc = "settle" => k.saw # "PAID" /\ StillPast(k.saw, o)
  /\ k.pc \in {"refund", "refunded"} =>
       Took(r, o) /\ k.from = "REFUND_PENDING" /\ status[o] \in Refunding
  /\ k.pc = "refunded" => txn[r].state = "refunded"

LinksGood ==
  \A o \in Orders :
    /\ payment[o].status # "NONE" => payment[o].ref \in Refs
    /\ payment[o].ref \in Refs =>
         /\ txn[payment[o].ref].order = o
         /\ txn[payment[o].ref].state \notin {"unused", "created"}

(* The inductive invariant: everything in flight can still be trusted, and the
   money invariants above hold. *)
MoneyInv ==
  /\ \A o \in Orders : status[o] # "PAID"
  /\ \A c \in Calls : LocalsGood(c)
  /\ LinksGood
  /\ PaidOrderGoesOn
  /\ RecordMatchesProvider
  /\ StockHeldOnlyWhileSold

-----------------------------------------------------------------------------
(* Liveness, under redelivery. *)

(* Money that was captured is recorded in the end: the order does not stay
   payable, and a cancelled order does not keep it. *)
CapturedMoneyCounts ==
  \A r \in Refs :
    txn[r].state = "paid" ~>
      status[txn[r].order] \notin Payable \cup {"CANCELLED"}


(* A refund that is owed is closed out: the order does not sit in REFUND_PENDING
   for ever once refunding it is possible at all (payments.service.ts:453). *)
RefundCompletes ==
  \A o \in Orders : status[o] = "REFUND_PENDING" ~> status[o] = "REFUNDED"

(* No request waits forever on a payment row another request has locked. *)
EveryHandlerEnds == \A c \in Calls : ~At(c, "idle") ~> At(c, "idle")

-----------------------------------------------------------------------------
(* The promise about money, kept by the code above (see Escrow). *)
Deal(s) ==
  CASE s \in Payable          -> "open"
    [] s = "CANCELLED"        -> "dropped"
    [] s = "REJECTED"         -> "refused"
    [] s = "REFUND_PENDING"   -> "owed"
    [] s = "REFUNDED"         -> "repaid"
    [] s = "DELIVERED"        -> "done"
    [] OTHER                  -> "sold"

MoneyCaptured(o) == \E r \in Refs : txn[r].order = o /\ txn[r].state \in {"paid", "refunded"}

Promise == INSTANCE Escrow WITH
  deal     <- [o \in Orders |-> IF o \in byHand THEN "closed" ELSE Deal(status[o])],
  captured <- [o \in Orders |-> MoneyCaptured(o)],
  returned <- [o \in Orders |-> MoneyReturned(o)]

(* Every step of the services is a step of the abstract promise, or changes
   nothing it talks about. *)
KeepsPromise == Promise!Spec
=============================================================================
