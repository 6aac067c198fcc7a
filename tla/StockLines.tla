----------------------------- MODULE StockLines -----------------------------
(* The stock of one supplier, line by line: the confirming transaction draws the
   lines of a paid order one after the other, a rejection puts them back one
   after the other, and the supplier types absolute figures in between. A row that
   a transaction has changed stays locked until it ends; two transactions that
   wait for each other's rows are a deadlock, which PostgreSQL ends by aborting
   one. Two transactions on one order never run together: they queue on its
   payment row or its status (module Checkout). *)
EXTENDS Warehouse

CONSTANT MaxFailures   \* bound: transactions that fail for want of a server

ASSUME FailuresAssumption == MaxFailures \in Nat

VARIABLES
  due,             \* orders with a charge.success event that is not acknowledged
  tx,              \* the open transaction of each order
  took,            \* history: what each order has had taken from each listing
  failures

vars == <<stock, order, due, tx, took, failures>>

Nothing == [l \in Listings |-> 0]
Closed == [pc |-> "closed", line |-> 1, moved |-> Nothing, short |-> FALSE]

TypeOK ==
  /\ stock \in [Listings -> Nat]
  /\ order \in [Orders -> [status : Statuses, source : Sources, items : Baskets \cup {<<>>},
                           deducted : BOOLEAN]]
  /\ due \subseteq Orders
  /\ tx \in [Orders -> [pc : {"closed", "draw", "restore"}, line : Nat \ {0},
                        moved : [Listings -> Int], short : BOOLEAN]]
  /\ took \in [Orders -> [Listings -> Int]]
  /\ failures \in 0 .. MaxFailures

LinesInit ==
  /\ Init
  /\ due = {}
  /\ tx = [o \in Orders |-> Closed]
  /\ took = [o \in Orders |-> Nothing]
  /\ failures = 0

-----------------------------------------------------------------------------
At(o, pc) == tx[o].pc = pc

\* the transaction has changed the row and so holds its lock
Holds(o, l) == tx[o].moved[l] # 0
HeldByAnother(o, l) == \E p \in Orders \ {o} : Holds(p, l)

Done(o) == tx[o].line > Len(order[o].items)
Line(o) == order[o].items[tx[o].line]

\* what the transaction sees of a row: what is committed, and its own changes
Seen(o, l) == stock[l] + tx[o].moved[l]

-----------------------------------------------------------------------------
\* createOrder: each line is compared with the stock on its own
EachFits(basket) == \A i \in DOMAIN basket : basket[i].litres <= stock[basket[i].listing]

PlaceOrder(o, basket) ==
  /\ EachFits(basket)
  /\ Place(o, "CATALOGUE", basket)
  /\ UNCHANGED <<due, tx, took, failures>>

\* acceptOffer makes an order of one line, and nobody looks at the listing
AwardOrder(o, basket) ==
  /\ Len(basket) = 1
  /\ Place(o, "REQUEST", basket)
  /\ UNCHANGED <<due, tx, took, failures>>

\* the buyer pays; the provider delivers the event until somebody acknowledges it
Capture(o) ==
  /\ order[o].status = "PENDING"
  /\ o \notin due
  /\ due' = due \cup {o}
  /\ UNCHANGED <<stock, order, tx, took, failures>>

-----------------------------------------------------------------------------
(* confirmPayment's transaction *)

DrawsDown(o) == order[o].source = "CATALOGUE"

BeginSale(o) ==
  /\ o \in due /\ order[o].status = "PENDING"
  /\ At(o, "closed")
  /\ tx' = [tx EXCEPT ![o].pc = "draw",
              ![o].line = IF DrawsDown(o) THEN 1 ELSE Len(order[o].items) + 1]
  /\ UNCHANGED <<stock, order, due, took, failures>>

\* The conditional decrement. A row that shows too little matches nothing and locks
\* nothing; one that shows enough must be free, and is looked at again then.
MutEnough(o, l, litres) == stock[l] >= litres
Enough(o, l, litres) == Seen(o, l) >= litres

DrawLine(o) ==
  LET l == Line(o).listing
      litres == Line(o).litres
  IN
  /\ At(o, "draw") /\ ~Done(o)
  /\ \/ /\ Enough(o, l, litres)
        /\ ~HeldByAnother(o, l)
        /\ tx' = [tx EXCEPT ![o].line = @ + 1, ![o].moved[l] = @ - litres]
     \/ /\ ~Enough(o, l, litres)
        /\ tx' = [tx EXCEPT ![o].line = @ + 1, ![o].short = TRUE]
  /\ UNCHANGED <<stock, order, due, took, failures>>

Commits(o) ==
  /\ stock' = [l \in Listings |-> Seen(o, l)]
  /\ took' = [took EXCEPT ![o] = [l \in Listings |-> @[l] - tx[o].moved[l]]]
  /\ tx' = [tx EXCEPT ![o] = Closed]

MutDeductedAfter(o) == TRUE
DeductedAfter(o) == ~tx[o].short

CommitSale(o) ==
  /\ At(o, "draw") /\ Done(o)
  /\ Commits(o)
  /\ order' = [order EXCEPT ![o].status = "AWAITING_CONFIRMATION",
                            ![o].deducted = DeductedAfter(o)]
  /\ due' = due \ {o}
  /\ UNCHANGED failures

-----------------------------------------------------------------------------
(* updateOrderStatus *)

Confirmed(o) ==
  /\ At(o, "closed")
  /\ Confirm(o)
  /\ UNCHANGED <<due, tx, took, failures>>

RejectUndrawn(o) ==
  /\ At(o, "closed")
  /\ ~order[o].deducted
  /\ Reject(o)
  /\ UNCHANGED <<due, tx, took, failures>>

BeginRejection(o) ==
  /\ At(o, "closed")
  /\ order[o].status = "AWAITING_CONFIRMATION" /\ order[o].deducted
  /\ tx' = [tx EXCEPT ![o].pc = "restore"]
  /\ UNCHANGED <<stock, order, due, took, failures>>

RestoreLine(o) ==
  LET l == Line(o).listing
  IN
  /\ At(o, "restore") /\ ~Done(o)
  /\ ~HeldByAnother(o, l)
  /\ tx' = [tx EXCEPT ![o].line = @ + 1, ![o].moved[l] = @ + Line(o).litres]
  /\ UNCHANGED <<stock, order, due, took, failures>>

CommitRejection(o) ==
  /\ At(o, "restore") /\ Done(o)
  /\ Commits(o)
  /\ order' = [order EXCEPT ![o].status = "REJECTED", ![o].deducted = FALSE]
  /\ UNCHANGED <<due, failures>>

-----------------------------------------------------------------------------
\* upsertFuelListing and updateFuelListing: one statement, an absolute figure
SetFigure(l, figure) ==
  /\ \A o \in Orders : ~Holds(o, l)
  /\ TypeIn(l, figure)
  /\ UNCHANGED <<due, tx, took, failures>>

\* everything a transaction did is undone
MutRolledBack(o) == [tx EXCEPT ![o].pc = "closed", ![o].line = 1]
RolledBack(o) == [tx EXCEPT ![o] = Closed]

\* the exception reaches the provider as an error: the event is not acknowledged
MutDueAfterError(o) == due \ {o}
DueAfterError(o) == due

Waits(o, p) ==
  /\ ~At(o, "closed") /\ ~Done(o)
  /\ At(o, "draw") => Enough(o, Line(o).listing, Line(o).litres)
  /\ p # o /\ Holds(p, Line(o).listing)

\* PostgreSQL aborts one transaction of a cycle, whichever noticed it first
Deadlocked(o) ==
  \E cycle \in SUBSET Orders :
    /\ o \in cycle
    /\ \A p \in cycle : (\E q \in cycle : Waits(p, q)) /\ (\E q \in cycle : Waits(q, p))

DeadlockVictim(o) ==
  /\ Deadlocked(o)
  /\ tx' = RolledBack(o)
  /\ due' = DueAfterError(o)
  /\ UNCHANGED <<stock, order, took, failures>>

\* the server stops, the connection breaks or the transaction times out
Fail(o) ==
  /\ ~At(o, "closed")
  /\ failures < MaxFailures
  /\ failures' = failures + 1
  /\ tx' = RolledBack(o)
  /\ due' = DueAfterError(o)
  /\ UNCHANGED <<stock, order, took>>

LinesNext ==
  \/ \E o \in Orders :
       \/ \E basket \in Baskets : PlaceOrder(o, basket) \/ AwardOrder(o, basket)
       \/ Capture(o) \/ BeginSale(o) \/ DrawLine(o) \/ CommitSale(o)
       \/ Confirmed(o) \/ RejectUndrawn(o)
       \/ BeginRejection(o) \/ RestoreLine(o) \/ CommitRejection(o)
       \/ DeadlockVictim(o) \/ Fail(o)
  \/ \E l \in Listings, figure \in Levels : SetFigure(l, figure)

LinesSpec == LinesInit /\ [][LinesNext]_vars

LineNumbers == UNION {DOMAIN basket : basket \in Baskets}

\* only one of these is possible at a time for an order
Proceeds(o) == BeginSale(o) \/ CommitSale(o) \/ CommitRejection(o) \/ DeadlockVictim(o)
MovesLine(o) == DrawLine(o) \/ RestoreLine(o)

(* An event is delivered until it is acknowledged, a transaction goes on, and a
   statement that waits for a row gets it in its turn (PostgreSQL queues them): no
   line is passed over for ever by transactions that come later. *)
FairLines ==
  /\ LinesSpec
  /\ \A o \in Orders :
       /\ WF_vars(Proceeds(o))
       /\ \A n \in LineNumbers : SF_vars(tx[o].line = n /\ MovesLine(o))

-----------------------------------------------------------------------------
(* Concurrent orders cannot oversell (payments.service.ts:279): no transaction,
   open or committed, takes a listing below zero, whatever waits, fails, is retried
   or names a fuel twice. *)
NeverOversold == \A o \in Orders, l \in Listings : stock[l] >= 0 /\ Seen(o, l) >= 0

\* all an order asks for
Wanted(o) ==
  [l \in Listings |-> Litres(order[o].items, DOMAIN order[o].items, l)]

(* The flag is what a rejection goes by (orders.service.ts:385). Where it is up, a
   catalogue order has had every line taken, and once only, even if its lines share a
   listing and the sale failed half-way and was tried again; an order agreed through a
   request has had none. *)
FlagMeansAllTaken ==
  \A o \in Orders : order[o].deducted =>
    took[o] = IF DrawsDown(o) THEN Wanted(o) ELSE Nothing

(* A rejection restores exactly what was taken (schema.prisma:264). *)
RestoresWhatWasTaken ==
  \A o \in Orders : order[o].status = "REJECTED" => took[o] = Nothing

(* Line by line, with locks, deadlocks, failures and retries, is as good as all at
   once: no figure is typed and no other sale comes in the middle of a sale. *)
KeepsWarehouse == Spec

(* Two sales that deadlock both go through in the end: the one that was aborted is
   delivered again (payments.service.ts:414). *)
PaidOrdersAreServed ==
  \A o \in Orders : o \in due ~> order[o].status # "PENDING"
=============================================================================
