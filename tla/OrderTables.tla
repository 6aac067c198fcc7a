---------------------------- MODULE OrderTables ----------------------------
(* The tables the order and payment services share (prisma/schema.prisma), and
   the requests in flight. A request is a record tagged with the await it has
   reached; the other fields are the locals the handler still uses after it.
   One action of the service modules runs a handler from one await to the next,
   or one whole database transaction whose statements no other transaction can
   tell apart. *)
EXTENDS Shop

VARIABLES
  status,          \* orders.status
  deducted,        \* orders.inventory_deducted
  history,         \* order_status_history: <<from, to>> rows of each order
  flagged,         \* an order has a "manual review required" note in its history
  payment,         \* the payments row of each order
  stock,           \* supplier_fuels.available_quantity
  notices,         \* notifications rows about orders
  call             \* what each request slot of the server is doing

tableVars == <<status, deducted, history, flagged, payment, stock, notices>>

PaymentStatuses == {"NONE", "PENDING", "SUCCESS", "FAILED", "ABANDONED", "REFUNDED"}
Payments == [status : PaymentStatuses, ref : Refs \cup {NoRef}]
Rows == (OrderStatuses \cup {"NONE"}) \X OrderStatuses

\* orderNotification: who hears about an order reaching a status
Recipient(s) ==
  CASE s \in {"CONFIRMED", "OUT_FOR_DELIVERY", "REJECTED"} -> {"CUSTOMER"}
    [] s = "DELIVERED"                                     -> {"SUPPLIER"}
    [] OTHER                                               -> {}

Notices == [order : Orders, about : OrderStatuses, to : OrderActors]

Idle == [pc |-> "idle"]

\* pc names the step the handler takes next
InFlight ==
  [pc : {"update"}, order : Orders, from : OrderStatuses, target : OrderStatuses,
   restores : BOOLEAN, owes : BOOLEAN]
  \cup [pc : {"notify"}, order : Orders, target : OrderStatuses]
  \cup [pc : {"checkout"}, order : Orders, from : OrderStatuses, ref : Refs]
  \cup [pc : {"verify"}, order : Orders, ref : Refs, current : BOOLEAN, hook : BOOLEAN]
  \cup [pc : {"unpaid"}, order : Orders, ref : Refs, hook : BOOLEAN,
        outcome : {"FAILED", "ABANDONED"}]
  \cup [pc : {"claim"}, order : Orders, ref : Refs, hook : BOOLEAN]
  \cup [pc : {"settle"}, order : Orders, ref : Refs, hook : BOOLEAN, saw : OrderStatuses]
  \cup [pc : {"refund", "refunded"}, order : Orders, ref : Refs, from : OrderStatuses]

TablesTypeOK ==
  /\ status \in [Orders -> OrderStatuses]
  /\ deducted \in [Orders -> BOOLEAN]
  /\ history \in [Orders -> Seq(Rows)]
  /\ flagged \in [Orders -> BOOLEAN]
  /\ payment \in [Orders -> Payments]
  /\ stock \in [Listings -> Nat]
  /\ notices \subseteq Notices
  /\ call \in [Calls -> InFlight \cup {Idle}]

\* createOrder: the order and its first history row, in one transaction
TablesInit ==
  /\ status = [o \in Orders |-> "PENDING"]
  /\ deducted = [o \in Orders |-> FALSE]
  /\ history = [o \in Orders |-> <<<<"NONE", "PENDING">>>>]
  /\ flagged = [o \in Orders |-> FALSE]
  /\ payment = [o \in Orders |-> [status |-> "NONE", ref |-> NoRef]]
  /\ stock = InitStock
  /\ notices = {}
  /\ call = [c \in Calls |-> Idle]

-----------------------------------------------------------------------------
Become(c, local) == call' = [call EXCEPT ![c] = local]

Return(c) == Become(c, Idle)

At(c, pc) == call[c].pc = pc

\* The request leaves with an exception: its transaction, if one is open, rolls
\* back. A crash of the server and a provider that does not answer look the same.
Abandon(c) ==
  /\ ~At(c, "idle")
  /\ Return(c)
  /\ UNCHANGED tableVars

MutLocked(o) == \E c \in Calls : call[c].pc \in {"claim", "settle"} /\ call[c].order = o

\* A confirmation's open transaction holds the row lock of the payment it claimed.
Locked(o) == \E c \in Calls : At(c, "settle") /\ call[c].order = o
=============================================================================
