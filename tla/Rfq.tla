-------------------------------- MODULE Rfq --------------------------------
(* RequestsService: suppliers bid on a buyer's request, the buyer awards it to one
   of them or cancels it. Each handler is cut at its awaits. The two interactive
   transactions are cut between their statements, which run READ COMMITTED: a
   statement sees what was committed when it started, an UPDATE waits for a row
   another transaction has changed and then checks its condition again on that
   row. Which rows an open transaction holds is read off its call record, and its
   writes take effect when it commits. *)
EXTENDS Integers, FiniteSets

CONSTANTS
  Requests,        \* fuel requests, each posted by one buyer
  Suppliers,       \* suppliers that trade and deliver to the requests' area
  Prices, NoPrice, \* what a bid may ask for
  Calls,           \* how many API calls the server works on at once
  MayCrash         \* whether a call may die between two awaits

ASSUME RfqAssumption == NoPrice \notin Prices /\ MayCrash \in BOOLEAN

VARIABLES
  request,         \* fuel_requests.status
  offer,           \* offers: the row of each request and supplier, if there is one
  orders,          \* orders created from a request
  told,            \* award notifications of a request each supplier has received
  call             \* what each call is doing

vars == <<request, offer, orders, told, call>>

RequestStatuses == {"OPEN", "AWARDED", "CANCELLED"}
OfferStatuses == {"NONE", "PENDING", "ACCEPTED", "REJECTED", "WITHDRAWN"}
NoOffer == [status |-> "NONE", price |-> NoPrice]
Offers == {NoOffer} \cup [status : OfferStatuses \ {"NONE"}, price : Prices]
\* UPDATE offers SET status
Mark(row, status) == [status |-> status, price |-> row.price]

Orders == [supplier : Suppliers, price : Prices]
Outcomes == {"OFFER_ACCEPTED", "OFFER_REJECTED"}

Idle == [pc |-> "idle"]

\* pc names the statement the handler runs next
InFlight ==
  [pc : {"claim", "take", "announce"}, request : Requests,
   supplier : Suppliers, rivals : SUBSET Suppliers]
  \cup [pc : {"award"}, request : Requests, supplier : Suppliers,
        rivals : SUBSET Suppliers, price : Prices]
  \cup [pc : {"reject"}, request : Requests]
  \cup [pc : {"drop"}, request : Requests, bids : SUBSET Suppliers]
  \cup [pc : {"withdraw"}, request : Requests, supplier : Suppliers]
  \cup [pc : {"create", "revise", "rewrite"}, request : Requests,
        supplier : Suppliers, price : Prices]

TypeOK ==
  /\ request \in [Requests -> RequestStatuses]
  /\ offer \in [Requests -> [Suppliers -> Offers]]
  /\ orders \in [Requests -> SUBSET Orders]
  /\ told \in [Requests -> [Suppliers -> SUBSET Outcomes]]
  /\ call \in [Calls -> InFlight \cup {Idle}]

\* createRequest has committed each request
Init ==
  /\ request = [q \in Requests |-> "OPEN"]
  /\ offer = [q \in Requests |-> [s \in Suppliers |-> NoOffer]]
  /\ orders = [q \in Requests |-> {}]
  /\ told = [q \in Requests |-> [s \in Suppliers |-> {}]]
  /\ call = [c \in Calls |-> Idle]

-----------------------------------------------------------------------------
At(c, pc) == call[c].pc = pc
Become(c, local) == call' = [call EXCEPT ![c] = local]
Goto(c, pc) == Become(c, [call[c] EXCEPT !.pc = pc])
Return(c) == Become(c, Idle)

Tables == <<request, offer, orders, told>>

Pending(q) == {s \in Suppliers : offer[q][s].status = "PENDING"}

\* rows written by a transaction that has not committed
HoldsRequest(c, q) == call[c].pc \in {"take", "award"} /\ call[c].request = q

MutHoldsOffer(c, q, s) ==
  At(c, "drop") /\ call[c].request = q /\ s \in call[c].bids

HoldsOffer(c, q, s) ==
  \/ At(c, "award") /\ call[c].request = q /\ call[c].supplier = s
  \/ At(c, "drop") /\ call[c].request = q /\ s \in call[c].bids

RequestFree(c, q) == \A d \in Calls \ {c} : ~HoldsRequest(d, q)
OffersFree(c, q, S) == \A d \in Calls \ {c}, s \in S : ~HoldsOffer(d, q, s)

-----------------------------------------------------------------------------
(* acceptOffer *)

\* the request with its offers, as they are before the transaction
AcceptRead(c, q, s) ==
  /\ At(c, "idle")
  /\ request[q] = "OPEN"
  /\ offer[q][s].status = "PENDING"
  /\ Become(c, [pc |-> "claim", request |-> q, supplier |-> s,
                rivals |-> Pending(q) \ {s}])
  /\ UNCHANGED Tables

\* UPDATE fuel_requests ... WHERE status = 'OPEN': the row, or 409
ClaimRequest(c) ==
  /\ At(c, "claim")
  /\ RequestFree(c, call[c].request)
  /\ IF request[call[c].request] = "OPEN" THEN Goto(c, "take") ELSE Return(c)
  /\ UNCHANGED Tables

\* the accepted offer's row is held from here on, and its price read again
Hold(c, q, s) ==
  Become(c, [pc |-> "award", request |-> q, supplier |-> s, rivals |-> call[c].rivals,
             price |-> offer[q][s].price])

MutTakeWhatWasRead(c) ==
  /\ At(c, "take")
  /\ OffersFree(c, call[c].request, {call[c].supplier})
  /\ Hold(c, call[c].request, call[c].supplier)
  /\ UNCHANGED Tables

MutTakeSwallows(c) ==
  LET q == call[c].request
      s == call[c].supplier
  IN
  /\ At(c, "take")
  /\ OffersFree(c, q, {s})
  /\ IF offer[q][s].status = "PENDING" THEN Hold(c, q, s)
     ELSE Become(c, [pc |-> "announce", request |-> q, supplier |-> s,
                     rivals |-> call[c].rivals])
  /\ UNCHANGED Tables

MutTakeWaits(c) ==
  /\ At(c, "take")
  /\ OffersFree(c, call[c].request, {call[c].supplier})
  /\ offer[call[c].request][call[c].supplier].status = "PENDING"
  /\ Hold(c, call[c].request, call[c].supplier)
  /\ UNCHANGED Tables

\* UPDATE offers ... WHERE status = 'PENDING': the row, or 409 and a rollback
TakeOffer(c) ==
  LET q == call[c].request
      s == call[c].supplier
  IN
  /\ At(c, "take")
  /\ OffersFree(c, q, {s})
  /\ IF offer[q][s].status = "PENDING" THEN Hold(c, q, s) ELSE Return(c)
  /\ UNCHANGED Tables

\* every other bid that is pending now, as the last UPDATE of the award finds it
Rivals(q, s) == Pending(q) \ {s}

Decided(row, s, rivals) ==
  [r \in Suppliers |->
     CASE r = s       -> Mark(row[r], "ACCEPTED")
       [] r \in rivals -> Mark(row[r], "REJECTED")
       [] OTHER       -> row[r]]

MutStaysOpen(c) ==
  LET q == call[c].request
      s == call[c].supplier
  IN
  /\ At(c, "award")
  /\ OffersFree(c, q, Rivals(q, s))
  /\ orders' = [orders EXCEPT ![q] = @ \cup {[supplier |-> s, price |-> call[c].price]}]
  /\ offer' = [offer EXCEPT ![q] = Decided(@, s, Rivals(q, s))]
  /\ Goto(c, "announce")
  /\ UNCHANGED <<request, told>>

\* the order at the locked price, the rivals rejected, the request closed: COMMIT
CommitAward(c) ==
  LET q == call[c].request
      s == call[c].supplier
  IN
  /\ At(c, "award")
  /\ OffersFree(c, q, Rivals(q, s))
  /\ request' = [request EXCEPT ![q] = "AWARDED"]
  /\ orders' = [orders EXCEPT ![q] = @ \cup {[supplier |-> s, price |-> call[c].price]}]
  /\ offer' = [offer EXCEPT ![q] = Decided(@, s, Rivals(q, s))]
  /\ Become(c, [pc |-> "announce", request |-> q, supplier |-> s,
                rivals |-> call[c].rivals])
  /\ UNCHANGED told

\* announceAward: the winner, and the rivals the handler read at its start
MutLosers(c) == Rivals(call[c].request, call[c].supplier)
Losers(c) == call[c].rivals

AnnounceAward(c) ==
  LET q == call[c].request
      s == call[c].supplier
  IN
  /\ At(c, "announce")
  /\ told' = [told EXCEPT ![q] =
       [r \in Suppliers |->
          CASE r = s          -> @[r] \cup {"OFFER_ACCEPTED"}
            [] r \in Losers(c) -> @[r] \cup {"OFFER_REJECTED"}
            [] OTHER          -> @[r]]]
  /\ Return(c)
  /\ UNCHANGED <<request, offer, orders>>

-----------------------------------------------------------------------------
(* cancelRequest *)

MutCancelRead(c, q) ==
  /\ At(c, "idle")
  /\ Become(c, [pc |-> "reject", request |-> q])
  /\ UNCHANGED Tables

CancelRead(c, q) ==
  /\ At(c, "idle")
  /\ request[q] = "OPEN"
  /\ Become(c, [pc |-> "reject", request |-> q])
  /\ UNCHANGED Tables

\* UPDATE offers ... WHERE status = 'PENDING', in the transaction
RejectBids(c) ==
  LET q == call[c].request IN
  /\ At(c, "reject")
  /\ OffersFree(c, q, Pending(q))
  /\ Become(c, [pc |-> "drop", request |-> q, bids |-> Pending(q)])
  /\ UNCHANGED Tables

\* UPDATE fuel_requests, whatever its status is by now: COMMIT
DropRequest(c) ==
  LET q == call[c].request IN
  /\ At(c, "drop")
  /\ RequestFree(c, q)
  /\ request' = [request EXCEPT ![q] = "CANCELLED"]
  /\ offer' = [offer EXCEPT ![q] =
       [s \in Suppliers |->
          IF s \in call[c].bids THEN Mark(@[s], "REJECTED") ELSE @[s]]]
  /\ Return(c)
  /\ UNCHANGED <<orders, told>>

-----------------------------------------------------------------------------
(* withdrawOffer *)

WithdrawRead(c, q, s) ==
  /\ At(c, "idle")
  /\ offer[q][s].status = "PENDING"
  /\ Become(c, [pc |-> "withdraw", request |-> q, supplier |-> s])
  /\ UNCHANGED Tables

\* UPDATE offers, whatever the offer's status is by now
Withdraw(c) ==
  /\ At(c, "withdraw")
  /\ OffersFree(c, call[c].request, {call[c].supplier})
  /\ offer' = [offer EXCEPT ![call[c].request][call[c].supplier] = Mark(@, "WITHDRAWN")]
  /\ Return(c)
  /\ UNCHANGED <<request, orders, told>>

-----------------------------------------------------------------------------
(* submitOffer *)

\* the request, then the supplier's offer on it: a first bid or a revision
SubmitRead(c, q, s, p) ==
  /\ At(c, "idle")
  /\ request[q] = "OPEN"
  /\ offer[q][s].status # "ACCEPTED"
  /\ Become(c, [pc |-> IF offer[q][s].status = "NONE" THEN "create" ELSE "revise",
                request |-> q, supplier |-> s, price |-> p])
  /\ UNCHANGED Tables

\* INSERT; the unique index turns a second first bid into a 409
CreateOffer(c) ==
  LET q == call[c].request
      s == call[c].supplier
  IN
  /\ At(c, "create")
  /\ IF offer[q][s].status = "NONE"
     THEN offer' = [offer EXCEPT ![q][s] = [status |-> "PENDING", price |-> call[c].price]]
     ELSE UNCHANGED offer
  /\ Return(c)
  /\ UNCHANGED <<request, orders, told>>

\* reviseOffer's single UPDATE starts: what its subquery says of the request, and
\* which row it is after, is fixed now
ReviseBegins(c) ==
  LET q == call[c].request
      s == call[c].supplier
  IN
  /\ At(c, "revise")
  /\ IF request[q] = "OPEN" /\ offer[q][s].status # "ACCEPTED"
     THEN Goto(c, "rewrite")
     ELSE Return(c)
  /\ UNCHANGED Tables

\* the UPDATE reaches the row, and checks the row again if it has changed since
MutReviseLands(c) ==
  LET q == call[c].request
      s == call[c].supplier
  IN
  /\ At(c, "rewrite")
  /\ OffersFree(c, q, {s})
  /\ offer' = [offer EXCEPT ![q][s] = [status |-> "PENDING", price |-> call[c].price]]
  /\ Return(c)
  /\ UNCHANGED <<request, orders, told>>

ReviseLands(c) ==
  LET q == call[c].request
      s == call[c].supplier
  IN
  /\ At(c, "rewrite")
  /\ OffersFree(c, q, {s})
  /\ IF offer[q][s].status # "ACCEPTED"
     THEN offer' = [offer EXCEPT ![q][s] = [status |-> "PENDING", price |-> call[c].price]]
     ELSE UNCHANGED offer
  /\ Return(c)
  /\ UNCHANGED <<request, orders, told>>

-----------------------------------------------------------------------------
\* PostgreSQL aborts one transaction of a deadlock, and Prisma one that has been
\* open for five seconds: nothing it wrote takes effect.
Waiting(c) ==
  \/ call[c].pc \in {"claim", "drop"} /\ ~RequestFree(c, call[c].request)
  \/ At(c, "take") /\ ~OffersFree(c, call[c].request, {call[c].supplier})
  \/ At(c, "award") /\ ~OffersFree(c, call[c].request, Rivals(call[c].request, call[c].supplier))
  \/ At(c, "reject") /\ ~OffersFree(c, call[c].request, Pending(call[c].request))

Abort(c) == Waiting(c) /\ Return(c) /\ UNCHANGED Tables

\* the server stops, or the database cannot be reached
Crash(c) == MayCrash /\ ~At(c, "idle") /\ Return(c) /\ UNCHANGED Tables

Handle(c) ==
  \/ ClaimRequest(c) \/ TakeOffer(c) \/ CommitAward(c) \/ AnnounceAward(c)
  \/ RejectBids(c) \/ DropRequest(c)
  \/ Withdraw(c)
  \/ CreateOffer(c) \/ ReviseBegins(c) \/ ReviseLands(c)

Submit(c) ==
  \E q \in Requests, s \in Suppliers :
    \/ AcceptRead(c, q, s)
    \/ CancelRead(c, q)
    \/ WithdrawRead(c, q, s)
    \/ \E p \in Prices : SubmitRead(c, q, s, p)

Next == \E c \in Calls : Submit(c) \/ Handle(c) \/ Abort(c) \/ Crash(c)

Spec == Init /\ [][Next]_vars

\* A handler that can go on does: row locks are granted in turn, and a transaction
\* that waits for ever is aborted.
LiveSpec == Spec /\ \A c \in Calls : SF_vars(Handle(c)) /\ WF_vars(Abort(c))

-----------------------------------------------------------------------------
(* A request is awarded once (requests.service.ts:433): two clicks, or a click
   and a cancellation, never make two orders of it, and a request that says
   AWARDED has its order. *)
AwardedOnce ==
  \A q \in Requests :
    /\ Cardinality(orders[q]) <= 1
    /\ request[q] = "AWARDED" => orders[q] # {}

(* The accepted offer is the one the order was made from, at the same price, even
   if the supplier changed the price while the buyer clicked
   (requests.service.ts:484). *)
AcceptedIsTheOrder ==
  \A q \in Requests, s \in Suppliers :
    offer[q][s].status = "ACCEPTED" =>
      orders[q] = {[supplier |-> s, price |-> offer[q][s].price]}

(* A supplier is told it won only when there is an order of its bid, and never
   both that it won and that it lost (requests.service.ts:534). *)
WinnerIsReal ==
  \A q \in Requests, s \in Suppliers :
    "OFFER_ACCEPTED" \in told[q][s] =>
      /\ \E o \in orders[q] : o.supplier = s
      /\ "OFFER_REJECTED" \notin told[q][s]

(* Why: what a call may rely on while other calls run. *)

\* two transactions never hold the same row
Exclusive ==
  \A c, d \in Calls, q \in Requests :
    c # d =>
      /\ ~(HoldsRequest(c, q) /\ HoldsRequest(d, q))
      /\ \A s \in Suppliers : ~(HoldsOffer(c, q, s) /\ HoldsOffer(d, q, s))

\* nobody else has changed a row an open transaction holds
HeldRows(c) ==
  LET k == call[c]
      row == offer[call[c].request]
  IN
  /\ k.pc \in {"take", "award"} => request[k.request] = "OPEN"
  /\ k.pc = "award" => row[k.supplier] = [status |-> "PENDING", price |-> k.price]
  /\ k.pc = "drop" => \A s \in k.bids : row[s].status = "PENDING"

\* what the reads and earlier statements of a call have established for good
Known(c) ==
  LET k == call[c] IN
  /\ k.pc \in {"claim", "take", "award", "announce"} => k.supplier \notin k.rivals
  /\ k.pc = "withdraw" => offer[k.request][k.supplier] # NoOffer
  /\ k.pc = "announce" => \E o \in orders[k.request] : o.supplier = k.supplier

OneOrder(q) == \A o, p \in orders[q] : o = p

(* The inductive invariant: rows are held by one transaction at a time, so an
   open request has no order, a request has one order at most, and what suppliers
   were told agrees with it. *)
RfqInv ==
  /\ Exclusive
  /\ \A c \in Calls : HeldRows(c) /\ Known(c)
  /\ \A q \in Requests :
       /\ OneOrder(q)
       /\ orders[q] # {} => request[q] # "OPEN"
       /\ request[q] = "AWARDED" => orders[q] # {}
       /\ \A s \in Suppliers :
            /\ "OFFER_ACCEPTED" \in told[q][s] => \E o \in orders[q] : o.supplier = s
            /\ "OFFER_REJECTED" \in told[q][s] =>
                 orders[q] # {} /\ \A o \in orders[q] : o.supplier # s
  /\ AcceptedIsTheOrder

(* An award is never undone by a price change (requests.service.ts:343): whoever
   takes an offer out of ACCEPTED is withdrawing it. *)
RevisionUndoesNoAward ==
  [][\A q \in Requests, s \in Suppliers :
       offer[q][s].status = "ACCEPTED" /\ offer'[q][s] # offer[q][s] =>
         offer'[q][s] = Mark(offer[q][s], "WITHDRAWN")]_vars

(* Accepting and cancelling lock the same rows in opposite orders; nobody waits
   for ever all the same (requests.service.ts:181 and 466). *)
EveryCallEnds == \A c \in Calls : ~At(c, "idle") ~> At(c, "idle")

\* the price each bid asks for while it stands
Standing ==
  [q \in Requests |-> [s \in Suppliers |->
     IF offer[q][s].status = "PENDING" THEN offer[q][s].price ELSE NoPrice]]

\* what an award promises (see Tender)
TheTender == INSTANCE Tender WITH bid <- Standing, agreed <- orders

(* Whatever overlaps, a request is agreed once, at the price that stood at that
   moment, and the agreement is not touched again. *)
KeepsTender == TheTender!Spec

-----------------------------------------------------------------------------
(* What outlives a decision is only what was in flight when it was made. *)

InFlightOn(q, pcs) == \E c \in Calls : call[c].pc \in pcs /\ call[c].request = q

\* awarded, and no cancellation that read the request before the award is left
AwardedForGood(q) == request[q] = "AWARDED" /\ ~InFlightOn(q, {"reject", "drop"})

\* accepted, and no withdrawal that read the offer before that is left
AcceptedForGood(q, s) ==
  /\ offer[q][s].status = "ACCEPTED"
  /\ ~\E c \in Calls : At(c, "withdraw") /\ call[c].request = q /\ call[c].supplier = s

\* closed, and no bid that read the request before that is left
ClosedForGood(q) == request[q] # "OPEN" /\ ~InFlightOn(q, {"create", "revise", "rewrite"})

(* An award, an acceptance and a closed list of bids can only be undone by a
   cancellation, a withdrawal or a bid that had read its row before (requests.service.ts:186,
   425 and 373 write without asking again): once those have ended, the request stays
   awarded, the offer stays as it was accepted, and no bid comes to stand. *)
DecisionsStand ==
  [][\A q \in Requests :
       /\ AwardedForGood(q) => AwardedForGood(q)'
       /\ \A s \in Suppliers :
            AcceptedForGood(q, s) => AcceptedForGood(q, s)' /\ offer'[q][s] = offer[q][s]
       /\ ClosedForGood(q) => ClosedForGood(q)' /\ Pending(q)' \subseteq Pending(q)]_vars
=============================================================================
