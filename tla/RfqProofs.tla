----------------------------- MODULE RfqProofs -----------------------------
(* Theorems about Rfq, for every set of requests, suppliers, prices and calls. *)
EXTENDS Rfq, FiniteSetTheorems, TLAPS

USE RfqAssumption

-----------------------------------------------------------------------------
(* What a call that is at a given statement carries. *)
LEMMA LocalsTyped ==
  ASSUME NEW c \in Calls, call \in [Calls -> InFlight \cup {Idle}], ~At(c, "idle")
  PROVE  /\ call[c] \in InFlight
         /\ call[c].request \in Requests
         /\ call[c].pc \in {"claim", "take", "award", "announce", "withdraw", "create",
                            "revise", "rewrite"} => call[c].supplier \in Suppliers
         /\ call[c].pc \in {"claim", "take", "award", "announce"} =>
              call[c].rivals \in SUBSET Suppliers
         /\ call[c].pc = "drop" => call[c].bids \in SUBSET Suppliers
         /\ call[c].pc \in {"award", "create", "revise", "rewrite"} => call[c].price \in Prices
  BY DEF InFlight, Idle, At

(* The offers are rows or absent, and only a row has a status but NONE. *)
LEMMA RowTyped ==
  ASSUME TypeOK, NEW q \in Requests, NEW s \in Suppliers
  PROVE  /\ offer[q] \in [Suppliers -> Offers]
         /\ offer[q][s] \in Offers
         /\ offer[q][s].status = "NONE" <=> offer[q][s] = NoOffer
         /\ offer[q][s] # NoOffer =>
              offer[q][s] = [status |-> offer[q][s].status, price |-> offer[q][s].price]
              /\ offer[q][s].price \in Prices
  BY DEF TypeOK, Offers, NoOffer, OfferStatuses

(* A step that changes no table and moves one call to a state that is right for
   the tables as they are, and holds no row another call holds, keeps the invariant. *)
LEMMA LocalMove ==
  ASSUME TypeOK, RfqInv, NEW c \in Calls, NEW local \in InFlight \cup {Idle},
         Become(c, local), UNCHANGED Tables,
         (HeldRows(c) /\ Known(c))',
         \A d \in Calls \ {c} :
           /\ local.pc \in {"take", "award"} => ~HoldsRequest(d, local.request)
           /\ local.pc = "award" => ~HoldsOffer(d, local.request, local.supplier)
           /\ local.pc = "drop" => \A s \in local.bids : ~HoldsOffer(d, local.request, s)
  PROVE  TypeOK' /\ RfqInv'
<1> USE DEF Become, Tables
<1>1. call' \in [Calls -> InFlight \cup {Idle}] /\ call'[c] = local
  BY DEF TypeOK
<1>2. TypeOK'
  BY <1>1 DEF TypeOK
<1>3. \A d \in Calls \ {c} : call'[d] = call[d]
  BY DEF TypeOK
<1>4. \A d \in Calls : (HeldRows(d) /\ Known(d))'
  BY <1>3 DEF RfqInv, HeldRows, Known
<1>5. Exclusive'
  <2> SUFFICES ASSUME NEW b \in Calls, NEW d \in Calls, NEW q \in Requests, b # d
               PROVE  /\ ~(HoldsRequest(b, q) /\ HoldsRequest(d, q))'
                      /\ \A s \in Suppliers : ~(HoldsOffer(b, q, s) /\ HoldsOffer(d, q, s))'
    BY DEF Exclusive
  <2> USE DEF HoldsRequest, HoldsOffer, At
  <2>1. CASE b # c /\ d # c
    BY <1>3, <2>1 DEF RfqInv, Exclusive
  <2>2. CASE b = c
    BY <1>1, <1>3, <2>2
  <2>3. CASE d = c
    BY <1>1, <1>3, <2>3
  <2> QED  BY <2>1, <2>2, <2>3
<1>6. RfqInv'
  BY <1>4, <1>5 DEF RfqInv, OneOrder, AcceptedIsTheOrder
<1> QED  BY <1>2, <1>6

(* An exception, a rollback and a crash change nothing. *)
LEMMA Leaves ==
  ASSUME TypeOK, RfqInv, NEW c \in Calls, Return(c), UNCHANGED Tables
  PROVE  TypeOK' /\ RfqInv'
<1>1. call'[c] = Idle
  BY DEF Return, Become, TypeOK
<1>2. (HeldRows(c) /\ Known(c))'
  BY <1>1 DEF Idle, HeldRows, Known
<1>3. Become(c, Idle) /\ Idle \in InFlight \cup {Idle} /\ Idle.pc = "idle"
  BY DEF Return, Idle
<1> QED  BY <1>2, <1>3, LocalMove

-----------------------------------------------------------------------------
(* The reads and the statements whose effect waits for the commit. *)
LEMMA ReadsStep ==
  ASSUME TypeOK, RfqInv, NEW c \in Calls, Submit(c)
  PROVE  TypeOK' /\ RfqInv'
<1> PICK q \in Requests, s \in Suppliers :
      \/ AcceptRead(c, q, s) \/ CancelRead(c, q) \/ WithdrawRead(c, q, s)
      \/ \E p \in Prices : SubmitRead(c, q, s, p)
  BY DEF Submit
<1>1. CASE AcceptRead(c, q, s)
  <2> DEFINE local == [pc |-> "claim", request |-> q, supplier |-> s, rivals |-> Pending(q) \ {s}]
  <2>1. local \in InFlight /\ Become(c, local) /\ UNCHANGED Tables
    BY <1>1 DEF AcceptRead, InFlight, Pending
  <2>2. call'[c] = local
    BY <2>1 DEF Become, TypeOK
  <2>3. (HeldRows(c) /\ Known(c))'
    BY <2>2 DEF HeldRows, Known
  <2>9. local.pc \notin {"take", "award", "drop"}
    OBVIOUS
  <2> HIDE DEF local
  <2> QED  BY <2>1, <2>3, <2>9, LocalMove
<1>2. CASE CancelRead(c, q)
  <2> DEFINE local == [pc |-> "reject", request |-> q]
  <2>1. local \in InFlight /\ Become(c, local) /\ UNCHANGED Tables
    BY <1>2 DEF CancelRead, InFlight
  <2>2. call'[c] = local
    BY <2>1 DEF Become, TypeOK
  <2>3. (HeldRows(c) /\ Known(c))'
    BY <2>2 DEF HeldRows, Known
  <2>9. local.pc \notin {"take", "award", "drop"}
    OBVIOUS
  <2> HIDE DEF local
  <2> QED  BY <2>1, <2>3, <2>9, LocalMove
<1>3. CASE WithdrawRead(c, q, s)
  <2> DEFINE local == [pc |-> "withdraw", request |-> q, supplier |-> s]
  <2>1. local \in InFlight /\ Become(c, local) /\ UNCHANGED Tables
    BY <1>3 DEF WithdrawRead, InFlight
  <2>2. call'[c] = local
    BY <2>1 DEF Become, TypeOK
  <2>3. offer'[q][s] # NoOffer
    BY <1>3 DEF WithdrawRead, Tables, NoOffer
  <2>4. (HeldRows(c) /\ Known(c))'
    BY <2>2, <2>3 DEF HeldRows, Known
  <2>9. local.pc \notin {"take", "award", "drop"}
    OBVIOUS
  <2> HIDE DEF local
  <2> QED  BY <2>1, <2>4, <2>9, LocalMove
<1>4. CASE \E p \in Prices : SubmitRead(c, q, s, p)
  <2> PICK p \in Prices : SubmitRead(c, q, s, p)
    BY <1>4
  <2> DEFINE step == IF offer[q][s].status = "NONE" THEN "create" ELSE "revise"
             local == [pc |-> step, request |-> q, supplier |-> s, price |-> p]
  <2>1. local \in InFlight /\ Become(c, local) /\ UNCHANGED Tables
    BY DEF SubmitRead, InFlight
  <2>2. call'[c] = local /\ local.pc \in {"create", "revise"}
    BY <2>1 DEF Become, TypeOK
  <2>3. (HeldRows(c) /\ Known(c))'
    BY <2>2 DEF HeldRows, Known
  <2>9. local.pc \notin {"take", "award", "drop"}
    OBVIOUS
  <2> HIDE DEF local
  <2> QED  BY <2>1, <2>3, <2>9, LocalMove
<1> QED  BY <1>1, <1>2, <1>3, <1>4

LEMMA ClaimStep ==
  ASSUME TypeOK, RfqInv, NEW c \in Calls, ClaimRequest(c)
  PROVE  TypeOK' /\ RfqInv'
<1> DEFINE q == call[c].request
           local == [call[c] EXCEPT !.pc = "take"]
<1>0. At(c, "claim") /\ q \in Requests /\ call[c] \in InFlight /\ UNCHANGED Tables
  BY LocalsTyped DEF ClaimRequest, TypeOK, At
<1>1. CASE request[q] = "OPEN"
  <2>1. Become(c, local)
    BY <1>1 DEF ClaimRequest, Goto
  <2>2. /\ local \in InFlight
        /\ local.pc = "take" /\ local.request = q
        /\ local.supplier = call[c].supplier /\ local.rivals = call[c].rivals
    BY <1>0 DEF InFlight, At
  <2>3. call'[c] = local
    BY <2>1 DEF Become, TypeOK
  <2>4. (HeldRows(c) /\ Known(c))'
    <3>1. call[c].supplier \notin call[c].rivals
      BY <1>0 DEF RfqInv, Known, At
    <3> QED  BY <1>0, <1>1, <2>2, <2>3, <3>1 DEF HeldRows, Known, Tables
  <2>5. \A d \in Calls \ {c} : ~HoldsRequest(d, q)
    BY DEF ClaimRequest, RequestFree
  <2> HIDE DEF local
  <2> QED  BY <1>0, <2>1, <2>2, <2>4, <2>5, LocalMove
<1>2. CASE request[q] # "OPEN"
  BY <1>0, <1>2, Leaves DEF ClaimRequest
<1> QED  BY <1>1, <1>2

LEMMA TakeStep ==
  ASSUME TypeOK, RfqInv, NEW c \in Calls, TakeOffer(c)
  PROVE  TypeOK' /\ RfqInv'
<1> DEFINE q == call[c].request
           s == call[c].supplier
           local == [pc |-> "award", request |-> q, supplier |-> s,
                     rivals |-> call[c].rivals, price |-> offer[q][s].price]
<1>0. /\ At(c, "take") /\ UNCHANGED Tables
      /\ q \in Requests /\ s \in Suppliers /\ call[c].rivals \in SUBSET Suppliers
  BY LocalsTyped DEF TakeOffer, TypeOK, At
<1>1. CASE offer[q][s].status = "PENDING"
  <2>1. Become(c, local)
    BY <1>1 DEF TakeOffer, Hold
  <2>2. offer[q][s] = [status |-> "PENDING", price |-> offer[q][s].price]
        /\ offer[q][s].price \in Prices
    BY <1>0, <1>1, RowTyped DEF NoOffer
  <2>3. local \in InFlight
    BY <1>0, <2>2 DEF InFlight
  <2>4. call'[c] = local
    BY <2>1 DEF Become, TypeOK
  <2>5. (HeldRows(c) /\ Known(c))'
    <3>1. request[q] = "OPEN" /\ s \notin call[c].rivals
      BY <1>0 DEF RfqInv, HeldRows, Known, At
    <3> HIDE DEF q, s
    <3> QED  BY <1>0, <2>2, <2>4, <3>1 DEF HeldRows, Known, Tables
  <2>6. \A d \in Calls \ {c} : ~HoldsRequest(d, q) /\ ~HoldsOffer(d, q, s)
    <3>1. HoldsRequest(c, q)
      BY <1>0 DEF HoldsRequest, At
    <3> QED  BY <1>0, <3>1 DEF TakeOffer, OffersFree, RfqInv, Exclusive
  <2>7. local.pc = "award" /\ local.request = q /\ local.supplier = s
    OBVIOUS
  <2> HIDE DEF local
  <2> QED  BY <1>0, <2>1, <2>3, <2>5, <2>6, <2>7, LocalMove
<1>2. CASE offer[q][s].status # "PENDING"
  BY <1>0, <1>2, Leaves DEF TakeOffer
<1> QED  BY <1>1, <1>2

LEMMA RejectStep ==
  ASSUME TypeOK, RfqInv, NEW c \in Calls, RejectBids(c)
  PROVE  TypeOK' /\ RfqInv'
<1> DEFINE q == call[c].request
           local == [pc |-> "drop", request |-> q, bids |-> Pending(q)]
<1>0. At(c, "reject") /\ q \in Requests /\ UNCHANGED Tables /\ Become(c, local)
  BY LocalsTyped DEF RejectBids, TypeOK, At
<1>1. local \in InFlight
  BY <1>0 DEF InFlight, Pending
<1>2. call'[c] = local
  BY <1>0 DEF Become, TypeOK
<1>3. (HeldRows(c) /\ Known(c))'
  <2>1. \A s \in Pending(q) : offer'[q][s].status = "PENDING"
    BY <1>0 DEF Pending, Tables
  <2>2. call'[c].pc = "drop" /\ call'[c].request = q /\ call'[c].bids = Pending(q)
    BY <1>2
  <2> QED  BY <2>1, <2>2 DEF HeldRows, Known
<1>4. \A d \in Calls \ {c}, t \in Pending(q) : ~HoldsOffer(d, q, t)
  BY DEF RejectBids, OffersFree
<1>5. local.pc = "drop" /\ local.request = q /\ local.bids = Pending(q)
  OBVIOUS
<1> HIDE DEF local
<1> QED  BY <1>0, <1>1, <1>3, <1>4, <1>5, LocalMove

LEMMA ReviseBeginsStep ==
  ASSUME TypeOK, RfqInv, NEW c \in Calls, ReviseBegins(c)
  PROVE  TypeOK' /\ RfqInv'
<1> DEFINE local == [call[c] EXCEPT !.pc = "rewrite"]
<1>0. At(c, "revise") /\ call[c] \in InFlight /\ UNCHANGED Tables
  BY LocalsTyped DEF ReviseBegins, TypeOK, At
<1>1. CASE Become(c, local)
  <2>1. local \in InFlight /\ local.pc = "rewrite"
    BY <1>0 DEF InFlight, At
  <2>2. call'[c] = local
    BY <1>1 DEF Become, TypeOK
  <2>3. (HeldRows(c) /\ Known(c))'
    BY <2>1, <2>2 DEF HeldRows, Known
  <2>9. local.pc \notin {"take", "award", "drop"}
    BY <2>1
  <2> HIDE DEF local
  <2> QED  BY <1>0, <1>1, <2>1, <2>3, <2>9, LocalMove
<1>2. CASE Return(c)
  BY <1>0, <1>2, Leaves
<1> QED  BY <1>1, <1>2 DEF ReviseBegins, Goto

-----------------------------------------------------------------------------
(* The statements that commit at once: one offer row changes, which no open
   transaction holds, and it does not become accepted. *)
LEMMA RowMove ==
  ASSUME TypeOK, RfqInv, NEW c \in Calls, Return(c),
         NEW q \in Requests, NEW s \in Suppliers, NEW row \in Offers,
         row # NoOffer, row.status # "ACCEPTED",
         offer' = [offer EXCEPT ![q][s] = row],
         UNCHANGED <<request, orders, told>>,
         \A d \in Calls \ {c} : ~HoldsOffer(d, q, s)
  PROVE  TypeOK' /\ RfqInv'
<1>1. call'[c] = Idle /\ call' \in [Calls -> InFlight \cup {Idle}]
      /\ \A d \in Calls \ {c} : call'[d] = call[d]
  BY DEF Return, Become, TypeOK
<1>2. /\ offer' \in [Requests -> [Suppliers -> Offers]]
      /\ offer'[q][s] = row
      /\ \A r \in Requests, t \in Suppliers : <<r, t>> # <<q, s>> => offer'[r][t] = offer[r][t]
  BY DEF TypeOK
<1>3. TypeOK'
  BY <1>1, <1>2 DEF TypeOK
<1>4. Exclusive'
  BY <1>1 DEF RfqInv, Exclusive, HoldsRequest, HoldsOffer, At, Idle
<1>5. ASSUME NEW d \in Calls
      PROVE  (HeldRows(d) /\ Known(d))'
  <2>1. CASE d = c
    BY <1>1, <2>1 DEF HeldRows, Known, Idle
  <2>2. CASE d # c /\ call[d].pc # "idle"
    <3>1. call'[d] = call[d] /\ HeldRows(d) /\ Known(d) /\ call[d].request \in Requests
      BY <1>1, <2>2, LocalsTyped DEF RfqInv, TypeOK, At
    <3>2. Known(d)'
      <4>1. call[d].pc = "withdraw" => call[d].supplier \in Suppliers
        BY <2>2, LocalsTyped DEF TypeOK, At
      <4> QED  BY <1>2, <3>1, <4>1 DEF Known
    <3>3. HeldRows(d)'
      <4>1. call[d].pc = "award" =>
              call[d].supplier \in Suppliers /\ <<call[d].request, call[d].supplier>> # <<q, s>>
        BY <2>2, LocalsTyped DEF TypeOK, At, HoldsOffer
      <4>2. call[d].pc = "drop" => \A t \in call[d].bids :
              t \in Suppliers /\ <<call[d].request, t>> # <<q, s>>
        BY <2>2, LocalsTyped DEF TypeOK, At, HoldsOffer
      <4> QED  BY <1>2, <3>1, <4>1, <4>2 DEF HeldRows
    <3> QED  BY <3>2, <3>3
  <2>3. CASE d # c /\ call[d].pc = "idle"
    BY <1>1, <2>3 DEF HeldRows, Known
  <2> QED  BY <2>1, <2>2, <2>3
<1>6. AcceptedIsTheOrder'
  BY <1>2 DEF AcceptedIsTheOrder, RfqInv
<1>7. RfqInv'
  BY <1>4, <1>5, <1>6 DEF RfqInv, OneOrder
<1> QED  BY <1>3, <1>7

LEMMA WithdrawStep ==
  ASSUME TypeOK, RfqInv, NEW c \in Calls, Withdraw(c)
  PROVE  TypeOK' /\ RfqInv'
<1> DEFINE q == call[c].request
           s == call[c].supplier
           row == [status |-> "WITHDRAWN", price |-> offer[q][s].price]
<1>1. q \in Requests /\ s \in Suppliers /\ Return(c) /\ UNCHANGED <<request, orders, told>>
  BY LocalsTyped DEF Withdraw, TypeOK, At
<1>2. offer[q][s] # NoOffer
  BY DEF Withdraw, RfqInv, Known, At
<1>3. offer[q][s] = [status |-> offer[q][s].status, price |-> offer[q][s].price]
      /\ offer[q][s].price \in Prices
  BY <1>1, <1>2, RowTyped
<1>4. row \in Offers /\ row # NoOffer /\ row.status # "ACCEPTED"
  BY <1>3 DEF Offers, NoOffer, OfferStatuses
<1>6. offer' = [offer EXCEPT ![q][s] = row]
  BY DEF Withdraw, Mark
<1>7. \A d \in Calls \ {c} : ~HoldsOffer(d, q, s)
  BY DEF Withdraw, OffersFree
<1> HIDE DEF row, q, s
<1> QED  BY <1>1, <1>4, <1>6, <1>7, RowMove

LEMMA CreateStep ==
  ASSUME TypeOK, RfqInv, NEW c \in Calls, CreateOffer(c)
  PROVE  TypeOK' /\ RfqInv'
<1> DEFINE q == call[c].request
           s == call[c].supplier
           row == [status |-> "PENDING", price |-> call[c].price]
<1>1. /\ q \in Requests /\ s \in Suppliers /\ call[c].price \in Prices
      /\ Return(c) /\ UNCHANGED <<request, orders, told>>
  BY LocalsTyped DEF CreateOffer, TypeOK, At
<1>2. CASE offer[q][s].status = "NONE"
  <2>1. row \in Offers /\ row # NoOffer /\ row.status # "ACCEPTED"
    BY <1>1 DEF Offers, NoOffer, OfferStatuses
  <2>2. offer' = [offer EXCEPT ![q][s] = row]
    BY <1>2 DEF CreateOffer
  <2>3. ASSUME NEW d \in Calls \ {c}
        PROVE  ~HoldsOffer(d, q, s)
    <3>1. HeldRows(d)
      BY DEF RfqInv
    <3>2. HoldsOffer(d, q, s) => offer[q][s].status = "PENDING"
      BY <3>1 DEF HeldRows, HoldsOffer, At
    <3> QED  BY <1>2, <3>2
  <2> HIDE DEF row, q, s
  <2> QED  BY <1>1, <2>1, <2>2, <2>3, RowMove
<1>3. CASE offer[q][s].status # "NONE"
  BY <1>1, <1>3, Leaves DEF CreateOffer, Tables
<1> QED  BY <1>2, <1>3

LEMMA ReviseLandsStep ==
  ASSUME TypeOK, RfqInv, NEW c \in Calls, ReviseLands(c)
  PROVE  TypeOK' /\ RfqInv'
<1> DEFINE q == call[c].request
           s == call[c].supplier
           row == [status |-> "PENDING", price |-> call[c].price]
<1>1. /\ q \in Requests /\ s \in Suppliers /\ call[c].price \in Prices
      /\ Return(c) /\ UNCHANGED <<request, orders, told>>
  BY LocalsTyped DEF ReviseLands, TypeOK, At
<1>2. CASE offer[q][s].status # "ACCEPTED"
  <2>1. row \in Offers /\ row # NoOffer /\ row.status # "ACCEPTED"
    BY <1>1 DEF Offers, NoOffer, OfferStatuses
  <2>2. offer' = [offer EXCEPT ![q][s] = row]
    BY <1>2 DEF ReviseLands
  <2>3. \A d \in Calls \ {c} : ~HoldsOffer(d, q, s)
    BY DEF ReviseLands, OffersFree
  <2> HIDE DEF row, q, s
  <2> QED  BY <1>1, <2>1, <2>2, <2>3, RowMove
<1>3. CASE offer[q][s].status = "ACCEPTED"
  BY <1>1, <1>3, Leaves DEF ReviseLands, Tables
<1> QED  BY <1>2, <1>3

-----------------------------------------------------------------------------
(* The two commits and the announcement. *)
LEMMA AnnounceStep ==
  ASSUME TypeOK, RfqInv, NEW c \in Calls, AnnounceAward(c)
  PROVE  TypeOK' /\ RfqInv'
<1> DEFINE q == call[c].request
           s == call[c].supplier
<1>1. /\ At(c, "announce") /\ UNCHANGED <<request, offer, orders>>
      /\ q \in Requests /\ s \in Suppliers /\ s \notin call[c].rivals
      /\ \E o \in orders[q] : o.supplier = s
  BY LocalsTyped DEF AnnounceAward, TypeOK, At, RfqInv, Known
<1>2. call'[c] = Idle /\ call' \in [Calls -> InFlight \cup {Idle}]
      /\ \A d \in Calls \ {c} : call'[d] = call[d]
  BY DEF AnnounceAward, Return, Become, TypeOK
<1>3. /\ told' \in [Requests -> [Suppliers -> SUBSET Outcomes]]
      /\ \A r \in Requests, t \in Suppliers :
           /\ "OFFER_ACCEPTED" \in told'[r][t] =>
                "OFFER_ACCEPTED" \in told[r][t] \/ (r = q /\ t = s)
           /\ "OFFER_REJECTED" \in told'[r][t] =>
                "OFFER_REJECTED" \in told[r][t] \/ (r = q /\ t \in call[c].rivals)
  BY <1>1 DEF AnnounceAward, TypeOK, Outcomes, Losers
<1>4. TypeOK'
  BY <1>1, <1>2, <1>3 DEF TypeOK
<1>5. Exclusive' /\ \A d \in Calls : (HeldRows(d) /\ Known(d))'
  <2>1. Exclusive'
    BY <1>2 DEF RfqInv, Exclusive, HoldsRequest, HoldsOffer, At, Idle
  <2>2. \A d \in Calls : (HeldRows(d) /\ Known(d))'
    BY <1>1, <1>2 DEF RfqInv, HeldRows, Known, Idle
  <2> QED  BY <2>1, <2>2
<1>6. ASSUME NEW r \in Requests, NEW t \in Suppliers
      PROVE  /\ "OFFER_ACCEPTED" \in told'[r][t] => \E o \in orders'[r] : o.supplier = t
             /\ "OFFER_REJECTED" \in told'[r][t] =>
                  orders'[r] # {} /\ \A o \in orders'[r] : o.supplier # t
  <2>1. \A o, p \in orders[r] : o = p
    BY DEF RfqInv, OneOrder
  <2> QED  BY <1>1, <1>3, <2>1 DEF RfqInv
<1>7. RfqInv'
  BY <1>1, <1>5, <1>6 DEF RfqInv, OneOrder, AcceptedIsTheOrder
<1> QED  BY <1>4, <1>7

(* What an award makes of the bids on a request: the one it takes, the pending
   rivals, and the rest. *)
LEMMA DecidedRow ==
  ASSUME NEW row, NEW s, NEW rivals, NEW t \in Suppliers, s \notin rivals
  PROVE  /\ t = s => Decided(row, s, rivals)[t] = Mark(row[t], "ACCEPTED")
         /\ t # s /\ t \in rivals =>
              Decided(row, s, rivals)[t] = Mark(row[t], "REJECTED")
         /\ t # s /\ t \notin rivals => Decided(row, s, rivals)[t] = row[t]
<1>1. CASE t = s
  BY <1>1 DEF Decided
<1>2. CASE t # s /\ t \in rivals
  BY <1>2 DEF Decided
<1>3. CASE t # s /\ t \notin rivals
  BY <1>3 DEF Decided
<1> QED  BY <1>1, <1>2, <1>3

LEMMA CommitStep ==
  ASSUME TypeOK, RfqInv, NEW c \in Calls, CommitAward(c)
  PROVE  TypeOK' /\ RfqInv'
<1> DEFINE q == call[c].request
           s == call[c].supplier
           losing == Rivals(q, s)
           local == [pc |-> "announce", request |-> q, supplier |-> s, rivals |-> call[c].rivals]
           order == [supplier |-> s, price |-> call[c].price]
<1>1. /\ At(c, "award") /\ UNCHANGED told /\ Become(c, local)
      /\ q \in Requests /\ s \in Suppliers /\ call[c].rivals \in SUBSET Suppliers
      /\ call[c].price \in Prices
  BY LocalsTyped DEF CommitAward, TypeOK, At
<1>2. /\ request[q] = "OPEN" /\ orders[q] = {} /\ s \notin call[c].rivals
      /\ offer[q][s] = [status |-> "PENDING", price |-> call[c].price]
  BY <1>1 DEF RfqInv, HeldRows, Known, At
<1>3. /\ call'[c] = local /\ local \in InFlight
      /\ call' \in [Calls -> InFlight \cup {Idle}]
      /\ \A d \in Calls \ {c} : call'[d] = call[d]
  BY <1>1 DEF Become, TypeOK, InFlight
<1>4. /\ request' \in [Requests -> RequestStatuses]
      /\ request'[q] = "AWARDED"
      /\ \A r \in Requests \ {q} : request'[r] = request[r]
  BY <1>1 DEF CommitAward, TypeOK, RequestStatuses
<1>5. /\ orders' \in [Requests -> SUBSET Orders]
      /\ orders'[q] = {order}
      /\ \A r \in Requests \ {q} : orders'[r] = orders[r]
  BY <1>1, <1>2 DEF CommitAward, TypeOK, Orders
<1>6. offer' = [offer EXCEPT ![q] = Decided(offer[q], s, losing)]
  BY DEF CommitAward
<1>7. /\ Decided(offer[q], s, losing) \in [Suppliers -> Offers]
      /\ Decided(offer[q], s, losing)[s] = [status |-> "ACCEPTED", price |-> call[c].price]
      /\ \A t \in Suppliers \ {s} :
           /\ t \in losing => Decided(offer[q], s, losing)[t].status = "REJECTED"
           /\ t \notin losing => Decided(offer[q], s, losing)[t] = offer[q][t]
  <2>1. Mark(offer[q][s], "ACCEPTED") = [status |-> "ACCEPTED", price |-> call[c].price]
    BY <1>2 DEF Mark
  <2>2. \A t \in losing : /\ Mark(offer[q][t], "REJECTED") =
                              [status |-> "REJECTED", price |-> offer[q][t].price]
                          /\ offer[q][t].price \in Prices
    <3> TAKE t \in losing
    <3>1. t \in Suppliers /\ offer[q][t].status = "PENDING"
      BY DEF Rivals, Pending
    <3>2. offer[q][t] = [status |-> offer[q][t].status, price |-> offer[q][t].price]
          /\ offer[q][t].price \in Prices
      BY <1>1, <3>1, RowTyped DEF NoOffer
    <3> QED  BY <3>2 DEF Mark
  <2>3. (\A t \in Suppliers : offer[q][t] \in Offers) /\ s \notin losing
    BY <1>1, RowTyped DEF Rivals
  <2> HIDE DEF q, s, losing
  <2>4. ASSUME NEW t \in Suppliers
        PROVE  Decided(offer[q], s, losing)[t] \in Offers
    <3>1. CASE t = s
      BY <1>1, <2>1, <2>3, <3>1, DecidedRow DEF Offers, OfferStatuses
    <3>2. CASE t # s /\ t \in losing
      <4>1. Decided(offer[q], s, losing)[t] = [status |-> "REJECTED", price |-> offer[q][t].price]
        BY <2>2, <2>3, <3>2, DecidedRow
      <4> QED  BY <2>2, <3>2, <4>1 DEF Offers, OfferStatuses
    <3>3. CASE t # s /\ t \notin losing
      BY <2>3, <3>3, DecidedRow
    <3> QED  BY <3>1, <3>2, <3>3
  <2>5. Decided(offer[q], s, losing) \in [Suppliers -> Offers]
    <3>1. Decided(offer[q], s, losing) =
            [t \in Suppliers |-> Decided(offer[q], s, losing)[t]]
      BY DEF Decided
    <3> HIDE DEF Decided
    <3> QED  BY <2>4, <3>1
  <2>6. Decided(offer[q], s, losing)[s] = [status |-> "ACCEPTED", price |-> call[c].price]
    BY <1>1, <2>1, <2>3, DecidedRow
  <2>7. ASSUME NEW t \in Suppliers \ {s}
        PROVE  /\ t \in losing => Decided(offer[q], s, losing)[t].status = "REJECTED"
               /\ t \notin losing => Decided(offer[q], s, losing)[t] = offer[q][t]
    <3>1. t \in losing => Decided(offer[q], s, losing)[t] = Mark(offer[q][t], "REJECTED")
      BY <2>3, DecidedRow
    <3>2. t \notin losing => Decided(offer[q], s, losing)[t] = offer[q][t]
      BY <2>3, DecidedRow
    <3> QED  BY <3>1, <3>2 DEF Mark
  <2> QED  BY <2>5, <2>6, <2>7
<1> HIDE DEF losing
<1>8. /\ offer' \in [Requests -> [Suppliers -> Offers]]
      /\ offer'[q] = Decided(offer[q], s, losing)
      /\ \A r \in Requests \ {q} : offer'[r] = offer[r]
  BY <1>1, <1>6, <1>7 DEF TypeOK
<1>9. TypeOK'
  BY <1>1, <1>3, <1>4, <1>5, <1>8 DEF TypeOK
<1>10. Exclusive'
  <2>1. \A r \in Requests, t \in Suppliers : ~HoldsRequest(c, r)' /\ ~HoldsOffer(c, r, t)'
    BY <1>3 DEF HoldsRequest, HoldsOffer, At
  <2> QED  BY <1>3, <2>1 DEF RfqInv, Exclusive, HoldsRequest, HoldsOffer, At
<1>11. ASSUME NEW d \in Calls
       PROVE  (HeldRows(d) /\ Known(d))'
  <2>1. CASE d = c
    <3>1. HeldRows(c)'
      BY <1>3 DEF HeldRows
    <3>2. Known(c)'
      <4>1. order \in orders'[q] /\ order.supplier = s
        BY <1>5
      <4>2. /\ call'[c].pc = "announce" /\ call'[c].request = q
            /\ call'[c].supplier = s /\ call'[c].rivals = call[c].rivals
        BY <1>3
      <4> HIDE DEF order, q, s
      <4> QED  BY <1>2, <4>1, <4>2 DEF Known
    <3> QED  BY <2>1, <3>1, <3>2
  <2>2. CASE d # c /\ call[d].pc = "idle"
    BY <1>3, <2>2 DEF HeldRows, Known
  <2>3. CASE d # c /\ call[d].pc # "idle"
    <3>1. call'[d] = call[d] /\ HeldRows(d) /\ Known(d) /\ call[d].request \in Requests
      BY <1>3, <2>3, LocalsTyped DEF RfqInv, TypeOK, At
    <3>2. Known(d)'
      <4>1. call[d].pc = "withdraw" =>
              call[d].supplier \in Suppliers /\ offer'[call[d].request][call[d].supplier] # NoOffer
        <5>1. call[d].pc = "withdraw" => call[d].supplier \in Suppliers
          BY <2>3, LocalsTyped DEF TypeOK, At
        <5>2. \A t \in Suppliers : offer[q][t] # NoOffer =>
                Decided(offer[q], s, losing)[t] # NoOffer
          BY <1>7 DEF NoOffer
        <5> QED  BY <1>1, <1>8, <3>1, <5>1, <5>2 DEF Known
      <4>2. call[d].pc = "announce" => \E o \in orders'[call[d].request] : o.supplier = call[d].supplier
        BY <1>2, <1>5, <3>1 DEF Known
      <4> QED  BY <3>1, <4>1, <4>2 DEF Known
    <3>3. HeldRows(d)'
      <4>1. call[d].pc \in {"take", "award"} => call[d].request # q
        BY <1>1, <2>3 DEF RfqInv, Exclusive, HoldsRequest, At
      <4>2. call[d].pc = "drop" /\ call[d].request = q =>
              \A t \in call[d].bids : offer'[q][t].status = "PENDING"
        <5> SUFFICES ASSUME call[d].pc = "drop", call[d].request = q, NEW t \in call[d].bids
                     PROVE  offer'[q][t].status = "PENDING"
          OBVIOUS
        <5>1. t \in Suppliers /\ offer[q][t].status = "PENDING"
          BY <2>3, <3>1, LocalsTyped DEF HeldRows, TypeOK, At
        <5>2. HoldsOffer(d, q, t) /\ HoldsOffer(c, q, s)
          BY <1>1 DEF HoldsOffer, At
        <5>3. t # s
          BY <1>1, <2>3, <5>2 DEF RfqInv, Exclusive
        <5>4. t \notin losing
          BY <2>3, <5>2 DEF CommitAward, OffersFree, losing
        <5> QED  BY <1>7, <1>8, <5>1, <5>3, <5>4
      <4> QED  BY <1>4, <1>8, <3>1, <4>1, <4>2 DEF HeldRows
    <3> QED  BY <3>2, <3>3
  <2> QED  BY <2>1, <2>2, <2>3
<1>12. ASSUME NEW r \in Requests
       PROVE  /\ OneOrder(r)'
              /\ orders'[r] # {} => request'[r] # "OPEN"
              /\ request'[r] = "AWARDED" => orders'[r] # {}
              /\ \A t \in Suppliers :
                   /\ "OFFER_ACCEPTED" \in told'[r][t] => \E o \in orders'[r] : o.supplier = t
                   /\ "OFFER_REJECTED" \in told'[r][t] =>
                        orders'[r] # {} /\ \A o \in orders'[r] : o.supplier # t
  <2>1. CASE r = q
    BY <1>1, <1>2, <1>4, <1>5, <2>1 DEF RfqInv, OneOrder
  <2>2. CASE r # q
    BY <1>1, <1>4, <1>5, <2>2 DEF RfqInv, OneOrder
  <2> QED  BY <2>1, <2>2
<1>13. AcceptedIsTheOrder'
  <2> SUFFICES ASSUME NEW r \in Requests, NEW t \in Suppliers, offer'[r][t].status = "ACCEPTED"
               PROVE  orders'[r] = {[supplier |-> t, price |-> offer'[r][t].price]}
    BY DEF AcceptedIsTheOrder
  <2>1. CASE r = q
    <3>1. offer[q][t].status # "ACCEPTED"
      <4>1. offer[q][t].status = "ACCEPTED" =>
              orders[q] = {[supplier |-> t, price |-> offer[q][t].price]}
        BY <1>1 DEF RfqInv, AcceptedIsTheOrder
      <4> QED  BY <1>2, <4>1
    <3>2. t = s
      BY <1>7, <1>8, <2>1, <3>1
    <3>3. offer'[r][t] = [status |-> "ACCEPTED", price |-> call[c].price]
      BY <1>7, <1>8, <2>1, <3>2
    <3> QED  BY <1>5, <2>1, <3>2, <3>3
  <2>2. CASE r # q
    BY <1>5, <1>8, <2>2 DEF RfqInv, AcceptedIsTheOrder
  <2> QED  BY <2>1, <2>2
<1>14. RfqInv'
  BY <1>10, <1>11, <1>12, <1>13 DEF RfqInv
<1> QED  BY <1>9, <1>14

LEMMA DropStep ==
  ASSUME TypeOK, RfqInv, NEW c \in Calls, DropRequest(c)
  PROVE  TypeOK' /\ RfqInv'
<1> DEFINE q == call[c].request
           bids == call[c].bids
<1>1. /\ At(c, "drop") /\ UNCHANGED <<orders, told>> /\ Return(c)
      /\ q \in Requests /\ bids \in SUBSET Suppliers
      /\ \A s \in bids : offer[q][s].status = "PENDING"
  BY LocalsTyped DEF DropRequest, TypeOK, At, RfqInv, HeldRows
<1>2. call'[c] = Idle /\ call' \in [Calls -> InFlight \cup {Idle}]
      /\ \A d \in Calls \ {c} : call'[d] = call[d]
  BY <1>1 DEF Return, Become, TypeOK
<1>3. /\ request' \in [Requests -> RequestStatuses]
      /\ request'[q] = "CANCELLED"
      /\ \A r \in Requests \ {q} : request'[r] = request[r]
  BY <1>1 DEF DropRequest, TypeOK, RequestStatuses
<1>4. \A s \in bids : Mark(offer[q][s], "REJECTED") \in Offers
  <2> TAKE s \in bids
  <2>1. s \in Suppliers /\ offer[q][s] # NoOffer
    BY <1>1 DEF NoOffer
  <2>2. offer[q][s].price \in Prices
    BY <1>1, <2>1, RowTyped
  <2> QED  BY <2>2 DEF Mark, Offers, OfferStatuses
<1>5. /\ offer' \in [Requests -> [Suppliers -> Offers]]
      /\ \A s \in bids : offer'[q][s] = Mark(offer[q][s], "REJECTED")
      /\ \A r \in Requests, s \in Suppliers :
           r # q \/ s \notin bids => offer'[r][s] = offer[r][s]
  <2> DEFINE new == [s \in Suppliers |->
                      IF s \in bids THEN Mark(offer[q][s], "REJECTED") ELSE offer[q][s]]
  <2>1. offer' = [offer EXCEPT ![q] = new]
    BY DEF DropRequest
  <2>2. new \in [Suppliers -> Offers]
    BY <1>1, <1>4, RowTyped
  <2>3. /\ \A s \in bids : new[s] = Mark(offer[q][s], "REJECTED")
        /\ \A s \in Suppliers \ bids : new[s] = offer[q][s]
    BY <1>1
  <2> HIDE DEF new, q, bids
  <2> QED  BY <1>1, <2>1, <2>2, <2>3 DEF TypeOK
<1> HIDE DEF q, bids
<1>11. \A s \in bids : offer'[q][s].status = "REJECTED" /\ offer'[q][s] # NoOffer
  <2> TAKE s \in bids
  <2>1. offer'[q][s] = Mark(offer[q][s], "REJECTED")
    BY <1>5
  <2> QED  BY <2>1 DEF Mark, NoOffer
<1>6. TypeOK'
  BY <1>1, <1>2, <1>3, <1>5 DEF TypeOK
<1>7. Exclusive'
  BY <1>2 DEF RfqInv, Exclusive, HoldsRequest, HoldsOffer, At, Idle
<1>8. ASSUME NEW d \in Calls
      PROVE  (HeldRows(d) /\ Known(d))'
  <2>1. CASE d = c
    BY <1>2, <2>1 DEF HeldRows, Known, Idle
  <2>2. CASE d # c /\ call[d].pc = "idle"
    BY <1>2, <2>2 DEF HeldRows, Known
  <2>3. CASE d # c /\ call[d].pc # "idle"
    <3>1. call'[d] = call[d] /\ HeldRows(d) /\ Known(d) /\ call[d].request \in Requests
      BY <1>2, <2>3, LocalsTyped DEF RfqInv, TypeOK, At
    <3>2. Known(d)'
      <4>1. call[d].pc = "withdraw" =>
              call[d].supplier \in Suppliers /\ offer'[call[d].request][call[d].supplier] # NoOffer
        <5>1. call[d].pc = "withdraw" => call[d].supplier \in Suppliers
          BY <2>3, LocalsTyped DEF TypeOK, At
        <5> QED  BY <1>5, <1>11, <3>1, <5>1 DEF Known
      <4> QED  BY <1>1, <3>1, <4>1 DEF Known
    <3>3. HeldRows(d)'
      <4>1. call[d].pc \in {"take", "award"} => call[d].request # q
        BY <2>3 DEF DropRequest, RequestFree, HoldsRequest, q
      <4>2. \A s \in Suppliers : HoldsOffer(d, q, s) => s \notin bids
        BY <1>1, <2>3 DEF RfqInv, Exclusive, HoldsOffer, q, bids
      <4>3. call[d].pc = "award" => call[d].supplier \in Suppliers
        BY <2>3, LocalsTyped DEF TypeOK, At
      <4>4. call[d].pc = "drop" => \A s \in call[d].bids :
              s \in Suppliers /\ offer'[call[d].request][s] = offer[call[d].request][s]
        BY <1>5, <2>3, <3>1, <4>2, LocalsTyped DEF TypeOK, At, HoldsOffer
      <4>5. call[d].pc = "award" =>
              offer'[call[d].request][call[d].supplier] = offer[call[d].request][call[d].supplier]
        BY <1>5, <3>1, <4>1, <4>3
      <4> QED  BY <1>3, <3>1, <4>1, <4>4, <4>5 DEF HeldRows
    <3> QED  BY <3>2, <3>3
  <2> QED  BY <2>1, <2>2, <2>3
<1>9. AcceptedIsTheOrder'
  <2> SUFFICES ASSUME NEW r \in Requests, NEW t \in Suppliers, offer'[r][t].status = "ACCEPTED"
               PROVE  orders'[r] = {[supplier |-> t, price |-> offer'[r][t].price]}
    BY DEF AcceptedIsTheOrder
  <2>1. r # q \/ t \notin bids
    BY <1>11
  <2> QED  BY <1>1, <1>5, <2>1 DEF RfqInv, AcceptedIsTheOrder
<1>10. RfqInv'
  BY <1>1, <1>3, <1>7, <1>8, <1>9 DEF RfqInv, OneOrder
<1> QED  BY <1>6, <1>10

-----------------------------------------------------------------------------
LEMMA InitGood ==
  ASSUME Init
  PROVE  TypeOK /\ RfqInv
<1>1. TypeOK
  BY DEF Init, TypeOK, RequestStatuses, Offers, Outcomes
<1>2. RfqInv
  BY DEF Init, RfqInv, Exclusive, HeldRows, Known, OneOrder, AcceptedIsTheOrder,
         HoldsRequest, HoldsOffer, At, Idle, NoOffer
<1> QED  BY <1>1, <1>2

LEMMA NextGood ==
  ASSUME TypeOK, RfqInv, [Next]_vars
  PROVE  TypeOK' /\ RfqInv'
<1>1. CASE Next
  <2> PICK c \in Calls : Submit(c) \/ Handle(c) \/ Abort(c) \/ Crash(c)
    BY <1>1 DEF Next
  <2>1. CASE Submit(c)
    BY <2>1, ReadsStep
  <2>2. CASE Handle(c)
    BY <2>2, ClaimStep, TakeStep, CommitStep, AnnounceStep, RejectStep, DropStep,
       WithdrawStep, CreateStep, ReviseBeginsStep, ReviseLandsStep DEF Handle
  <2>3. CASE Abort(c) \/ Crash(c)
    BY <2>3, Leaves DEF Abort, Crash
  <2> QED  BY <2>1, <2>2, <2>3
<1>2. CASE UNCHANGED vars
  BY <1>2 DEF vars, TypeOK, RfqInv, Exclusive, HeldRows, Known, OneOrder,
              AcceptedIsTheOrder, HoldsRequest, HoldsOffer, At
<1> QED  BY <1>1, <1>2

(* The tables and the calls in flight keep their types: an order always has a
   price, and an offer that is withdrawn or rejected exists. *)
THEOREM TypeCorrect == Spec => []TypeOK
<1>1. TypeOK /\ RfqInv /\ [Next]_vars => (TypeOK /\ RfqInv)'
  BY NextGood
<1> QED  BY <1>1, InitGood, PTL DEF Spec

(* Rows are held by one transaction at a time, and what a call knows stays true
   while others run, for any number of calls, suppliers and requests. *)
THEOREM RowsAreKept == Spec => []RfqInv
<1>1. TypeOK /\ RfqInv /\ [Next]_vars => (TypeOK /\ RfqInv)'
  BY NextGood
<1> QED  BY <1>1, InitGood, PTL DEF Spec

LEMMA AtMostOne ==
  ASSUME NEW S, \A o, p \in S : o = p
  PROVE  IsFiniteSet(S) /\ Cardinality(S) <= 1
<1>1. CASE S = {}
  BY <1>1, FS_EmptySet
<1>2. CASE S # {}
  <2>1. PICK o : S = {o}
    BY <1>2
  <2> QED  BY <2>1, FS_Singleton
<1> QED  BY <1>1, <1>2

(* A request is awarded once: one order at most, however many clicks,
   cancellations, withdrawals and revisions overlap, and however many die. *)
THEOREM AwardsHappenOnce == Spec => []AwardedOnce
<1>1. RfqInv => AwardedOnce
  BY AtMostOne DEF RfqInv, OneOrder, AwardedOnce
<1> QED  BY <1>1, RowsAreKept, PTL

(* An accepted offer is the offer its order was made from, price included. *)
THEOREM AcceptedMatchesOrder == Spec => []AcceptedIsTheOrder
<1>1. RfqInv => AcceptedIsTheOrder
  BY DEF RfqInv
<1> QED  BY <1>1, RowsAreKept, PTL

(* Only a supplier whose bid became the order is told it won. *)
THEOREM WinnersAreReal == Spec => []WinnerIsReal
<1>1. RfqInv => WinnerIsReal
  BY DEF RfqInv, WinnerIsReal
<1> QED  BY <1>1, RowsAreKept, PTL

-----------------------------------------------------------------------------
(* The steps that write offers. *)
LEMMA WhoWritesOffers ==
  ASSUME [Next]_vars
  PROVE  \/ UNCHANGED <<offer, orders>>
         \/ \E c \in Calls : CommitAward(c) \/ DropRequest(c) \/ Withdraw(c) \/ CreateOffer(c)
                          \/ ReviseLands(c)
<1> DEFINE Same == UNCHANGED <<offer, orders>>
<1>1. ASSUME NEW c \in Calls, Submit(c)
      PROVE  Same
  BY <1>1 DEF Submit, AcceptRead, CancelRead, WithdrawRead, SubmitRead, Tables
<1>2. ASSUME NEW c \in Calls, ClaimRequest(c) \/ TakeOffer(c) \/ RejectBids(c) \/ ReviseBegins(c)
      PROVE  Same
  BY <1>2 DEF ClaimRequest, TakeOffer, RejectBids, ReviseBegins, Tables
<1>3. ASSUME NEW c \in Calls, AnnounceAward(c)
      PROVE  Same
  BY <1>3 DEF AnnounceAward
<1>4. ASSUME NEW c \in Calls, Abort(c) \/ Crash(c)
      PROVE  Same
  BY <1>4 DEF Abort, Crash, Tables
<1>5. CASE UNCHANGED vars
  BY <1>5 DEF vars
<1> QED  BY <1>1, <1>2, <1>3, <1>4, <1>5 DEF Next, Handle

(* What each of them does to the rows. *)
LEMMA RowWritten ==
  ASSUME TypeOK, RfqInv, NEW c \in Calls,
         Withdraw(c) \/ CreateOffer(c) \/ ReviseLands(c)
  PROVE  \/ UNCHANGED <<offer, orders>>
         \/ \E q \in Requests, s \in Suppliers :
              /\ UNCHANGED orders
              /\ \/ offer' = [offer EXCEPT ![q][s] = Mark(offer[q][s], "WITHDRAWN")]
                 \/ /\ offer[q][s].status # "ACCEPTED"
                    /\ \E p \in Prices :
                         offer' = [offer EXCEPT ![q][s] = [status |-> "PENDING", price |-> p]]
<1>1. ~At(c, "idle")
  BY DEF Withdraw, CreateOffer, ReviseLands, At
<1>2. call[c].request \in Requests
  BY <1>1, LocalsTyped DEF TypeOK
<1>3. CASE Withdraw(c)
  BY <1>1, <1>2, <1>3, LocalsTyped DEF Withdraw, TypeOK, At
<1>4. CASE CreateOffer(c)
  BY <1>1, <1>2, <1>4, LocalsTyped DEF CreateOffer, TypeOK, At
<1>5. CASE ReviseLands(c)
  BY <1>1, <1>2, <1>5, LocalsTyped DEF ReviseLands, TypeOK, At
<1> QED  BY <1>3, <1>4, <1>5

LEMMA AwardWritten ==
  ASSUME TypeOK, RfqInv, NEW c \in Calls, CommitAward(c)
  PROVE  \E q \in Requests, s \in Suppliers, p \in Prices :
           /\ orders[q] = {}
           /\ orders' = [orders EXCEPT ![q] = {[supplier |-> s, price |-> p]}]
           /\ offer[q][s] = [status |-> "PENDING", price |-> p]
           /\ offer' = [offer EXCEPT ![q] = Decided(offer[q], s, Rivals(q, s))]
<1>1. /\ At(c, "award") /\ call[c].request \in Requests /\ call[c].supplier \in Suppliers
      /\ call[c].price \in Prices
  BY LocalsTyped DEF CommitAward, TypeOK, At
<1>2. /\ orders[call[c].request] = {}
      /\ offer[call[c].request][call[c].supplier] = [status |-> "PENDING", price |-> call[c].price]
  BY <1>1 DEF RfqInv, HeldRows, At
<1>3. orders' = [orders EXCEPT ![call[c].request] =
                  {[supplier |-> call[c].supplier, price |-> call[c].price]}]
  BY <1>1, <1>2 DEF CommitAward
<1> QED  BY <1>1, <1>2, <1>3 DEF CommitAward

LEMMA DropWritten ==
  ASSUME TypeOK, RfqInv, NEW c \in Calls, DropRequest(c)
  PROVE  \E q \in Requests, S \in SUBSET Suppliers :
           /\ UNCHANGED orders
           /\ \A s \in S : offer[q][s].status = "PENDING"
           /\ offer' = [offer EXCEPT ![q] =
                [s \in Suppliers |-> IF s \in S THEN Mark(offer[q][s], "REJECTED") ELSE offer[q][s]]]
<1>1. call[c].request \in Requests /\ call[c].bids \in SUBSET Suppliers
  BY LocalsTyped DEF DropRequest, TypeOK, At
<1>2. \A s \in call[c].bids : offer[call[c].request][s].status = "PENDING"
  BY DEF DropRequest, At, RfqInv, HeldRows
<1> QED  BY <1>1, <1>2 DEF DropRequest

(* An accepted offer is left as it is, or withdrawn at the price it had. *)
LEMMA AcceptedKept ==
  ASSUME TypeOK, RfqInv, [Next]_vars, NEW q \in Requests, NEW s \in Suppliers,
         offer[q][s].status = "ACCEPTED"
  PROVE  offer'[q][s] = offer[q][s] \/ offer'[q][s] = Mark(offer[q][s], "WITHDRAWN")
<1> DEFINE Kept == offer'[q][s] = offer[q][s] \/ offer'[q][s] = Mark(offer[q][s], "WITHDRAWN")
<1>1. CASE UNCHANGED <<offer, orders>>
  BY <1>1
<1>2. ASSUME NEW c \in Calls, CommitAward(c)
      PROVE  Kept
  <2>1. PICK r \in Requests, t \in Suppliers, p \in Prices :
          /\ orders[r] = {}
          /\ offer' = [offer EXCEPT ![r] = Decided(offer[r], t, Rivals(r, t))]
    BY <1>2, AwardWritten
  <2>2. orders[q] # {}
    <3>1. orders[q] = {[supplier |-> s, price |-> offer[q][s].price]}
      BY DEF RfqInv, AcceptedIsTheOrder
    <3> QED  BY <3>1
  <2> QED  BY <2>1, <2>2 DEF TypeOK
<1>3. ASSUME NEW c \in Calls, DropRequest(c)
      PROVE  Kept
  <2>1. PICK r \in Requests, S \in SUBSET Suppliers :
          /\ \A t \in S : offer[r][t].status = "PENDING"
          /\ offer' = [offer EXCEPT ![r] =
               [t \in Suppliers |-> IF t \in S THEN Mark(offer[r][t], "REJECTED") ELSE offer[r][t]]]
    BY <1>3, DropWritten
  <2> QED  BY <2>1 DEF TypeOK
<1>4. ASSUME NEW c \in Calls, Withdraw(c) \/ CreateOffer(c) \/ ReviseLands(c)
      PROVE  Kept
  <2>1. CASE \E r \in Requests, t \in Suppliers :
               offer' = [offer EXCEPT ![r][t] = Mark(offer[r][t], "WITHDRAWN")]
    BY <2>1 DEF TypeOK
  <2>2. CASE \E r \in Requests, t \in Suppliers, p \in Prices :
               /\ offer[r][t].status # "ACCEPTED"
               /\ offer' = [offer EXCEPT ![r][t] = [status |-> "PENDING", price |-> p]]
    BY <2>2 DEF TypeOK
  <2> QED  BY <1>1, <1>4, <2>1, <2>2, RowWritten
<1> QED  BY <1>1, <1>2, <1>3, <1>4, WhoWritesOffers

(* Whoever takes an offer out of ACCEPTED withdraws it, at the price it had: no
   revision, no rival's award and no cancellation touches an accepted offer. *)
THEOREM AwardsSurviveRevisions == Spec => RevisionUndoesNoAward
<1>1. TypeOK /\ RfqInv /\ [Next]_vars =>
        [\A q \in Requests, s \in Suppliers :
           offer[q][s].status = "ACCEPTED" /\ offer'[q][s] # offer[q][s] =>
             offer'[q][s] = Mark(offer[q][s], "WITHDRAWN")]_vars
  BY AcceptedKept
<1> QED  BY <1>1, TypeCorrect, RowsAreKept, PTL DEF Spec, RevisionUndoesNoAward

-----------------------------------------------------------------------------
(* Where a call that is about to undo a decision comes from: it was there before the
   step, or it has just read the row as the decision has not been made. *)
LEMMA WhereFrom ==
  ASSUME TypeOK, [Next]_vars, NEW d \in Calls, call'[d] # call[d]
  PROVE  /\ call'[d].pc \in {"reject", "create", "revise"} => request[call'[d].request] = "OPEN"
         /\ call'[d].pc = "drop" =>
              call[d].pc = "reject" /\ call[d].request = call'[d].request
         /\ call'[d].pc = "rewrite" =>
              call[d].pc = "revise" /\ call[d].request = call'[d].request
         /\ call'[d].pc = "withdraw" =>
              offer[call'[d].request][call'[d].supplier].status = "PENDING"
<1>0. call \in [Calls -> InFlight \cup {Idle}]
  BY DEF TypeOK
<1>1. ASSUME NEW c \in Calls, NEW local, Become(c, local)
      PROVE  d = c /\ call'[d] = local
  BY <1>0, <1>1 DEF Become
<1>2. PICK c \in Calls : Submit(c) \/ Handle(c) \/ Abort(c) \/ Crash(c)
  BY DEF Next, vars
<1>3. CASE Return(c)
  BY <1>1, <1>3 DEF Return, Idle
<1>4. CASE Submit(c)
  <2> PICK q \in Requests, s \in Suppliers :
        \/ AcceptRead(c, q, s) \/ CancelRead(c, q) \/ WithdrawRead(c, q, s)
        \/ \E p \in Prices : SubmitRead(c, q, s, p)
    BY <1>4 DEF Submit
  <2>1. CASE AcceptRead(c, q, s)
    BY <1>1, <2>1 DEF AcceptRead
  <2>2. CASE CancelRead(c, q)
    BY <1>1, <2>2 DEF CancelRead
  <2>3. CASE WithdrawRead(c, q, s)
    BY <1>1, <2>3 DEF WithdrawRead
  <2>4. ASSUME NEW p \in Prices, SubmitRead(c, q, s, p)
        PROVE  call'[d].pc \in {"create", "revise"} /\ request[call'[d].request] = "OPEN"
    BY <1>1, <2>4 DEF SubmitRead
  <2> QED  BY <2>1, <2>2, <2>3, <2>4
<1>5. CASE ClaimRequest(c) /\ ~Return(c)
  <2>1. Become(c, [call[c] EXCEPT !.pc = "take"]) /\ call[c] \in InFlight /\ At(c, "claim")
    BY <1>0, <1>5, LocalsTyped DEF ClaimRequest, Goto, At
  <2>2. call'[d].pc = "take"
    BY <1>1, <2>1 DEF InFlight, At
  <2> QED  BY <2>2
<1>6. CASE TakeOffer(c) /\ ~Return(c)
  BY <1>1, <1>6 DEF TakeOffer, Hold
<1>7. CASE CommitAward(c)
  BY <1>1, <1>7 DEF CommitAward
<1>8. CASE RejectBids(c)
  BY <1>1, <1>8 DEF RejectBids, At
<1>9. CASE ReviseBegins(c) /\ ~Return(c)
  <2>1. Become(c, [call[c] EXCEPT !.pc = "rewrite"]) /\ call[c] \in InFlight /\ At(c, "revise")
    BY <1>0, <1>9, LocalsTyped DEF ReviseBegins, Goto, At
  <2>2. d = c /\ call'[d].pc = "rewrite" /\ call'[d].request = call[c].request
    BY <1>1, <2>1 DEF InFlight, At
  <2> QED  BY <2>1, <2>2 DEF At
<1>10. CASE AnnounceAward(c) \/ DropRequest(c) \/ Withdraw(c) \/ CreateOffer(c) \/ ReviseLands(c)
            \/ Abort(c) \/ Crash(c)
  BY <1>3, <1>10 DEF AnnounceAward, DropRequest, Withdraw, CreateOffer, ReviseLands, Abort, Crash
<1> QED  BY <1>2, <1>3, <1>4, <1>5, <1>6, <1>7, <1>8, <1>9, <1>10 DEF Handle

(* Only an award and a cancellation write a request, and only a cancellation takes an
   award away. *)
LEMMA RequestWritten ==
  ASSUME TypeOK, [Next]_vars, NEW q \in Requests, request'[q] # request[q]
  PROVE  /\ request'[q] # "OPEN"
         /\ request'[q] = "AWARDED" \/ InFlightOn(q, {"drop"})
<1>1. ASSUME NEW c \in Calls, Submit(c)
      PROVE  FALSE
  BY <1>1 DEF Submit, AcceptRead, CancelRead, WithdrawRead, SubmitRead, Tables
<1>2. ASSUME NEW c \in Calls,
             \/ ClaimRequest(c) \/ TakeOffer(c) \/ RejectBids(c) \/ ReviseBegins(c)
             \/ Abort(c) \/ Crash(c)
      PROVE  FALSE
  BY <1>2 DEF ClaimRequest, TakeOffer, RejectBids, ReviseBegins, Abort, Crash, Tables
<1>3. ASSUME NEW c \in Calls,
             AnnounceAward(c) \/ Withdraw(c) \/ CreateOffer(c) \/ ReviseLands(c)
      PROVE  FALSE
  BY <1>3 DEF AnnounceAward, Withdraw, CreateOffer, ReviseLands
<1>4. ASSUME NEW c \in Calls, CommitAward(c)
      PROVE  request'[q] = "AWARDED"
  BY <1>4 DEF CommitAward, TypeOK
<1>5. ASSUME NEW c \in Calls, DropRequest(c)
      PROVE  request'[q] = "CANCELLED" /\ InFlightOn(q, {"drop"})
  BY <1>5 DEF DropRequest, TypeOK, InFlightOn, At
<1> QED  BY <1>1, <1>2, <1>3, <1>4, <1>5 DEF Next, Handle, vars

(* Who makes an offer withdrawn or pending: the call that carries that row. *)
LEMMA RowMarked ==
  ASSUME TypeOK, RfqInv, [Next]_vars, NEW q \in Requests, NEW s \in Suppliers,
         offer'[q][s] # offer[q][s]
  PROVE  /\ offer'[q][s].status = "WITHDRAWN" =>
              \E c \in Calls : At(c, "withdraw") /\ call[c].request = q /\ call[c].supplier = s
         /\ offer'[q][s].status = "PENDING" => InFlightOn(q, {"create", "rewrite"})
<1>1. CASE UNCHANGED <<offer, orders>>
  BY <1>1
<1>2. ASSUME NEW c \in Calls, CommitAward(c)
      PROVE  offer'[q][s].status \in {"ACCEPTED", "REJECTED"}
  <2>1. PICK r \in Requests, t \in Suppliers, p \in Prices :
          offer' = [offer EXCEPT ![r] = Decided(offer[r], t, Rivals(r, t))]
    BY <1>2, AwardWritten
  <2>2. r = q /\ offer'[q][s] = Decided(offer[q], t, Rivals(q, t))[s]
    BY <2>1 DEF TypeOK
  <2>3. t \notin Rivals(q, t)
    BY DEF Rivals
  <2>4. CASE s = t
    <3>1. offer'[q][s] = Mark(offer[q][s], "ACCEPTED")
      BY <2>2, <2>3, <2>4, DecidedRow
    <3> QED  BY <3>1 DEF Mark
  <2>5. CASE s # t /\ s \in Rivals(q, t)
    <3>1. offer'[q][s] = Mark(offer[q][s], "REJECTED")
      BY <2>2, <2>3, <2>5, DecidedRow
    <3> QED  BY <3>1 DEF Mark
  <2>6. CASE s # t /\ s \notin Rivals(q, t)
    BY <2>2, <2>3, <2>6, DecidedRow
  <2> QED  BY <2>4, <2>5, <2>6
<1>3. ASSUME NEW c \in Calls, DropRequest(c)
      PROVE  offer'[q][s].status = "REJECTED"
  BY <1>3 DEF DropRequest, TypeOK, Mark
<1>4. ASSUME NEW c \in Calls, Withdraw(c)
      PROVE  /\ At(c, "withdraw") /\ call[c].request = q /\ call[c].supplier = s
             /\ offer'[q][s].status = "WITHDRAWN"
  BY <1>4, LocalsTyped DEF Withdraw, TypeOK, Mark, At
<1>5. ASSUME NEW c \in Calls, CreateOffer(c) \/ ReviseLands(c)
      PROVE  InFlightOn(q, {"create", "rewrite"}) /\ offer'[q][s].status = "PENDING"
  <2>1. /\ call[c].pc \in {"create", "rewrite"}
        /\ offer' = [offer EXCEPT ![call[c].request][call[c].supplier] =
                       [status |-> "PENDING", price |-> call[c].price]]
    BY <1>5 DEF CreateOffer, ReviseLands, At
  <2>2. call[c].request \in Requests /\ call[c].supplier \in Suppliers
    BY <2>1, LocalsTyped DEF TypeOK, At
  <2> QED  BY <2>1, <2>2 DEF TypeOK, InFlightOn
<1> QED  BY <1>1, <1>2, <1>3, <1>4, <1>5, WhoWritesOffers

(* Three decisions, each undone only by a call that had read its row before: an award
   by a cancellation, an acceptance by a withdrawal, a closed list of bids by a bid.
   With none of those left, nothing else in flight and nothing submitted later can:
   the request stays awarded, the offer accepted, and no bid comes to stand. *)
THEOREM DecisionsHold == Spec => DecisionsStand
<1> DEFINE Stand(q) ==
      /\ AwardedForGood(q) => AwardedForGood(q)'
      /\ \A s \in Suppliers :
           AcceptedForGood(q, s) => AcceptedForGood(q, s)' /\ offer'[q][s] = offer[q][s]
      /\ ClosedForGood(q) => ClosedForGood(q)' /\ Pending(q)' \subseteq Pending(q)
<1>1. ASSUME TypeOK, RfqInv, [Next]_vars, NEW q \in Requests
      PROVE  Stand(q)
  <2>1. AwardedForGood(q) => AwardedForGood(q)'
    <3> SUFFICES ASSUME AwardedForGood(q)
                 PROVE  AwardedForGood(q)'
      OBVIOUS
    <3>1. request'[q] = "AWARDED"
      BY <1>1, RequestWritten DEF AwardedForGood, InFlightOn
    <3>2. ASSUME NEW d \in Calls, call'[d].pc \in {"reject", "drop"}, call'[d].request = q
          PROVE  FALSE
      BY <1>1, <3>2, WhereFrom DEF AwardedForGood, InFlightOn
    <3> QED  BY <3>1, <3>2 DEF AwardedForGood, InFlightOn
  <2>2. ASSUME NEW s \in Suppliers, AcceptedForGood(q, s)
        PROVE  AcceptedForGood(q, s)' /\ offer'[q][s] = offer[q][s]
    <3>1. offer'[q][s] = offer[q][s]
      <4>1. Mark(offer[q][s], "WITHDRAWN").status = "WITHDRAWN"
        BY DEF Mark
      <4> QED  BY <1>1, <2>2, <4>1, AcceptedKept, RowMarked DEF AcceptedForGood
    <3>2. ASSUME NEW d \in Calls, call'[d].pc = "withdraw",
                 call'[d].request = q, call'[d].supplier = s
          PROVE  FALSE
      BY <1>1, <2>2, <3>2, WhereFrom DEF AcceptedForGood, At
    <3> QED  BY <2>2, <3>1, <3>2 DEF AcceptedForGood, At
  <2>3. ASSUME ClosedForGood(q)
        PROVE  ClosedForGood(q)' /\ Pending(q)' \subseteq Pending(q)
    <3>1. request'[q] # "OPEN"
      BY <1>1, <2>3, RequestWritten DEF ClosedForGood
    <3>2. ASSUME NEW d \in Calls, call'[d].pc \in {"create", "revise", "rewrite"},
                 call'[d].request = q
          PROVE  FALSE
      BY <1>1, <2>3, <3>2, WhereFrom DEF ClosedForGood, InFlightOn
    <3>3. Pending(q)' \subseteq Pending(q)
      BY <1>1, <2>3, RowMarked DEF Pending, ClosedForGood, InFlightOn
    <3> QED  BY <3>1, <3>2, <3>3 DEF ClosedForGood, InFlightOn
  <2> QED  BY <2>1, <2>2, <2>3
<1>2. ASSUME NEW q \in Requests, UNCHANGED vars
      PROVE  Stand(q)
  BY <1>2 DEF vars, AwardedForGood, AcceptedForGood, ClosedForGood, InFlightOn, Pending, At
<1>3. TypeOK /\ RfqInv /\ [Next]_vars => [\A q \in Requests : Stand(q)]_vars
  BY <1>1
<1> QED  BY <1>3, TypeCorrect, RowsAreKept, PTL DEF Spec, DecisionsStand

-----------------------------------------------------------------------------
(* A step that rewrites the rows of one request replaces its row of standing bids. *)
LEMMA RowReplaced ==
  ASSUME NEW q \in Requests, NEW row, row = [t \in Suppliers |-> row[t]],
         \A r \in Requests \ {q} : offer'[r] = offer[r],
         \A t \in Suppliers :
           row[t] = IF offer'[q][t].status = "PENDING" THEN offer'[q][t].price ELSE NoPrice
  PROVE  Standing' = [Standing EXCEPT ![q] = row]
<1> DEFINE new == [Standing EXCEPT ![q] = row]
<1>1. Standing'[q] = row
  <2>1. Standing'[q] = [t \in Suppliers |->
          IF offer'[q][t].status = "PENDING" THEN offer'[q][t].price ELSE NoPrice]
    BY DEF Standing
  <2>2. Standing'[q] = [t \in Suppliers |-> row[t]]
    BY <2>1
  <2> QED  BY <2>2
<1>2. \A r \in Requests \ {q} : Standing'[r] = Standing[r]
  BY DEF Standing
<1>3. new = [r \in Requests |-> IF r = q THEN row ELSE Standing[r]]
  BY DEF Standing
<1>4. Standing' = [r \in Requests |-> Standing'[r]]
  BY DEF Standing
<1> HIDE DEF new
<1>5. \A r \in Requests : Standing'[r] = new[r]
  BY <1>1, <1>2, <1>3
<1> QED  BY <1>3, <1>4, <1>5 DEF new

(* Every step is a step of the tender, or none. *)
LEMMA TenderStep ==
  ASSUME TypeOK, RfqInv, [Next]_vars
  PROVE  [TheTender!Next]_(TheTender!vars)
<1>1. CASE UNCHANGED <<offer, orders>>
  BY <1>1 DEF TheTender!vars, Standing
<1>2. ASSUME NEW c \in Calls, CommitAward(c)
      PROVE  TheTender!Next
  <2>1. PICK q \in Requests, s \in Suppliers, p \in Prices :
          /\ orders[q] = {}
          /\ orders' = [orders EXCEPT ![q] = {[supplier |-> s, price |-> p]}]
          /\ offer[q][s] = [status |-> "PENDING", price |-> p]
          /\ offer' = [offer EXCEPT ![q] = Decided(offer[q], s, Rivals(q, s))]
    BY <1>2, AwardWritten
  <2>2. s \notin Rivals(q, s)
    BY DEF Rivals
  <2>3. \A t \in Suppliers : offer'[q][t] = Decided(offer[q], s, Rivals(q, s))[t]
    BY <2>1 DEF TypeOK
  <2>4. ASSUME NEW t \in Suppliers
        PROVE  offer'[q][t].status # "PENDING"
    <3>1. CASE t = s
      <4>1. offer'[q][t] = Mark(offer[q][t], "ACCEPTED")
        BY <2>2, <2>3, <3>1, DecidedRow
      <4> QED  BY <4>1 DEF Mark
    <3>2. CASE t # s /\ t \in Rivals(q, s)
      <4>1. offer'[q][t] = Mark(offer[q][t], "REJECTED")
        BY <2>2, <2>3, <3>2, DecidedRow
      <4> QED  BY <4>1 DEF Mark
    <3>3. CASE t # s /\ t \notin Rivals(q, s)
      <4>1. offer'[q][t] = offer[q][t]
        BY <2>2, <2>3, <3>3, DecidedRow
      <4> QED  BY <3>3, <4>1 DEF Rivals, Pending
    <3> QED  BY <3>1, <3>2, <3>3
  <2>5. \A r \in Requests \ {q} : offer'[r] = offer[r]
    BY <2>1 DEF TypeOK
  <2>6. Standing' = [Standing EXCEPT ![q] = [t \in Suppliers |-> NoPrice]]
    BY <2>4, <2>5, RowReplaced
  <2>7. Standing[q][s] = p /\ Standing[q][s] # NoPrice
    BY <2>1 DEF Standing
  <2>8. TheTender!Agree(q, s)
    BY <2>1, <2>6, <2>7 DEF TheTender!Agree
  <2> QED  BY <2>8 DEF TheTender!Next
<1>3. ASSUME NEW c \in Calls, DropRequest(c)
      PROVE  TheTender!Next
  <2>1. PICK q \in Requests, S \in SUBSET Suppliers :
          /\ UNCHANGED orders
          /\ offer' = [offer EXCEPT ![q] =
               [s \in Suppliers |-> IF s \in S THEN Mark(offer[q][s], "REJECTED") ELSE offer[q][s]]]
    BY <1>3, DropWritten
  <2>2. /\ \A s \in S : offer'[q][s] = Mark(offer[q][s], "REJECTED")
        /\ \A s \in Suppliers \ S : offer'[q][s] = offer[q][s]
        /\ \A r \in Requests \ {q} : offer'[r] = offer[r]
    BY <2>1 DEF TypeOK
  <2>3. \A s \in S : offer'[q][s].status # "PENDING"
    <3> TAKE s \in S
    <3>1. offer'[q][s] = Mark(offer[q][s], "REJECTED")
      BY <2>2
    <3> QED  BY <3>1 DEF Mark
  <2>4. Standing' = [Standing EXCEPT ![q] =
                      [s \in Suppliers |-> IF s \in S THEN NoPrice ELSE Standing[q][s]]]
    <3> DEFINE row == [s \in Suppliers |-> IF s \in S THEN NoPrice ELSE Standing[q][s]]
    <3>1. \A s \in Suppliers :
            row[s] = IF offer'[q][s].status = "PENDING" THEN offer'[q][s].price ELSE NoPrice
      BY <2>2, <2>3 DEF Standing
    <3>2. row = [s \in Suppliers |-> row[s]]
      OBVIOUS
    <3> HIDE DEF row
    <3>3. Standing' = [Standing EXCEPT ![q] = row]
      BY <2>2, <3>1, <3>2, RowReplaced
    <3> QED  BY <3>3 DEF row
  <2>5. TheTender!Fall(q, S)
    BY <2>1, <2>4 DEF TheTender!Fall
  <2> QED  BY <2>5 DEF TheTender!Next
<1>4. ASSUME NEW c \in Calls, Withdraw(c) \/ CreateOffer(c) \/ ReviseLands(c)
      PROVE  [TheTender!Next]_(TheTender!vars)
  <2>1. CASE \E q \in Requests, s \in Suppliers :
               /\ UNCHANGED orders
               /\ offer' = [offer EXCEPT ![q][s] = Mark(offer[q][s], "WITHDRAWN")]
    <3>1. PICK q \in Requests, s \in Suppliers :
            /\ UNCHANGED orders
            /\ offer' = [offer EXCEPT ![q][s] = Mark(offer[q][s], "WITHDRAWN")]
      BY <2>1
    <3>2. /\ offer'[q][s] = Mark(offer[q][s], "WITHDRAWN")
          /\ \A t \in Suppliers \ {s} : offer'[q][t] = offer[q][t]
          /\ \A r \in Requests \ {q} : offer'[r] = offer[r]
      BY <3>1 DEF TypeOK
    <3>3. offer'[q][s].status # "PENDING"
      BY <3>2 DEF Mark
    <3>4. Standing' = [Standing EXCEPT ![q] =
                        [t \in Suppliers |-> IF t \in {s} THEN NoPrice ELSE Standing[q][t]]]
      <4> DEFINE row == [t \in Suppliers |-> IF t \in {s} THEN NoPrice ELSE Standing[q][t]]
      <4>1. \A t \in Suppliers :
              row[t] = IF offer'[q][t].status = "PENDING" THEN offer'[q][t].price ELSE NoPrice
        BY <3>2, <3>3 DEF Standing
      <4>2. row = [t \in Suppliers |-> row[t]]
        OBVIOUS
      <4> HIDE DEF row
      <4>3. Standing' = [Standing EXCEPT ![q] = row]
        BY <3>2, <4>1, <4>2, RowReplaced
      <4> QED  BY <4>3 DEF row
    <3>5. TheTender!Fall(q, {s})
      BY <3>1, <3>4 DEF TheTender!Fall
    <3> QED  BY <3>5 DEF TheTender!Next
  <2>2. CASE \E q \in Requests, s \in Suppliers, p \in Prices :
               /\ UNCHANGED orders
               /\ offer' = [offer EXCEPT ![q][s] = [status |-> "PENDING", price |-> p]]
    <3>1. PICK q \in Requests, s \in Suppliers, p \in Prices :
            /\ UNCHANGED orders
            /\ offer' = [offer EXCEPT ![q][s] = [status |-> "PENDING", price |-> p]]
      BY <2>2
    <3>2. /\ offer'[q][s] = [status |-> "PENDING", price |-> p]
          /\ \A t \in Suppliers \ {s} : offer'[q][t] = offer[q][t]
          /\ \A r \in Requests \ {q} : offer'[r] = offer[r]
      BY <3>1 DEF TypeOK
    <3>3. Standing' = [Standing EXCEPT ![q][s] = p]
      <4> DEFINE row == [Standing[q] EXCEPT ![s] = p]
      <4>1. \A t \in Suppliers :
              row[t] = IF offer'[q][t].status = "PENDING" THEN offer'[q][t].price ELSE NoPrice
        BY <3>2 DEF Standing
      <4>2. row = [t \in Suppliers |-> row[t]]
        BY DEF Standing
      <4> HIDE DEF row
      <4>3. Standing' = [Standing EXCEPT ![q] = row]
        BY <3>2, <4>1, <4>2, RowReplaced
      <4> QED  BY <4>3 DEF row
    <3>4. TheTender!Quote(q, s, p)
      BY <3>1, <3>3 DEF TheTender!Quote
    <3> QED  BY <3>4 DEF TheTender!Next
  <2> QED  BY <1>1, <1>4, <2>1, <2>2, RowWritten
<1> QED  BY <1>1, <1>2, <1>3, <1>4, WhoWritesOffers

(* The service implements the tender: one agreement per request, at the price that
   stands at that moment, never touched again. *)
THEOREM RfqImplementsTender == Spec => KeepsTender
<1>1. Init => TheTender!Init
  BY DEF Init, TheTender!Init, Standing, NoOffer
<1>2. TypeOK /\ RfqInv /\ [Next]_vars => [TheTender!Next]_(TheTender!vars)
  BY TenderStep
<1> QED  BY <1>1, <1>2, TypeCorrect, RowsAreKept, PTL DEF Spec, KeepsTender, TheTender!Spec
=============================================================================
