---------------------------- MODULE BiddingProofs ----------------------------
(* Theorems about Bidding, for every set of requests, suppliers, prices, areas and
   calls, and however the calls overlap: the buyer hears of a bid once, an award is
   said to everybody it was decided about, and whoever is told of an outcome can
   read it. *)
EXTENDS Bidding, FiniteSetTheorems, TLAPS

\* a bid that stands has a price
OfferRows ==
  [status : OfferStatuses \ {"PENDING"}, price : Prices \cup {NoPrice}]
  \cup [status : {"PENDING"}, price : Prices]

BiddingCalls == InFlight \cup Depot!DepotCalls \cup {Idle}

BiddingTypeOK ==
  /\ request \in [Requests -> RequestStatuses]
  /\ offer \in [Requests -> [Suppliers -> OfferRows]]
  /\ told \in [Requests -> [Suppliers -> SUBSET Outcomes]]
  /\ call \in [Calls -> BiddingCalls]
  /\ identity \in [Suppliers -> Identities]
  /\ orders \in [Requests -> SUBSET Orders]
  /\ toReport \subseteq Requests \X Suppliers
  /\ heard \subseteq Requests \X Suppliers

\* only what has been bid is announced
AnnouncedIsBid ==
  \A q \in Requests, s \in Suppliers :
    <<q, s>> \in toReport \cup heard => offer[q][s].status # "NONE"

NewsInv == BiddingTypeOK /\ AnnouncedIsBid /\ BuyerHearsOnce

-----------------------------------------------------------------------------
(* What a call relies on *)

\* the bids turned down, and those that came when the buyer had read the bids
Rejected(q) == {s \in Suppliers : offer[q][s].status = "REJECTED"}
Belated(q) == {s \in Suppliers : <<q, s>> \in late}

\* An award finds the request open. Whoever it turns down is on the list the call
\* has read, or came late; everybody on the list has a bid, and the winner is not on it.
Sound(k) ==
  /\ k.pc \in {"take", "award"} => request[k.request] = "OPEN"
  /\ k.pc \in {"claim", "take", "award"} =>
       Pending(k.request) \ {k.supplier} \subseteq k.rivals \cup Belated(k.request)
  /\ k.pc = "announce" =>
       /\ request[k.request] # "OPEN"
       /\ request[k.request] = "AWARDED" =>
            Rejected(k.request) \subseteq k.rivals \cup Belated(k.request)
  /\ k.pc \in {"claim", "take", "award", "announce"} =>
       /\ k.supplier \notin k.rivals
       /\ \A s \in k.rivals \cup {k.supplier} : offer[k.request][s].status # "NONE"

-----------------------------------------------------------------------------
(* Calls and rows keep their shape *)

LEMMA CallMoves ==
  ASSUME BiddingTypeOK, NEW c \in Calls, NEW local \in BiddingCalls, Become(c, local)
  PROVE  /\ call' \in [Calls -> BiddingCalls]
         /\ call'[c] = local
         /\ \A d \in Calls \ {c} : call'[d] = call[d]
  BY DEF BiddingTypeOK, Become

LEMMA Returns ==
  ASSUME BiddingTypeOK, NEW c \in Calls, Return(c)
  PROVE  /\ call' \in [Calls -> BiddingCalls]
         /\ call'[c] = Idle
         /\ \A d \in Calls \ {c} : call'[d] = call[d]
  BY CallMoves DEF Return, BiddingCalls

(* What a call of RequestsService that is at a given statement carries. *)
LEMMA LocalsTyped ==
  ASSUME BiddingTypeOK, NEW c \in Calls,
         call[c].pc \notin {"idle", "write", "save", "delete", "insert", "apply"}
  PROVE  /\ call[c] \in InFlight
         /\ call[c].request \in Requests
         /\ call[c].pc \notin {"reject", "drop"} => call[c].supplier \in Suppliers
         /\ call[c].pc \in {"claim", "take", "award", "announce"} =>
              call[c].rivals \in SUBSET Suppliers
         /\ call[c].pc = "drop" => call[c].bids \in SUBSET Suppliers
         /\ call[c].pc \in {"award", "create", "revise", "rewrite"} => call[c].price \in Prices
<1>1. call[c] \in BiddingCalls
  BY DEF BiddingTypeOK
<1>2. call[c] \notin Depot!DepotCalls /\ call[c] # Idle
  BY DEF Depot!DepotCalls, Idle
<1>3. call[c] \in InFlight
  BY <1>1, <1>2 DEF BiddingCalls
<1> QED  BY <1>3 DEF InFlight

LEMMA RowTyped ==
  ASSUME BiddingTypeOK, NEW q \in Requests, NEW s \in Suppliers
  PROVE  /\ offer[q] \in [Suppliers -> OfferRows]
         /\ offer[q][s] \in OfferRows
         /\ offer[q][s].status \in OfferStatuses
         /\ offer[q][s].price \in Prices \cup {NoPrice}
         /\ offer[q][s].status = "PENDING" => offer[q][s].price \in Prices
  BY DEF BiddingTypeOK, OfferRows, OfferStatuses

LEMMA MarkTyped ==
  ASSUME NEW row \in OfferRows, NEW status \in {"ACCEPTED", "REJECTED", "WITHDRAWN"}
  PROVE  /\ Mark(row, status) \in OfferRows
         /\ Mark(row, status).status = status
  BY DEF Mark, OfferRows, OfferStatuses

LEMMA MarkedSo == \A row, status : Mark(row, status).status = status
  BY DEF Mark

(* The rows of a request are written. *)
LEMMA AllRows ==
  ASSUME BiddingTypeOK, NEW q \in Requests, NEW rows \in [Suppliers -> OfferRows],
         offer' = [offer EXCEPT ![q] = rows]
  PROVE  /\ offer' \in [Requests -> [Suppliers -> OfferRows]]
         /\ offer'[q] = rows
         /\ \A p \in Requests \ {q} : offer'[p] = offer[p]
  BY DEF BiddingTypeOK

-----------------------------------------------------------------------------
(* What each kind of step does to the tables of RequestsService and to its call *)

\* no table of RequestsService is written, nothing is announced, no bid comes
Quiet == UNCHANGED <<Tables, silent, late>>

\* a call begins
Begins(c) ==
  \E q \in Requests :
    \/ CancelRead(c, q)
    \/ \E s \in Suppliers :
         \/ AcceptRead(c, q, s) \/ WithdrawRead(c, q, s)
         \/ \E p \in Prices : SubmitRead(c, q, s, p)

\* a call goes on
GoesOn(c) ==
  ClaimRequest(c) \/ TakeOffer(c) \/ RejectBids(c) \/ ReviseBegins(c)

\* a call writes: it decides on bids, or makes one
Settles(c) == (CommitAward(c) \/ DropRequest(c) \/ Withdraw(c)) /\ UNCHANGED late

Lands(c) == (CreateOffer(c) \/ ReviseLands(c)) /\ late' = late \cup LateBids

Writes(c) == Settles(c) \/ Lands(c)

\* the depots' step
DepotMoves(c) ==
  \/ UNCHANGED <<call, identity>>
  \/ \E local \in Depot!DepotCalls :
       At(c, "idle") /\ Become(c, local) /\ UNCHANGED identity
  \/ /\ At(c, "write") /\ Return(c)
     /\ identity' \in [Suppliers -> Identities]

LEMMA DepotsStep ==
  ASSUME BiddingTypeOK, NEW c \in Calls, DepotChanges(c)
  PROVE  DepotMoves(c) /\ UNCHANGED <<Tables, buyer, notices>>
<1> USE DEF Depot!At, At, Depot!Become, Become, Depot!Return, Return, Depot!Idle, Idle,
            Depot!depotVars, Depot!profiles
<1>1. UNCHANGED <<Tables, buyer, notices>>
  BY DEF DepotChanges
<1>2. CASE \E s \in Restless, verdict \in Depot!Badges \ {"PENDING"} :
             Depot!VerifySupplier(c, s, verdict)
  BY <1>1, <1>2 DEF Depot!VerifySupplier, DepotMoves
<1>3. CASE \E s \in Restless, accepts \in {"on", "off"} :
             Depot!AmendProfile(c, s, NoIdentity, accepts)
  <2> PICK s \in Restless, accepts \in {"on", "off"} :
        Depot!AmendProfile(c, s, NoIdentity, accepts)
    BY <1>3
  <2> DEFINE resets == Depot!GoesBackToReview(s, NoIdentity)
             local == [pc |-> "write", supplier |-> s, identity |-> NoIdentity,
                       accepting |-> accepts, resets |-> resets]
  <2>1. resets \in BOOLEAN
    BY DEF Depot!GoesBackToReview
  <2>2. local \in Depot!DepotCalls
    BY <2>1, BiddingAssumption DEF Depot!DepotCalls, Depot!Switch
  <2>3. At(c, "idle") /\ Become(c, local) /\ UNCHANGED identity
    BY DEF Depot!AmendProfile
  <2> HIDE DEF local
  <2> QED  BY <1>1, <2>2, <2>3 DEF DepotMoves
<1>4. CASE Depot!WriteProfile(c)
  <2>1. call[c].pc = "write" /\ call[c] \in BiddingCalls
    BY <1>4 DEF Depot!WriteProfile, BiddingTypeOK
  <2>2. call[c].supplier \in Suppliers /\ call[c].identity \in Identities \cup {NoIdentity}
    BY <2>1 DEF BiddingCalls, InFlight, Depot!DepotCalls
  <2>3. identity' = [identity EXCEPT ![call[c].supplier] =
                       IF call[c].identity = NoIdentity THEN @ ELSE call[c].identity]
    BY <1>4 DEF Depot!WriteProfile
  <2>4. identity' \in [Suppliers -> Identities]
    BY <2>2, <2>3 DEF BiddingTypeOK
  <2>5. Return(c)
    BY <1>4 DEF Depot!WriteProfile
  <2> QED  BY <1>1, <2>1, <2>4, <2>5 DEF DepotMoves
<1> QED  BY <1>1, <1>2, <1>3, <1>4 DEF DepotChanges

\* one call moves
Moves(c) ==
  \/ Begins(c) /\ UNCHANGED identity /\ Quiet
  \/ GoesOn(c) /\ UNCHANGED identity /\ Quiet
  \/ Writes(c) /\ UNCHANGED <<identity, silent>>
  \/ SayOutcome(c) /\ UNCHANGED <<identity, silent, late>>
  \/ LoseCall(c)
  \/ DepotMoves(c) /\ Quiet

(* Whatever the server does is one of these, as far as requests go. *)
Kinds ==
  \/ UNCHANGED <<vars, identity>> /\ Quiet
  \/ \E c \in Calls : Moves(c)

LEMMA EveryKind ==
  ASSUME BiddingTypeOK, BiddingNext
  PROVE  Kinds
<1> USE DEF vars, market, depots, notices, Tables, Quiet
<1>1. CASE \E q \in Requests :
             (\E b \in Buyers : PostRequest(q, b)) \/ PickDepots(q) \/ AnnounceRequest(q)
  BY <1>1 DEF PostRequest, PickDepots, AnnounceRequest, Kinds
<1>2. CASE \E bid \in toReport : ReportBid(bid)
  BY <1>2 DEF ReportBid, Kinds
<1>3. CASE LoseNotice
  BY <1>3 DEF LoseNotice, Kinds
<1>4. CASE \E c \in Calls, q \in Posted, s \in Suppliers :
             TakeBack(c, q, s) \/ \E p \in Prices : SubmitBid(c, q, s, p)
  <2> PICK c \in Calls, q \in Posted, s \in Suppliers :
        TakeBack(c, q, s) \/ \E p \in Prices : SubmitBid(c, q, s, p)
    BY <1>4
  <2>1. WithdrawRead(c, q, s) \/ \E p \in Prices : SubmitRead(c, q, s, p)
    BY DEF TakeBack, SubmitBid
  <2>2. Begins(c)
    BY <2>1 DEF Begins, Posted
  <2>3. UNCHANGED Tables
    BY <2>1 DEF WithdrawRead, SubmitRead
  <2>4. UNCHANGED <<identity, silent, late>>
    BY DEF TakeBack, SubmitBid
  <2> QED  BY <2>2, <2>3, <2>4 DEF Kinds, Moves
<1>5. CASE \E c \in Calls : LandBid(c)
  BY <1>5 DEF LandBid, Settles, Lands, Writes, Kinds, Moves
<1>6. CASE \E c \in Calls : Decide(c)
  <2> PICK c \in Calls : Decide(c)
    BY <1>6
  <2>1. UNCHANGED <<identity, silent, late>>
    BY DEF Decide
  <2>2. CASE \E q \in Posted : CancelRead(c, q) \/ \E s \in Suppliers : AcceptRead(c, q, s)
    <3> PICK q \in Posted : CancelRead(c, q) \/ \E s \in Suppliers : AcceptRead(c, q, s)
      BY <2>2
    <3>1. UNCHANGED Tables
      BY DEF CancelRead, AcceptRead
    <3>2. CASE CancelRead(c, q)
      BY <2>1, <3>1, <3>2 DEF Begins, Kinds, Moves, Posted
    <3>3. CASE \E s \in Suppliers : AcceptRead(c, q, s)
      BY <2>1, <3>1, <3>3 DEF Begins, Kinds, Moves, Posted
    <3> QED  BY <3>2, <3>3
  <2>3. CASE ClaimRequest(c) \/ TakeOffer(c) \/ RejectBids(c) \/ ReviseBegins(c)
    BY <2>1, <2>3 DEF GoesOn, Kinds, Moves, ClaimRequest, TakeOffer, RejectBids, ReviseBegins
  <2>4. CASE CommitAward(c) \/ DropRequest(c) \/ Withdraw(c)
    BY <2>1, <2>4 DEF Settles, Lands, Writes, Kinds, Moves
  <2> QED  BY <2>2, <2>3, <2>4 DEF Decide
<1>7. CASE \E c \in Calls : SayOutcome(c)
  BY <1>7 DEF SayOutcome, Kinds, Moves
<1>8. CASE \E c \in Calls : LoseCall(c)
  BY <1>8 DEF Kinds, Moves
<1>9. CASE \E c \in Calls : DepotChanges(c)
  BY <1>9, DepotsStep DEF Kinds, Moves
<1> QED  BY <1>1, <1>2, <1>3, <1>4, <1>5, <1>6, <1>7, <1>8, <1>9 DEF BiddingNext

(* A call that begins has read the tables as they are, and one that goes on without
   writing relies on no more than it did. *)
LEMMA BeginsStep ==
  ASSUME BiddingTypeOK, NEW c \in Calls, Begins(c)
  PROVE  \E local \in InFlight :
           /\ At(c, "idle") /\ Become(c, local) /\ UNCHANGED Tables
           /\ local.pc \notin {"take", "award", "announce"} /\ Sound(local)
<1> USE DEF Sound, Pending, InFlight
<1>1. CASE \E q \in Requests : CancelRead(c, q)
  <2> PICK q \in Requests : CancelRead(c, q)
    BY <1>1
  <2> DEFINE local == [pc |-> "reject", request |-> q]
  <2>1. local \in InFlight /\ local.pc \notin {"take", "award", "announce"} /\ Sound(local)
    BY DEF CancelRead
  <2>2. At(c, "idle") /\ Become(c, local) /\ UNCHANGED Tables
    BY DEF CancelRead
  <2> HIDE DEF local
  <2> QED  BY <2>1, <2>2
<1>2. CASE \E q \in Requests, s \in Suppliers : AcceptRead(c, q, s)
  <2> PICK q \in Requests, s \in Suppliers : AcceptRead(c, q, s)
    BY <1>2
  <2> DEFINE local == [pc |-> "claim", request |-> q, supplier |-> s,
                       rivals |-> Pending(q) \ {s}]
  <2>1. local \in InFlight /\ local.pc \notin {"take", "award", "announce"} /\ Sound(local)
    BY DEF AcceptRead
  <2>2. At(c, "idle") /\ Become(c, local) /\ UNCHANGED Tables
    BY DEF AcceptRead
  <2> HIDE DEF local
  <2> QED  BY <2>1, <2>2
<1>3. CASE \E q \in Requests, s \in Suppliers : WithdrawRead(c, q, s)
  <2> PICK q \in Requests, s \in Suppliers : WithdrawRead(c, q, s)
    BY <1>3
  <2> DEFINE local == [pc |-> "withdraw", request |-> q, supplier |-> s]
  <2>1. local \in InFlight /\ local.pc \notin {"take", "award", "announce"} /\ Sound(local)
    BY DEF WithdrawRead
  <2>2. At(c, "idle") /\ Become(c, local) /\ UNCHANGED Tables
    BY DEF WithdrawRead
  <2> HIDE DEF local
  <2> QED  BY <2>1, <2>2
<1>4. CASE \E q \in Requests, s \in Suppliers, p \in Prices : SubmitRead(c, q, s, p)
  <2> PICK q \in Requests, s \in Suppliers, p \in Prices : SubmitRead(c, q, s, p)
    BY <1>4
  <2> DEFINE step == IF offer[q][s].status = "NONE" THEN "create" ELSE "revise"
             local == [pc |-> step, request |-> q, supplier |-> s, price |-> p]
  <2>1. step \in {"create", "revise"}
    OBVIOUS
  <2>2. At(c, "idle") /\ Become(c, local) /\ UNCHANGED Tables /\ request[q] = "OPEN"
    BY DEF SubmitRead
  <2> HIDE DEF step
  <2>3. local \in InFlight /\ local.pc \notin {"take", "award", "announce"} /\ Sound(local)
    BY <2>1, <2>2
  <2> HIDE DEF local
  <2> QED  BY <2>2, <2>3
<1> QED  BY <1>1, <1>2, <1>3, <1>4 DEF Begins

LEMMA GoesOnStep ==
  ASSUME BiddingTypeOK, NEW c \in Calls, GoesOn(c)
  PROVE  \E local \in InFlight \cup {Idle} :
           /\ Become(c, local) /\ UNCHANGED Tables
           /\ ~At(c, "announce") /\ local.pc # "announce"
           /\ local.pc \in {"take", "award"} =>
                /\ local.request = call[c].request
                /\ RequestFree(c, local.request) \/ HoldsRequest(c, local.request)
           /\ Sound(call[c]) => Sound(local)
<1> USE DEF At, Goto, Return, Idle
<1> DEFINE q == call[c].request
           s == call[c].supplier
<1>0. call[c].pc \in {"claim", "take", "reject", "revise"} /\ UNCHANGED Tables
  BY DEF GoesOn, ClaimRequest, TakeOffer, RejectBids, ReviseBegins
<1>1. call[c] \in InFlight /\ q \in Requests
  BY <1>0, LocalsTyped
<1>2. CASE Return(c)
  <2>1. Idle \in InFlight \cup {Idle} /\ Idle.pc = "idle" /\ Sound(Idle)
    BY DEF Sound
  <2> QED  BY <1>0, <1>2, <2>1
<1>3. CASE ClaimRequest(c) /\ ~Return(c)
  <2> PICK local : local = [call[c] EXCEPT !.pc = "take"]
    OBVIOUS
  <2>1. At(c, "claim") /\ Become(c, local) /\ request[q] = "OPEN" /\ RequestFree(c, q)
    BY <1>3 DEF ClaimRequest
  <2>2. /\ local \in InFlight /\ local.pc = "take" /\ local.request = q
        /\ local.supplier = s /\ local.rivals = call[c].rivals
    BY <1>1, <2>1 DEF InFlight
  <2>3. Sound(call[c]) => Sound(local)
    BY <2>1, <2>2 DEF Sound
  <2> QED  BY <1>0, <2>1, <2>2, <2>3
<1>4. CASE TakeOffer(c) /\ ~Return(c)
  <2> PICK local : local = [pc |-> "award", request |-> q, supplier |-> s,
                            rivals |-> call[c].rivals, price |-> offer[q][s].price]
    OBVIOUS
  <2>1. At(c, "take") /\ Become(c, local) /\ offer[q][s].status = "PENDING"
    BY <1>4 DEF TakeOffer, Hold
  <2>2. s \in Suppliers /\ call[c].rivals \in SUBSET Suppliers
    BY <2>1, LocalsTyped
  <2>3. offer[q][s].price \in Prices
    BY <1>1, <2>1, <2>2, RowTyped
  <2>4. /\ local \in InFlight /\ local.pc = "award" /\ local.request = q
        /\ local.supplier = s /\ local.rivals = call[c].rivals
    BY <1>1, <2>2, <2>3 DEF InFlight
  <2>5. Sound(call[c]) => Sound(local)
    BY <2>1, <2>4 DEF Sound
  <2>6. HoldsRequest(c, q)
    BY <2>1 DEF HoldsRequest
  <2> QED  BY <1>0, <2>1, <2>4, <2>5, <2>6
<1>5. CASE RejectBids(c)
  <2> PICK local : local = [pc |-> "drop", request |-> q, bids |-> Pending(q)]
    OBVIOUS
  <2>1. At(c, "reject") /\ Become(c, local)
    BY <1>5 DEF RejectBids
  <2>2. local \in InFlight /\ local.pc = "drop" /\ local.request = q /\ local.bids = Pending(q)
    BY <1>1 DEF InFlight, Pending
  <2>3. Sound(call[c]) => Sound(local)
    BY <2>1, <2>2 DEF Sound
  <2> QED  BY <1>0, <2>1, <2>2, <2>3
<1>6. CASE ReviseBegins(c) /\ ~Return(c)
  <2> PICK local : local = [call[c] EXCEPT !.pc = "rewrite"]
    OBVIOUS
  <2>1. At(c, "revise") /\ Become(c, local) /\ request[q] = "OPEN"
    BY <1>6 DEF ReviseBegins
  <2>2. local \in InFlight /\ local.pc = "rewrite" /\ local.request = q
    BY <1>1, <2>1 DEF InFlight
  <2>3. Sound(local)
    BY <2>1, <2>2 DEF Sound
  <2> QED  BY <1>0, <2>1, <2>2, <2>3
<1> QED  BY <1>2, <1>3, <1>4, <1>5, <1>6 DEF GoesOn

(* The five statements that write, one by one. *)
LEMMA DecidedTyped ==
  ASSUME NEW row \in [Suppliers -> OfferRows], NEW s \in Suppliers,
         NEW rivals \in SUBSET Suppliers, s \notin rivals
  PROVE  /\ Decided(row, s, rivals) \in [Suppliers -> OfferRows]
         /\ Decided(row, s, rivals)[s].status = "ACCEPTED"
         /\ \A r \in Suppliers \ {s} :
              Decided(row, s, rivals)[r] =
                IF r \in rivals THEN Mark(row[r], "REJECTED") ELSE row[r]
<1>1. \A r \in Suppliers : row[r] \in OfferRows
  OBVIOUS
<1> DEFINE new(r) == CASE r = s       -> Mark(row[r], "ACCEPTED")
                       [] r \in rivals -> Mark(row[r], "REJECTED")
                       [] OTHER       -> row[r]
<1>2. new(s) = Mark(row[s], "ACCEPTED")
  OBVIOUS
<1>3. \A r \in Suppliers \ {s} :
        new(r) = IF r \in rivals THEN Mark(row[r], "REJECTED") ELSE row[r]
  OBVIOUS
<1>4. Decided(row, s, rivals) = [r \in Suppliers |-> new(r)]
  BY DEF Decided
<1> HIDE DEF new
<1>5. \A r \in Suppliers : new(r) \in OfferRows
  BY <1>1, <1>2, <1>3, MarkTyped
<1>6. new(s).status = "ACCEPTED"
  BY <1>1, <1>2, MarkTyped
<1> QED  BY <1>3, <1>4, <1>5, <1>6

LEMMA AwardStep ==
  ASSUME BiddingTypeOK, NEW c \in Calls, CommitAward(c),
         NEW q, NEW s, q = call[c].request, s = call[c].supplier
  PROVE  /\ At(c, "award") /\ q \in Requests /\ s \in Suppliers
         /\ request' = [request EXCEPT ![q] = "AWARDED"]
         /\ offer' \in [Requests -> [Suppliers -> OfferRows]]
         /\ offer'[q][s].status = "ACCEPTED"
         /\ \A r \in Suppliers \ {s} :
              offer'[q][r] = IF r \in Rivals(q, s) THEN Mark(offer[q][r], "REJECTED")
                             ELSE offer[q][r]
         /\ \A p \in Requests \ {q} : offer'[p] = offer[p]
         /\ orders' \in [Requests -> SUBSET Orders]
         /\ \A o \in orders'[q] \ orders[q] : o.supplier = s
         /\ \A p \in Requests \ {q} : orders'[p] = orders[p]
         /\ UNCHANGED told
         /\ \E local \in InFlight :
              /\ Become(c, local) /\ local.pc = "announce" /\ local.request = q
              /\ local.supplier = s /\ local.rivals = call[c].rivals
<1>1. /\ At(c, "award") /\ UNCHANGED told
      /\ request' = [request EXCEPT ![q] = "AWARDED"]
      /\ offer' = [offer EXCEPT ![q] = Decided(@, s, Rivals(q, s))]
      /\ Become(c, [pc |-> "announce", request |-> q, supplier |-> s,
                    rivals |-> call[c].rivals])
  BY DEF CommitAward
<1>2. q \in Requests /\ s \in Suppliers /\ call[c].rivals \in SUBSET Suppliers
  BY <1>1, LocalsTyped DEF At
<1>3. offer[q] \in [Suppliers -> OfferRows] /\ Rivals(q, s) \in SUBSET Suppliers
      /\ s \notin Rivals(q, s)
  BY <1>2 DEF BiddingTypeOK, Rivals, Pending
<1> DEFINE rows == Decided(offer[q], s, Rivals(q, s))
<1>4. /\ rows \in [Suppliers -> OfferRows] /\ rows[s].status = "ACCEPTED"
      /\ \A r \in Suppliers \ {s} :
           rows[r] = IF r \in Rivals(q, s) THEN Mark(offer[q][r], "REJECTED") ELSE offer[q][r]
  BY <1>2, <1>3, DecidedTyped
<1>5. offer' = [offer EXCEPT ![q] = rows]
  BY <1>1, <1>2 DEF BiddingTypeOK
<1> HIDE DEF rows
<1>6. /\ offer' \in [Requests -> [Suppliers -> OfferRows]] /\ offer'[q] = rows
      /\ \A p \in Requests \ {q} : offer'[p] = offer[p]
  BY <1>2, <1>4, <1>5, AllRows
<1>8. /\ orders' \in [Requests -> SUBSET Orders]
      /\ \A o \in orders'[q] \ orders[q] : o.supplier = s
      /\ \A p \in Requests \ {q} : orders'[p] = orders[p]
  <2> PICK o : o = [supplier |-> s, price |-> call[c].price]
    OBVIOUS
  <2>1. o \in Orders /\ o.supplier = s
    BY <1>1, <1>2, LocalsTyped DEF Orders, At
  <2>2. orders' = [orders EXCEPT ![q] = @ \cup {o}]
    BY DEF CommitAward
  <2> QED  BY <1>2, <2>1, <2>2 DEF BiddingTypeOK
<1>7. \E local \in InFlight :
        /\ Become(c, local) /\ local.pc = "announce" /\ local.request = q
        /\ local.supplier = s /\ local.rivals = call[c].rivals
  <2> PICK local : local = [pc |-> "announce", request |-> q, supplier |-> s,
                            rivals |-> call[c].rivals]
    OBVIOUS
  <2>1. local \in InFlight
    BY <1>2 DEF InFlight
  <2> QED  BY <1>1, <2>1
<1> QED  BY <1>1, <1>2, <1>4, <1>6, <1>7, <1>8

LEMMA DropStep ==
  ASSUME BiddingTypeOK, NEW c \in Calls, DropRequest(c), NEW q, q = call[c].request
  PROVE  /\ At(c, "drop") /\ q \in Requests
         /\ request' = [request EXCEPT ![q] = "CANCELLED"]
         /\ offer' \in [Requests -> [Suppliers -> OfferRows]]
         /\ \A r \in Suppliers :
              offer'[q][r] = IF r \in call[c].bids THEN Mark(offer[q][r], "REJECTED")
                             ELSE offer[q][r]
         /\ \A p \in Requests \ {q} : offer'[p] = offer[p]
         /\ UNCHANGED <<orders, told>> /\ Return(c)
<1>1. At(c, "drop") /\ Return(c) /\ UNCHANGED <<orders, told>>
      /\ request' = [request EXCEPT ![q] = "CANCELLED"]
  BY DEF DropRequest
<1>2. q \in Requests
  BY <1>1, LocalsTyped DEF At
<1>3. offer[q] \in [Suppliers -> OfferRows]
  BY <1>2 DEF BiddingTypeOK
<1> PICK rows : rows = [r \in Suppliers |->
                          IF r \in call[c].bids THEN Mark(offer[q][r], "REJECTED")
                          ELSE offer[q][r]]
  OBVIOUS
<1>4. rows \in [Suppliers -> OfferRows]
  BY <1>3, MarkTyped
<1>5. offer' = [offer EXCEPT ![q] = rows]
  BY <1>2 DEF BiddingTypeOK, DropRequest
<1>6. /\ offer' \in [Requests -> [Suppliers -> OfferRows]] /\ offer'[q] = rows
      /\ \A p \in Requests \ {q} : offer'[p] = offer[p]
  BY <1>2, <1>4, <1>5, AllRows
<1>7. \A r \in Suppliers :
        offer'[q][r] = IF r \in call[c].bids THEN Mark(offer[q][r], "REJECTED")
                       ELSE offer[q][r]
  BY <1>6
<1> QED  BY <1>1, <1>2, <1>6, <1>7

\* one bid is written, or nothing is
OneBid(q, s, row) ==
  /\ offer'[q][s] = row
  /\ \A r \in Suppliers \ {s} : offer'[q][r] = offer[q][r]
  /\ \A p \in Requests \ {q} : offer'[p] = offer[p]

LEMMA RowWritten ==
  ASSUME BiddingTypeOK, NEW q \in Requests, NEW s \in Suppliers, NEW row \in OfferRows
  PROVE  offer' = [offer EXCEPT ![q][s] = row] =>
           offer' \in [Requests -> [Suppliers -> OfferRows]] /\ OneBid(q, s, row)
<1> SUFFICES ASSUME offer' = [offer EXCEPT ![q][s] = row]
             PROVE  offer' \in [Requests -> [Suppliers -> OfferRows]] /\ OneBid(q, s, row)
  OBVIOUS
<1>1. /\ offer' \in [Requests -> [Suppliers -> OfferRows]] /\ offer'[q][s] = row
      /\ \A r \in Suppliers \ {s} : offer'[q][r] = offer[q][r]
      /\ \A p \in Requests \ {q} : offer'[p] = offer[p]
  BY DEF BiddingTypeOK
<1> QED  BY <1>1 DEF OneBid

LEMMA WithdrawStep ==
  ASSUME BiddingTypeOK, NEW c \in Calls, Withdraw(c),
         NEW q, NEW s, q = call[c].request, s = call[c].supplier
  PROVE  /\ At(c, "withdraw") /\ q \in Requests /\ s \in Suppliers
         /\ offer' \in [Requests -> [Suppliers -> OfferRows]]
         /\ OneBid(q, s, Mark(offer[q][s], "WITHDRAWN"))
         /\ UNCHANGED <<request, orders, told>> /\ Return(c)
<1>1. /\ At(c, "withdraw") /\ Return(c) /\ UNCHANGED <<request, orders, told>>
      /\ offer' = [offer EXCEPT ![q][s] = Mark(@, "WITHDRAWN")]
  BY DEF Withdraw
<1>2. q \in Requests /\ s \in Suppliers
  BY <1>1, LocalsTyped DEF At
<1> PICK row : row = Mark(offer[q][s], "WITHDRAWN")
  OBVIOUS
<1>3. row \in OfferRows
  BY <1>2, RowTyped, MarkTyped
<1>4. offer' = [offer EXCEPT ![q][s] = row]
  BY <1>1, <1>2 DEF BiddingTypeOK
<1>5. offer' \in [Requests -> [Suppliers -> OfferRows]] /\ OneBid(q, s, row)
  BY <1>2, <1>3, <1>4, RowWritten
<1> QED  BY <1>1, <1>2, <1>5

LEMMA BidStep ==
  ASSUME BiddingTypeOK, NEW c \in Calls, CreateOffer(c) \/ ReviseLands(c),
         NEW q, NEW s, q = call[c].request, s = call[c].supplier
  PROVE  /\ call[c].pc \in {"create", "rewrite"} /\ q \in Requests /\ s \in Suppliers
         /\ offer' \in [Requests -> [Suppliers -> OfferRows]]
         /\ \/ UNCHANGED offer
            \/ OneBid(q, s, [status |-> "PENDING", price |-> call[c].price])
         /\ At(c, "create") /\ offer[q][s] = NoOffer =>
              OneBid(q, s, [status |-> "PENDING", price |-> call[c].price])
         /\ UNCHANGED <<request, orders, told>> /\ Return(c)
<1>1. /\ call[c].pc \in {"create", "rewrite"} /\ Return(c)
      /\ UNCHANGED <<request, orders, told>>
  BY DEF CreateOffer, ReviseLands, At
<1>2. q \in Requests /\ s \in Suppliers /\ call[c].price \in Prices
  BY <1>1, LocalsTyped
<1> PICK row : row = [status |-> "PENDING", price |-> call[c].price]
  OBVIOUS
<1>3. row \in OfferRows
  BY <1>2 DEF OfferRows
<1>4. UNCHANGED offer \/ offer' = [offer EXCEPT ![q][s] = row]
  BY DEF CreateOffer, ReviseLands
<1>5. At(c, "create") /\ offer[q][s] = NoOffer => offer' = [offer EXCEPT ![q][s] = row]
  BY DEF CreateOffer, ReviseLands, At, NoOffer
<1>6. offer \in [Requests -> [Suppliers -> OfferRows]]
  BY DEF BiddingTypeOK
<1>7. ASSUME offer' = [offer EXCEPT ![q][s] = row]
      PROVE  offer' \in [Requests -> [Suppliers -> OfferRows]] /\ OneBid(q, s, row)
  BY <1>2, <1>3, <1>7, RowWritten
<1> QED  BY <1>1, <1>2, <1>4, <1>5, <1>6, <1>7

LEMMA LedByWinner ==
  ASSUME NEW winner, NEW losers, NEW people \in Led(winner, losers)
  PROVE  winner \in people
  BY DEF Led

\* the notices of a request reach these people now, and nobody else
Reaches(q, people) ==
  \A r \in Suppliers : IF r \in people THEN told'[q][r] # {} ELSE told'[q][r] = told[q][r]

LEMMA SayStep ==
  ASSUME BiddingTypeOK, NEW c \in Calls, SayOutcome(c),
         NEW q, NEW s, q = call[c].request, s = call[c].supplier
  PROVE  /\ At(c, "announce") /\ q \in Requests /\ s \in Suppliers
         /\ told' \in [Requests -> [Suppliers -> SUBSET Outcomes]]
         /\ \A p \in Requests, r \in Suppliers : told[p][r] \subseteq told'[p][r]
         /\ \A p \in Requests \ {q} : told'[p] = told[p]
         /\ \E people \in Led(s, Losers(c)) : Reaches(q, people)
         /\ "OFFER_ACCEPTED" \in told'[q][s]
         /\ UNCHANGED <<request, offer, orders>> /\ Return(c)
<1>1. At(c, "announce") /\ Return(c) /\ UNCHANGED <<request, offer, orders>>
  BY DEF SayOutcome
<1>2. q \in Requests /\ s \in Suppliers
  BY <1>1, LocalsTyped DEF At
<1> PICK people \in Led(call[c].supplier, Losers(c)) :
      told' = [told EXCEPT ![call[c].request] =
        [r \in Suppliers |->
           CASE r \notin people     -> @[r]
             [] r = call[c].supplier -> @[r] \cup {"OFFER_ACCEPTED"}
             [] OTHER               -> @[r] \cup {"OFFER_REJECTED"}]]
  BY DEF SayOutcome
<1>3. s \in people
  BY LedByWinner
<1> DEFINE new(r) == CASE r \notin people -> told[q][r]
                       [] r = s           -> told[q][r] \cup {"OFFER_ACCEPTED"}
                       [] OTHER           -> told[q][r] \cup {"OFFER_REJECTED"}
           rows == [r \in Suppliers |-> new(r)]
<1>4. \A r \in Suppliers :
        /\ r \notin people => new(r) = told[q][r]
        /\ r \in people /\ r = s => new(r) = told[q][r] \cup {"OFFER_ACCEPTED"}
        /\ r \in people /\ r # s => new(r) = told[q][r] \cup {"OFFER_REJECTED"}
  BY <1>3
<1>5. told' = [told EXCEPT ![q] = rows]
  BY <1>2 DEF BiddingTypeOK
<1> HIDE DEF new
<1>6. told[q] \in [Suppliers -> SUBSET Outcomes]
  BY <1>2 DEF BiddingTypeOK
<1>7. \A r \in Suppliers :
        /\ rows[r] \in SUBSET Outcomes /\ told[q][r] \subseteq rows[r]
        /\ IF r \in people THEN rows[r] # {} ELSE rows[r] = told[q][r]
        /\ r = s => "OFFER_ACCEPTED" \in rows[r]
  BY <1>3, <1>4, <1>6 DEF Outcomes
<1>8. rows \in [Suppliers -> SUBSET Outcomes]
  BY <1>7
<1> HIDE DEF rows
<1>9. /\ told' \in [Requests -> [Suppliers -> SUBSET Outcomes]] /\ told'[q] = rows
      /\ \A p \in Requests \ {q} : told'[p] = told[p]
  BY <1>2, <1>5, <1>8 DEF BiddingTypeOK
<1>10. \A p \in Requests, r \in Suppliers : told[p][r] \subseteq told'[p][r]
  BY <1>7, <1>9
<1>11. Reaches(q, people)
  BY <1>7, <1>9 DEF Reaches
<1>12. "OFFER_ACCEPTED" \in told'[q][s]
  BY <1>2, <1>7, <1>9
<1> QED  BY <1>1, <1>2, <1>9, <1>10, <1>11, <1>12

-----------------------------------------------------------------------------
(* Types are kept, and a bid that was made is never unmade *)

\* a bid, once there, is there for good
BidsStay ==
  \A q \in Requests, s \in Suppliers :
    offer[q][s].status # "NONE" => offer'[q][s].status # "NONE"

LEMMA WritesTyped ==
  ASSUME BiddingTypeOK, NEW c \in Calls, Writes(c)
  PROVE  /\ request' \in [Requests -> RequestStatuses]
         /\ offer' \in [Requests -> [Suppliers -> OfferRows]]
         /\ orders' \in [Requests -> SUBSET Orders]
         /\ call' \in [Calls -> BiddingCalls]
         /\ UNCHANGED told
         /\ BidsStay
<1> PICK q, s : q = call[c].request /\ s = call[c].supplier
  OBVIOUS
<1>1. \A row, mark : Mark(row, mark).status = mark
  BY MarkedSo
<1>2. CASE CommitAward(c)
  <2>1. /\ q \in Requests /\ s \in Suppliers
        /\ request' = [request EXCEPT ![q] = "AWARDED"]
        /\ offer' \in [Requests -> [Suppliers -> OfferRows]]
        /\ offer'[q][s].status = "ACCEPTED"
        /\ \A r \in Suppliers \ {s} :
             offer'[q][r] = IF r \in Rivals(q, s) THEN Mark(offer[q][r], "REJECTED")
                            ELSE offer[q][r]
        /\ \A p \in Requests \ {q} : offer'[p] = offer[p]
        /\ orders' \in [Requests -> SUBSET Orders]
        /\ UNCHANGED told
    BY <1>2, AwardStep
  <2>2. PICK local \in InFlight : Become(c, local)
    BY <1>2, AwardStep
  <2>3. call' \in [Calls -> BiddingCalls]
    BY <2>2, CallMoves DEF BiddingCalls
  <2>4. request' \in [Requests -> RequestStatuses]
    BY <2>1 DEF BiddingTypeOK, RequestStatuses
  <2>5. BidsStay
    BY <1>1, <2>1 DEF BidsStay
  <2> QED  BY <2>1, <2>3, <2>4, <2>5
<1>3. CASE DropRequest(c)
  <2>1. /\ q \in Requests
        /\ request' = [request EXCEPT ![q] = "CANCELLED"]
        /\ offer' \in [Requests -> [Suppliers -> OfferRows]]
        /\ \A r \in Suppliers :
             offer'[q][r] = IF r \in call[c].bids THEN Mark(offer[q][r], "REJECTED")
                            ELSE offer[q][r]
        /\ \A p \in Requests \ {q} : offer'[p] = offer[p]
        /\ UNCHANGED <<orders, told>> /\ Return(c)
    BY <1>3, DropStep
  <2>2. request' \in [Requests -> RequestStatuses]
    BY <2>1 DEF BiddingTypeOK, RequestStatuses
  <2>3. BidsStay
    BY <1>1, <2>1 DEF BidsStay
  <2> QED  BY <2>1, <2>2, <2>3, Returns DEF BiddingTypeOK
<1>4. CASE Withdraw(c)
  <2>1. /\ offer' \in [Requests -> [Suppliers -> OfferRows]]
        /\ OneBid(q, s, Mark(offer[q][s], "WITHDRAWN"))
        /\ UNCHANGED <<request, orders, told>> /\ Return(c)
    BY <1>4, WithdrawStep
  <2>2. BidsStay
    BY <1>1, <2>1 DEF BidsStay, OneBid
  <2> QED  BY <2>1, <2>2, Returns DEF BiddingTypeOK
<1>5. CASE CreateOffer(c) \/ ReviseLands(c)
  <2>1. /\ offer' \in [Requests -> [Suppliers -> OfferRows]]
        /\ \/ UNCHANGED offer
           \/ OneBid(q, s, [status |-> "PENDING", price |-> call[c].price])
        /\ UNCHANGED <<request, orders, told>> /\ Return(c)
    BY <1>5, BidStep
  <2>2. BidsStay
    BY <2>1 DEF BidsStay, OneBid
  <2> QED  BY <2>1, <2>2, Returns DEF BiddingTypeOK
<1> QED  BY <1>2, <1>3, <1>4, <1>5 DEF Writes, Settles, Lands

(* Whatever step is taken, tables and calls keep their types and bids stay. *)
LEMMA TablesTyped ==
  ASSUME BiddingTypeOK, Kinds
  PROVE  /\ request' \in [Requests -> RequestStatuses]
         /\ offer' \in [Requests -> [Suppliers -> OfferRows]]
         /\ told' \in [Requests -> [Suppliers -> SUBSET Outcomes]]
         /\ orders' \in [Requests -> SUBSET Orders]
         /\ call' \in [Calls -> BiddingCalls]
         /\ identity' \in [Suppliers -> Identities]
         /\ BidsStay
<1>1. /\ request \in [Requests -> RequestStatuses]
      /\ offer \in [Requests -> [Suppliers -> OfferRows]]
      /\ told \in [Requests -> [Suppliers -> SUBSET Outcomes]]
      /\ orders \in [Requests -> SUBSET Orders]
      /\ call \in [Calls -> BiddingCalls]
      /\ identity \in [Suppliers -> Identities]
  BY DEF BiddingTypeOK
<1>2. UNCHANGED offer => BidsStay
  BY DEF BidsStay
<1>3. CASE UNCHANGED <<vars, identity>>
  BY <1>1, <1>2, <1>3 DEF vars
<1> SUFFICES ASSUME ~UNCHANGED <<vars, identity>>
             PROVE  /\ request' \in [Requests -> RequestStatuses]
                    /\ offer' \in [Requests -> [Suppliers -> OfferRows]]
                    /\ told' \in [Requests -> [Suppliers -> SUBSET Outcomes]]
                    /\ orders' \in [Requests -> SUBSET Orders]
                    /\ call' \in [Calls -> BiddingCalls]
                    /\ identity' \in [Suppliers -> Identities]
                    /\ BidsStay
  BY <1>3
<1> PICK c \in Calls : Moves(c)
  BY DEF Kinds
<1>4. \A local \in BiddingCalls : Become(c, local) => call' \in [Calls -> BiddingCalls]
  BY <1>1 DEF Become
<1>5. Return(c) => call' \in [Calls -> BiddingCalls]
  BY Returns
<1> HIDE DEF Become, Return
<1>6. CASE Begins(c) /\ UNCHANGED identity
  <2> PICK local \in InFlight : Become(c, local) /\ UNCHANGED Tables
    BY <1>6, BeginsStep
  <2> QED  BY <1>1, <1>2, <1>4, <1>6 DEF Tables, BiddingCalls
<1>7. CASE GoesOn(c) /\ UNCHANGED identity
  <2> PICK local \in InFlight \cup {Idle} : Become(c, local) /\ UNCHANGED Tables
    BY <1>7, GoesOnStep
  <2> QED  BY <1>1, <1>2, <1>4, <1>7 DEF Tables, BiddingCalls
<1>8. CASE Writes(c) /\ UNCHANGED <<identity, silent>>
  BY <1>1, <1>8, WritesTyped
<1>9. CASE SayOutcome(c) /\ UNCHANGED <<identity, silent, late>>
  <2> PICK q, s : q = call[c].request /\ s = call[c].supplier
    OBVIOUS
  <2>1. /\ told' \in [Requests -> [Suppliers -> SUBSET Outcomes]]
        /\ UNCHANGED <<request, offer, orders>> /\ Return(c)
    BY <1>9, SayStep
  <2> QED  BY <1>1, <1>2, <1>5, <1>9, <2>1
<1>10. CASE LoseCall(c)
  <2>1. Return(c) /\ UNCHANGED Tables /\ UNCHANGED identity
    BY <1>10 DEF LoseCall, Crash, market, depots
  <2> QED  BY <1>1, <1>2, <1>5, <2>1 DEF Tables
<1>11. CASE DepotMoves(c) /\ Quiet
  <2>1. UNCHANGED Tables
    BY <1>11 DEF Quiet
  <2>2. call' \in [Calls -> BiddingCalls] /\ identity' \in [Suppliers -> Identities]
    <3>1. CASE UNCHANGED <<call, identity>>
      BY <1>1, <3>1
    <3>2. CASE \E local \in Depot!DepotCalls : Become(c, local) /\ UNCHANGED identity
      BY <1>1, <1>4, <3>2 DEF BiddingCalls
    <3>3. CASE Return(c) /\ identity' \in [Suppliers -> Identities]
      BY <1>5, <3>3
    <3> QED  BY <1>11, <3>1, <3>2, <3>3 DEF DepotMoves
  <2> QED  BY <1>1, <1>2, <2>1, <2>2 DEF Tables
<1> QED  BY <1>6, <1>7, <1>8, <1>9, <1>10, <1>11 DEF Moves

-----------------------------------------------------------------------------
(* The buyer hears of a bid once *)

(* News is of a bid that was just made; the rest is moved or lost. *)
NewsMoves ==
  \/ UNCHANGED <<toReport, heard>>
  \/ \E bid \in toReport : toReport' = toReport \ {bid} /\ heard' = heard \cup {bid}
  \/ \E bid \in toReport : toReport' = toReport \ {bid} /\ UNCHANGED heard
  \/ \E q \in Requests, s \in Suppliers :
       /\ toReport' = toReport \cup {<<q, s>>} /\ UNCHANGED heard
       /\ offer[q][s].status = "NONE" /\ offer'[q][s].status # "NONE"

LEMMA EveryNewsMove ==
  ASSUME BiddingTypeOK, BiddingNext
  PROVE  NewsMoves
<1> USE DEF notices
<1>1. CASE \E bid \in toReport : ReportBid(bid)
  BY <1>1 DEF ReportBid, NewsMoves
<1>2. CASE LoseNotice
  BY <1>2 DEF LoseNotice, NewsMoves
<1>3. CASE \E c \in Calls : LandBid(c)
  <2> PICK c \in Calls : LandBid(c)
    BY <1>3
  <2> PICK q, s : q = call[c].request /\ s = call[c].supplier
    OBVIOUS
  <2>1. (CreateOffer(c) \/ ReviseLands(c)) /\ toReport' = toReport \cup News(c) /\ UNCHANGED heard
    BY DEF LandBid
  <2>2. CASE At(c, "create") /\ offer[q][s] = NoOffer
    <3>1. q \in Requests /\ s \in Suppliers
          /\ OneBid(q, s, [status |-> "PENDING", price |-> call[c].price])
      BY <2>1, <2>2, BidStep
    <3>2. News(c) = {<<q, s>>}
      BY <2>2 DEF News
    <3>3. offer[q][s].status = "NONE" /\ offer'[q][s].status # "NONE"
      BY <2>2, <3>1 DEF NoOffer, OneBid
    <3> QED  BY <2>1, <3>1, <3>2, <3>3 DEF NewsMoves
  <2>3. CASE ~(At(c, "create") /\ offer[q][s] = NoOffer)
    <3>1. News(c) = {}
      BY <2>3 DEF News
    <3> QED  BY <2>1, <3>1 DEF NewsMoves
  <2> QED  BY <2>2, <2>3
<1>4. CASE /\ ~\E bid \in toReport : ReportBid(bid)
           /\ ~LoseNotice
           /\ ~\E c \in Calls : LandBid(c)
  <2>1. \A b : \A q \in Requests :
          PostRequest(q, b) \/ PickDepots(q) \/ AnnounceRequest(q) =>
            UNCHANGED <<toReport, heard>>
    BY DEF PostRequest, PickDepots, AnnounceRequest
  <2>2. \A c, q, s, p :
          SubmitBid(c, q, s, p) \/ TakeBack(c, q, s) => UNCHANGED <<toReport, heard>>
    BY DEF SubmitBid, TakeBack
  <2>3. \A c : Decide(c) \/ SayOutcome(c) => UNCHANGED <<toReport, heard>>
    BY DEF Decide, SayOutcome
  <2>4. \A c : LoseCall(c) \/ DepotChanges(c) => UNCHANGED <<toReport, heard>>
    BY DEF LoseCall, DepotChanges
  <2>5. UNCHANGED <<toReport, heard>>
    BY <1>4, <2>1, <2>2, <2>3, <2>4, ZenonT(30) DEF BiddingNext
  <2> QED  BY <2>5 DEF NewsMoves
<1> QED  BY <1>1, <1>2, <1>3, <1>4

LEMMA NewsInit == BiddingInit => NewsInv
<1> SUFFICES ASSUME BiddingInit
             PROVE  NewsInv
  OBVIOUS
<1>1. NoOffer \in OfferRows
  BY DEF NoOffer, OfferRows, OfferStatuses
<1>2. call \in [Calls -> BiddingCalls]
  BY DEF BiddingInit, Init, BiddingCalls
<1>3. /\ request \in [Requests -> RequestStatuses]
      /\ offer \in [Requests -> [Suppliers -> OfferRows]]
      /\ told \in [Requests -> [Suppliers -> SUBSET Outcomes]]
      /\ orders \in [Requests -> SUBSET Orders]
  BY <1>1 DEF BiddingInit, Init, RequestStatuses
<1> QED  BY <1>2, <1>3 DEF BiddingInit, NewsInv, BiddingTypeOK, AnnouncedIsBid, BuyerHearsOnce

LEMMA NewsKept ==
  ASSUME NewsInv, BiddingNext
  PROVE  NewsInv'
<1>1. BiddingTypeOK /\ AnnouncedIsBid /\ BuyerHearsOnce
  BY DEF NewsInv
<1>2. Kinds
  BY <1>1, EveryKind
<1>3. /\ request' \in [Requests -> RequestStatuses]
      /\ offer' \in [Requests -> [Suppliers -> OfferRows]]
      /\ told' \in [Requests -> [Suppliers -> SUBSET Outcomes]]
      /\ orders' \in [Requests -> SUBSET Orders]
      /\ call' \in [Calls -> BiddingCalls]
      /\ identity' \in [Suppliers -> Identities]
      /\ BidsStay
  BY <1>1, <1>2, TablesTyped
<1>5. NewsMoves
  BY <1>1, EveryNewsMove
<1>6. toReport \subseteq Requests \X Suppliers /\ heard \subseteq Requests \X Suppliers
  BY <1>1 DEF BiddingTypeOK
<1>7. toReport' \subseteq Requests \X Suppliers /\ heard' \subseteq Requests \X Suppliers
  BY <1>5, <1>6 DEF NewsMoves
<1>8. AnnouncedIsBid'
  <2>1. CASE toReport' \cup heard' \subseteq toReport \cup heard
    BY <1>1, <1>3, <2>1 DEF AnnouncedIsBid, BidsStay
  <2>2. CASE \E q \in Requests, s \in Suppliers :
               /\ toReport' = toReport \cup {<<q, s>>} /\ UNCHANGED heard
               /\ offer'[q][s].status # "NONE"
    BY <1>1, <1>3, <2>2 DEF AnnouncedIsBid, BidsStay
  <2> QED  BY <1>5, <2>1, <2>2 DEF NewsMoves
<1>9. BuyerHearsOnce'
  <2>1. CASE \E q \in Requests, s \in Suppliers :
               /\ toReport' = toReport \cup {<<q, s>>} /\ UNCHANGED heard
               /\ offer[q][s].status = "NONE"
    BY <1>1, <2>1 DEF AnnouncedIsBid, BuyerHearsOnce
  <2> QED  BY <1>1, <1>5, <2>1 DEF NewsMoves, BuyerHearsOnce
<1> QED  BY <1>3, <1>7, <1>8, <1>9 DEF NewsInv, BiddingTypeOK

LEMMA NewsStutters ==
  ASSUME NewsInv, UNCHANGED biddingVars
  PROVE  NewsInv'
  BY DEF NewsInv, BiddingTypeOK, AnnouncedIsBid, BuyerHearsOnce, biddingVars, vars, market,
         depots, notices

LEMMA NewsInvariant == BiddingSpec => []NewsInv
<1>1. NewsInv /\ [BiddingNext]_biddingVars => NewsInv'
  BY NewsKept, NewsStutters
<1> QED  BY <1>1, NewsInit, PTL DEF BiddingSpec

(* The buyer hears of a bid once (BuyerHearsOnce): a row, once inserted, is never
   removed, so only one insert is announced, whatever revisions, withdrawals and
   new bids follow and however calls overlap. *)
THEOREM BidsAreAnnouncedOnce == BiddingSpec => []BuyerHearsOnce
<1>1. NewsInv => BuyerHearsOnce
  BY DEF NewsInv
<1> QED  BY <1>1, NewsInvariant, PTL

-----------------------------------------------------------------------------
(* An award and those it was decided about *)

\* two awards never hold the same request
OneAward ==
  \A c, d \in Calls, q \in Requests : c # d => ~(HoldsRequest(c, q) /\ HoldsRequest(d, q))

\* an award that has been announced was said to whom it concerns
Spoken(q) ==
  request[q] = "AWARDED" /\ q \notin silent /\ ~Announcing(q) =>
    \A s \in Rejected(q) \ Belated(q) : s \in Told(q) \/ Cardinality(Told(q)) >= MaxFanout

\* whoever has an order of it knows, or is about to
WinnerHears(q) ==
  \A o \in orders[q] :
    \/ "OFFER_ACCEPTED" \in told[q][o.supplier] \/ q \in silent
    \/ \E c \in Calls : At(c, "announce") /\ call[c].request = q /\ call[c].supplier = o.supplier

AwardInv ==
  /\ NewsInv
  /\ OneAward
  /\ \A c \in Calls : Sound(call[c])
  /\ \A q \in Requests :
       /\ request[q] = "OPEN" => Rejected(q) = {}
       /\ Spoken(q)
       /\ WinnerHears(q)
       /\ \A s \in Told(q) : offer[q][s].status # "NONE"

(* A call that moves leaves the others where they are. *)
LEMMA OthersStay ==
  ASSUME BiddingTypeOK, NEW c \in Calls, Moves(c)
  PROVE  \A d \in Calls \ {c} : call'[d] = call[d]
<1>1. ASSUME NEW local \in BiddingCalls, Become(c, local)
      PROVE  \A d \in Calls \ {c} : call'[d] = call[d]
  BY <1>1, CallMoves
<1>2. Idle \in BiddingCalls /\ InFlight \subseteq BiddingCalls
      /\ Depot!DepotCalls \subseteq BiddingCalls
  BY DEF BiddingCalls
<1>3. CASE Return(c)
  BY <1>1, <1>2, <1>3 DEF Return
<1>4. CASE Begins(c)
  <2> PICK local \in InFlight : Become(c, local)
    BY <1>4, BeginsStep
  <2> QED  BY <1>1, <1>2
<1>5. CASE GoesOn(c)
  <2> PICK local \in InFlight \cup {Idle} : Become(c, local)
    BY <1>5, GoesOnStep
  <2> QED  BY <1>1, <1>2
<1>6. CASE CommitAward(c)
  <2> PICK local \in InFlight : Become(c, local)
    BY <1>6, AwardStep
  <2> QED  BY <1>1, <1>2
<1>7. CASE DropRequest(c) \/ Withdraw(c) \/ CreateOffer(c) \/ ReviseLands(c)
  BY <1>3, <1>7 DEF DropRequest, Withdraw, CreateOffer, ReviseLands
<1>8. CASE SayOutcome(c) \/ LoseCall(c)
  BY <1>3, <1>8 DEF SayOutcome, LoseCall, Crash
<1>9. CASE DepotMoves(c)
  BY <1>1, <1>2, <1>3, <1>9 DEF DepotMoves
<1> QED  BY <1>4, <1>5, <1>6, <1>7, <1>8, <1>9 DEF Moves, Writes, Settles, Lands

\* what a step that awards no bid of q leaves of it
Unawarded(q) ==
  /\ request'[q] = request[q] /\ orders'[q] = orders[q]
  /\ Rejected(q)' \subseteq Rejected(q)

(* What a step may do to a request: award it, cancel it, or neither. A bid comes to
   stand on a request that is being decided only as a late one. *)
LEMMA RequestStep ==
  ASSUME BiddingTypeOK, NEW c \in Calls, Moves(c), NEW q \in Requests
  PROVE  /\ Belated(q) \subseteq Belated(q)'
         /\ Choosing(q) => Pending(q)' \subseteq Pending(q) \cup Belated(q)'
         /\ BidsStay
         /\ \/ CommitAward(c) /\ call[c].request = q
            \/ /\ DropRequest(c) /\ call[c].request = q
               /\ request'[q] = "CANCELLED" /\ orders'[q] = orders[q]
            \/ Unawarded(q)
<1> DEFINE Goal == /\ Belated(q) \subseteq Belated(q)'
                   /\ Choosing(q) => Pending(q)' \subseteq Pending(q) \cup Belated(q)'
                   /\ \/ CommitAward(c) /\ call[c].request = q
                      \/ /\ DropRequest(c) /\ call[c].request = q
                         /\ request'[q] = "CANCELLED" /\ orders'[q] = orders[q]
                      \/ Unawarded(q)
<1>0. BidsStay
  BY TablesTyped DEF Kinds
<1>1. UNCHANGED <<request, offer, orders, late>> => Goal
  BY DEF Belated, Pending, Rejected, Unawarded
<1>2. ASSUME Writes(c), ~Goal
      PROVE  FALSE
  <2> PICK p, s : p = call[c].request /\ s = call[c].supplier
    OBVIOUS
  <2>1. CASE CommitAward(c) /\ UNCHANGED late
    <3>1. /\ p \in Requests /\ s \in Suppliers
          /\ request' = [request EXCEPT ![p] = "AWARDED"]
          /\ offer'[p][s].status = "ACCEPTED"
          /\ \A r \in Suppliers \ {s} :
               offer'[p][r] = IF r \in Rivals(p, s) THEN Mark(offer[p][r], "REJECTED")
                              ELSE offer[p][r]
          /\ \A o \in Requests \ {p} : offer'[o] = offer[o]
          /\ \A o \in Requests \ {p} : orders'[o] = orders[o]
      BY <2>1, AwardStep
    <3>2. \A r \in Suppliers : offer'[p][r].status = "PENDING" => offer[p][r].status = "PENDING"
      BY <3>1, MarkedSo
    <3>3. Pending(q)' \subseteq Pending(q) /\ Belated(q)' = Belated(q)
      BY <2>1, <3>1, <3>2 DEF Pending, Belated
    <3>4. p # q => Unawarded(q)
      BY <3>1 DEF Unawarded, BiddingTypeOK, Rejected
    <3> QED  BY <1>2, <2>1, <3>3, <3>4
  <2>2. CASE DropRequest(c) /\ UNCHANGED late
    <3>1. /\ p \in Requests
          /\ request' = [request EXCEPT ![p] = "CANCELLED"]
          /\ \A r \in Suppliers :
               offer'[p][r] = IF r \in call[c].bids THEN Mark(offer[p][r], "REJECTED")
                              ELSE offer[p][r]
          /\ \A o \in Requests \ {p} : offer'[o] = offer[o]
          /\ UNCHANGED orders
      BY <2>2, DropStep
    <3>2. \A r \in Suppliers : offer'[p][r].status = "PENDING" => offer[p][r].status = "PENDING"
      BY <3>1, MarkedSo
    <3>3. Pending(q)' \subseteq Pending(q) /\ Belated(q)' = Belated(q)
      BY <2>2, <3>1, <3>2 DEF Pending, Belated
    <3>4. p # q => Unawarded(q)
      BY <3>1 DEF Unawarded, BiddingTypeOK, Rejected
    <3>5. p = q => request'[q] = "CANCELLED" /\ orders'[q] = orders[q]
      BY <3>1 DEF BiddingTypeOK
    <3> QED  BY <1>2, <2>2, <3>3, <3>4, <3>5
  <2>3. CASE Withdraw(c) /\ UNCHANGED late
    <3>1. /\ p \in Requests /\ s \in Suppliers
          /\ OneBid(p, s, Mark(offer[p][s], "WITHDRAWN"))
          /\ UNCHANGED <<request, orders>>
      BY <2>3, WithdrawStep
    <3>2. \A r \in Suppliers : offer'[q][r].status \in {offer[q][r].status, "WITHDRAWN"}
      BY <3>1, MarkedSo DEF OneBid
    <3>3. Pending(q)' \subseteq Pending(q) /\ Belated(q)' = Belated(q)
      BY <2>3, <3>2 DEF Pending, Belated
    <3>4. Unawarded(q)
      BY <3>1, <3>2 DEF Unawarded, Rejected
    <3> QED  BY <1>2, <3>3, <3>4
  <2>4. CASE Lands(c)
    <3>1. /\ p \in Requests /\ s \in Suppliers
          /\ \/ UNCHANGED offer
             \/ OneBid(p, s, [status |-> "PENDING", price |-> call[c].price])
          /\ UNCHANGED <<request, orders>>
      BY <2>4, BidStep DEF Lands
    <3>2. \A r \in Suppliers : offer'[q][r].status \in {offer[q][r].status, "PENDING"}
      BY <3>1 DEF OneBid
    <3>3. Unawarded(q)
      BY <3>1, <3>2 DEF Unawarded, Rejected
    <3>4. late \subseteq late' /\ LateBids \subseteq late'
      BY <2>4 DEF Lands
    <3>5. Belated(q) \subseteq Belated(q)'
      BY <3>4 DEF Belated
    <3>6. ASSUME Choosing(q), NEW r \in Pending(q)', r \notin Pending(q)
          PROVE  r \in Belated(q)'
      <4>1. <<q, r>> \in LateBids
        BY <3>6 DEF LateBids
      <4>2. r \in Suppliers
        BY DEF Pending
      <4> QED  BY <3>4, <4>1, <4>2 DEF Belated
    <3> QED  BY <1>2, <3>3, <3>5, <3>6
  <2> QED  BY <1>2, <2>1, <2>2, <2>3, <2>4 DEF Writes, Settles
<1>3. SayOutcome(c) => UNCHANGED <<request, offer, orders>>
  BY DEF SayOutcome
<1>4. LoseCall(c) => UNCHANGED <<request, offer, orders, late>>
  BY DEF LoseCall, Crash, Tables
<1>5. Quiet => UNCHANGED <<request, offer, orders, late>>
  BY DEF Quiet, Tables
<1> HIDE DEF Goal
<1>6. Goal
  BY <1>1, <1>2, <1>3, <1>4, <1>5 DEF Moves
<1> QED  BY <1>0, <1>6 DEF Goal

(* An award finds its request open, and turns down the rivals that stand. *)
LEMMA AwardTurnsDown ==
  ASSUME AwardInv, NEW c \in Calls, CommitAward(c), NEW q, q = call[c].request
  PROVE  /\ q \in Requests /\ request[q] = "OPEN" /\ request'[q] = "AWARDED"
         /\ Rejected(q)' \subseteq Pending(q) \ {call[c].supplier}
<1> PICK s : s = call[c].supplier
  OBVIOUS
<1>1. BiddingTypeOK /\ Sound(call[c])
  BY DEF AwardInv, NewsInv
<1>2. /\ At(c, "award") /\ q \in Requests /\ s \in Suppliers
      /\ request' = [request EXCEPT ![q] = "AWARDED"]
      /\ offer'[q][s].status = "ACCEPTED"
      /\ \A r \in Suppliers \ {s} :
           offer'[q][r] = IF r \in Rivals(q, s) THEN Mark(offer[q][r], "REJECTED")
                          ELSE offer[q][r]
  BY <1>1, AwardStep
<1>3. request[q] = "OPEN" /\ request'[q] = "AWARDED"
  BY <1>1, <1>2 DEF Sound, At, BiddingTypeOK
<1>4. Rejected(q) = {}
  BY <1>2, <1>3 DEF AwardInv
<1>5. ASSUME NEW r \in Rejected(q)'
      PROVE  r \in Rivals(q, s)
  <2>1. r \in Suppliers /\ offer'[q][r].status = "REJECTED" /\ r # s
    BY <1>2 DEF Rejected
  <2>2. CASE r \notin Rivals(q, s)
    BY <1>2, <1>4, <2>1, <2>2 DEF Rejected
  <2> QED  BY <2>2
<1> QED  BY <1>2, <1>3, <1>5 DEF Rivals

\* a call that does not move: what it relies on is left to it
LEMMA SoundForOthers ==
  ASSUME AwardInv, NEW c \in Calls, Moves(c), NEW d \in Calls \ {c}
  PROVE  Sound(call[d])'
<1>1. BiddingTypeOK /\ Sound(call[d]) /\ OneAward
  BY DEF AwardInv, NewsInv
<1>2. call'[d] = call[d]
  BY <1>1, OthersStay
<1> PICK k : k = call[d]
  OBVIOUS
<1>3. CASE k.pc \notin {"claim", "take", "award", "announce"}
  BY <1>2, <1>3 DEF Sound
<1>4. CASE k.pc \in {"claim", "take", "award", "announce"}
  <2>1. k.request \in Requests /\ k.supplier \in Suppliers /\ k.rivals \in SUBSET Suppliers
    BY <1>1, <1>4, LocalsTyped
  <2> PICK q \in Requests : q = k.request
    BY <2>1
  <2>2. /\ Belated(q) \subseteq Belated(q)'
        /\ Choosing(q) => Pending(q)' \subseteq Pending(q) \cup Belated(q)'
        /\ BidsStay
        /\ \/ CommitAward(c) /\ call[c].request = q
           \/ DropRequest(c) /\ call[c].request = q /\ request'[q] = "CANCELLED"
           \/ Unawarded(q)
    BY <1>1, RequestStep
  <2>3. \A s \in k.rivals \cup {k.supplier} : offer'[q][s].status # "NONE"
    BY <1>1, <1>4, <2>1, <2>2 DEF Sound, BidsStay
  <2>4. CASE k.pc \in {"claim", "take", "award"}
    <3>1. Choosing(q)
      BY <2>4 DEF Choosing
    <3>2. Pending(q)' \ {k.supplier} \subseteq k.rivals \cup Belated(q)'
      BY <1>1, <2>2, <2>4, <3>1 DEF Sound
    <3>3. ASSUME k.pc \in {"take", "award"}
          PROVE  request'[q] = "OPEN"
      <4>1. HoldsRequest(d, q) /\ request[q] = "OPEN"
        BY <1>1, <3>3 DEF HoldsRequest, Sound
      <4>2. ~(CommitAward(c) /\ call[c].request = q)
        BY <1>1, <4>1 DEF CommitAward, At, HoldsRequest, OneAward
      <4>3. ~(DropRequest(c) /\ call[c].request = q)
        BY <4>1 DEF DropRequest, RequestFree
      <4> QED  BY <2>2, <4>1, <4>2, <4>3 DEF Unawarded
    <3> QED  BY <1>1, <1>2, <2>3, <2>4, <3>2, <3>3 DEF Sound
  <2>5. CASE k.pc = "announce"
    <3>1. request[q] # "OPEN"
      BY <1>1, <2>5 DEF Sound
    <3>2. ~(CommitAward(c) /\ call[c].request = q)
      BY <3>1, AwardTurnsDown
    <3>3. request'[q] # "OPEN"
      BY <2>2, <3>1, <3>2 DEF Unawarded
    <3>4. request'[q] = "AWARDED" => Rejected(q)' \subseteq k.rivals \cup Belated(q)'
      BY <1>1, <2>2, <2>5, <3>2 DEF Sound, Unawarded
    <3> QED  BY <1>1, <1>2, <2>3, <2>5, <3>3, <3>4 DEF Sound
  <2> QED  BY <1>4, <2>4, <2>5
<1> QED  BY <1>3, <1>4

\* the call that moves, and the request it may come to hold
LEMMA SoundForMover ==
  ASSUME AwardInv, NEW c \in Calls, Moves(c)
  PROVE  /\ Sound(call[c])'
         /\ \A q \in Requests :
              HoldsRequest(c, q)' => RequestFree(c, q) \/ HoldsRequest(c, q)
<1>1. BiddingTypeOK /\ Sound(call[c])
  BY DEF AwardInv, NewsInv
<1> DEFINE Goal == /\ Sound(call[c])'
                   /\ \A q \in Requests :
                        HoldsRequest(c, q)' => RequestFree(c, q) \/ HoldsRequest(c, q)
<1>2. ASSUME NEW k, Sound(k), UNCHANGED <<request, offer, late>>, call'[c] = k
      PROVE  Sound(call[c])'
  BY <1>2 DEF Sound, Pending, Rejected, Belated
<1>3. ASSUME call'[c].pc \in {"idle", "write", "save", "delete", "insert", "apply"}
      PROVE  Goal
  BY <1>3 DEF Sound, HoldsRequest
<1>4. Return(c) => Goal
  <2>1. Return(c) => call'[c] = Idle
    BY <1>1, Returns
  <2> QED  BY <1>3, <2>1 DEF Idle
<1>5. Quiet => UNCHANGED <<request, offer, late>>
  BY DEF Quiet, Tables
<1>6. CASE Begins(c) /\ Quiet
  <2> PICK local \in InFlight :
        Become(c, local) /\ local.pc \notin {"take", "award", "announce"} /\ Sound(local)
    BY <1>1, <1>6, BeginsStep
  <2>1. call'[c] = local
    BY <1>1, CallMoves DEF BiddingCalls
  <2>2. Sound(call[c])'
    BY <1>2, <1>5, <1>6, <2>1
  <2> QED  BY <2>1, <2>2 DEF HoldsRequest
<1>7. CASE GoesOn(c) /\ Quiet
  <2> PICK local \in InFlight \cup {Idle} :
        /\ Become(c, local) /\ (Sound(call[c]) => Sound(local))
        /\ local.pc \in {"take", "award"} =>
             /\ local.request = call[c].request
             /\ RequestFree(c, local.request) \/ HoldsRequest(c, local.request)
    BY <1>1, <1>7, GoesOnStep
  <2>1. call'[c] = local
    BY <1>1, CallMoves DEF BiddingCalls
  <2>2. Sound(call[c])'
    BY <1>1, <1>2, <1>5, <1>7, <2>1
  <2>3. ASSUME NEW q \in Requests, HoldsRequest(c, q)'
        PROVE  RequestFree(c, q) \/ HoldsRequest(c, q)
    BY <2>1, <2>3 DEF HoldsRequest
  <2> QED  BY <2>2, <2>3
<1>8. CASE Writes(c)
  <2>1. CASE CommitAward(c) /\ UNCHANGED late
    <3> PICK q, s : q = call[c].request /\ s = call[c].supplier
      OBVIOUS
    <3>1. At(c, "award") /\ s \in Suppliers
      BY <1>1, <2>1, AwardStep
    <3>2. PICK local \in InFlight :
            /\ Become(c, local) /\ local.pc = "announce" /\ local.request = q
            /\ local.supplier = s /\ local.rivals = call[c].rivals
      BY <1>1, <2>1, AwardStep
    <3>3. call'[c] = local
      BY <1>1, <3>2, CallMoves DEF BiddingCalls
    <3>4. /\ q \in Requests /\ request'[q] = "AWARDED"
          /\ Rejected(q)' \subseteq Pending(q) \ {s}
      BY <2>1, AwardTurnsDown
    <3>5. /\ Pending(q) \ {s} \subseteq call[c].rivals \cup Belated(q)
          /\ s \notin call[c].rivals
          /\ \A r \in call[c].rivals \cup {s} : offer[q][r].status # "NONE"
      BY <1>1, <3>1 DEF Sound, At
    <3>6. Belated(q)' = Belated(q)
      BY <2>1 DEF Belated
    <3>7. \A r \in call[c].rivals \cup {s} : offer'[q][r].status # "NONE"
      <4>1. BidsStay
        BY <1>1, <1>8, WritesTyped
      <4>2. call[c].rivals \in SUBSET Suppliers
        BY <1>1, <3>1, LocalsTyped DEF At
      <4> QED  BY <3>1, <3>4, <3>5, <4>1, <4>2 DEF BidsStay
    <3>8. Sound(call[c])'
      BY <3>2, <3>3, <3>4, <3>5, <3>6, <3>7 DEF Sound
    <3> QED  BY <3>2, <3>3, <3>8 DEF HoldsRequest
  <2>2. CASE DropRequest(c) \/ Withdraw(c) \/ CreateOffer(c) \/ ReviseLands(c)
    <3>1. Return(c)
      BY <2>2 DEF DropRequest, Withdraw, CreateOffer, ReviseLands
    <3> QED  BY <1>4, <3>1
  <2> QED  BY <1>8, <2>1, <2>2 DEF Writes, Settles, Lands
<1>9. CASE SayOutcome(c) \/ LoseCall(c)
  <2>1. Return(c)
    BY <1>9 DEF SayOutcome, LoseCall, Crash
  <2> QED  BY <1>4, <2>1
<1>10. CASE DepotMoves(c) /\ Quiet
  <2>1. CASE UNCHANGED <<call, identity>>
    <3>1. Sound(call[c])'
      BY <1>1, <1>2, <1>5, <1>10, <2>1
    <3> QED  BY <2>1, <3>1 DEF HoldsRequest
  <2>2. CASE Return(c)
    BY <1>4, <2>2
  <2>3. CASE \E local \in Depot!DepotCalls : Become(c, local)
    <3> PICK local \in Depot!DepotCalls : Become(c, local)
      BY <2>3
    <3>1. call'[c] = local
      BY <1>1, CallMoves DEF BiddingCalls
    <3>2. local.pc \in {"write", "save", "delete", "insert", "apply"}
      BY DEF Depot!DepotCalls
    <3> QED  BY <1>3, <3>1, <3>2
  <2> QED  BY <1>10, <2>1, <2>2, <2>3 DEF DepotMoves
<1> HIDE DEF Goal
<1>11. Goal
  BY <1>6, <1>7, <1>8, <1>9, <1>10 DEF Moves, Goal
<1> QED  BY <1>11 DEF Goal

(* Nothing that was said is unsaid, and only an announcement says anything. *)
LEMMA ToldStep ==
  ASSUME BiddingTypeOK, NEW c \in Calls, Moves(c)
  PROVE  /\ UNCHANGED told \/ SayOutcome(c)
         /\ \A q \in Requests, s \in Suppliers : told[q][s] \subseteq told'[q][s]
         /\ silent \subseteq silent'
<1>1. Writes(c) => UNCHANGED told
  BY WritesTyped
<1>2. LoseCall(c) => UNCHANGED told /\ silent \subseteq silent'
  BY DEF LoseCall, Crash, Tables
<1>3. Quiet => UNCHANGED <<told, silent>>
  BY DEF Quiet, Tables
<1>4. UNCHANGED told \/ SayOutcome(c)
  BY <1>1, <1>2, <1>3 DEF Moves
<1>5. silent \subseteq silent'
  BY <1>2, <1>3 DEF Moves
<1>6. ASSUME SayOutcome(c)
      PROVE  \A q \in Requests, s \in Suppliers : told[q][s] \subseteq told'[q][s]
  <2> PICK p, r : p = call[c].request /\ r = call[c].supplier
    OBVIOUS
  <2> QED  BY <1>6, SayStep
<1> QED  BY <1>4, <1>5, <1>6

(* A list is cut only when it is full. *)
LEMMA ListIsFull ==
  ASSUME NEW winner \in Suppliers, NEW losers \in SUBSET Suppliers, winner \notin losers,
         NEW people \in Led(winner, losers)
  PROVE  /\ people \subseteq losers \cup {winner} /\ winner \in people
         /\ losers \subseteq people \/ Cardinality(people) >= MaxFanout
<1> PICK rest \in Fitting(losers, MaxFanout - 1) : people = {winner} \cup rest
  BY DEF Led
<1>1. rest \subseteq losers
  BY DEF Fitting, kSubset
<1>2. CASE Cardinality(losers) <= MaxFanout - 1
  <2>1. Fitting(losers, MaxFanout - 1) = {losers}
    BY <1>2 DEF Fitting
  <2>2. rest = losers
    BY <2>1
  <2> QED  BY <2>2
<1>3. CASE ~(Cardinality(losers) <= MaxFanout - 1)
  <2>0. Fitting(losers, MaxFanout - 1) = kSubset(MaxFanout - 1, losers)
    BY <1>3 DEF Fitting
  <2>1. Cardinality(rest) = MaxFanout - 1
    BY <2>0 DEF kSubset
  <2>2. IsFiniteSet(rest) /\ winner \notin rest
    BY <1>1, BiddingAssumption, FS_Subset
  <2>3. Cardinality(people) = Cardinality(rest) + 1
    <3>1. people = rest \cup {winner}
      OBVIOUS
    <3> QED  BY <2>2, <3>1, FS_AddElement
  <2> QED  BY <1>1, <2>1, <2>3, NotificationsAssumption
<1> QED  BY <1>1, <1>2, <1>3

\* the announcement of an award that nobody else is announcing
LEMMA SaidIsSpoken ==
  ASSUME AwardInv, NEW c \in Calls, SayOutcome(c), NEW q \in Requests, q = call[c].request,
         request[q] = "AWARDED"
  PROVE  \A s \in Rejected(q) \ Belated(q) :
           s \in Told(q)' \/ Cardinality(Told(q)') >= MaxFanout
<1>1. BiddingTypeOK /\ Sound(call[c])
  BY DEF AwardInv, NewsInv
<1> PICK w : w = call[c].supplier
  OBVIOUS
<1>2. At(c, "announce") /\ w \in Suppliers /\ told' \in [Requests -> [Suppliers -> SUBSET Outcomes]]
  BY <1>1, SayStep
<1>3. Losers(c) = call[c].rivals /\ call[c].rivals \in SUBSET Suppliers
  BY <1>1, <1>2, LocalsTyped DEF At, Losers
<1> PICK people \in Led(w, Losers(c)) : Reaches(q, people)
  BY <1>1, SayStep
<1>4. w \notin Losers(c) /\ Rejected(q) \subseteq Losers(c) \cup Belated(q)
  BY <1>1, <1>2, <1>3 DEF Sound, At
<1>5. /\ people \subseteq Losers(c) \cup {w}
      /\ Losers(c) \subseteq people \/ Cardinality(people) >= MaxFanout
  BY <1>2, <1>3, <1>4, ListIsFull
<1>6. people \subseteq Told(q)'
  BY <1>2, <1>3, <1>5 DEF Reaches, Told
<1>7. CASE Losers(c) \subseteq people
  BY <1>4, <1>6, <1>7
<1>8. CASE Cardinality(people) >= MaxFanout
  <2>1. IsFiniteSet(Told(q)')
    BY BiddingAssumption, FS_Subset DEF Told
  <2>2. /\ Cardinality(people) <= Cardinality(Told(q)')
        /\ Cardinality(people) \in Nat /\ Cardinality(Told(q)') \in Nat
    BY <1>6, <2>1, FS_Subset, FS_CardinalityType
  <2> QED  BY <1>8, <2>2, NotificationsAssumption
<1> QED  BY <1>5, <1>7, <1>8

\* the call that announces an award is the one that leaves "announce"
LEMMA AnnouncementEnds ==
  ASSUME BiddingTypeOK, NEW c \in Calls, Moves(c), NEW d \in Calls, At(d, "announce")
  PROVE  \/ call'[d] = call[d]
         \/ d = c /\ SayOutcome(c)
         \/ d = c /\ call[d].request \in silent'
<1>1. CASE d # c
  BY <1>1, OthersStay
<1>2. CASE d = c
  <2>1. ~Begins(c)
    BY <1>2, BeginsStep DEF At
  <2>2. ~GoesOn(c)
    BY <1>2, GoesOnStep
  <2>3. ~Writes(c)
    BY <1>2 DEF At, Writes, Settles, Lands, CommitAward, DropRequest, Withdraw, CreateOffer,
              ReviseLands
  <2>4. DepotMoves(c) => UNCHANGED call
    BY <1>2 DEF DepotMoves, At
  <2>5. LoseCall(c) => call[d].request \in silent'
    BY <1>2 DEF LoseCall
  <2> QED  BY <1>2, <2>1, <2>2, <2>3, <2>4, <2>5 DEF Moves
<1> QED  BY <1>1, <1>2

LEMMA SpokenKept ==
  ASSUME AwardInv, NEW c \in Calls, Moves(c), NEW q \in Requests
  PROVE  Spoken(q)'
<1>1. BiddingTypeOK
  BY DEF AwardInv, NewsInv
<1> SUFFICES ASSUME request'[q] = "AWARDED", q \notin silent', ~Announcing(q)',
                    NEW s \in Rejected(q)', s \notin Belated(q)'
             PROVE  s \in Told(q)' \/ Cardinality(Told(q)') >= MaxFanout
  BY DEF Spoken
<1>2. ~(CommitAward(c) /\ call[c].request = q)
  <2> SUFFICES ASSUME CommitAward(c), call[c].request = q
               PROVE  Announcing(q)'
    OBVIOUS
  <2>1. PICK local \in InFlight : Become(c, local) /\ local.pc = "announce" /\ local.request = q
    BY <1>1, AwardStep
  <2>2. call'[c] = local
    BY <1>1, <2>1, CallMoves DEF BiddingCalls
  <2> QED  BY <2>1, <2>2 DEF Announcing, At
<1>3. request[q] = "AWARDED" /\ s \in Rejected(q) /\ s \notin Belated(q)
  BY <1>1, <1>2, RequestStep DEF Unawarded
<1>4. Told(q) \subseteq Told(q)' /\ silent \subseteq silent'
  BY <1>1, ToldStep DEF Told
<1>5. CASE Announcing(q)
  <2> PICK d \in Calls : At(d, "announce") /\ call[d].request = q
    BY <1>5 DEF Announcing
  <2>1. call'[d] # call[d]
    BY DEF Announcing, At
  <2>2. SayOutcome(c) /\ call[c].request = q
    BY <1>1, <2>1, AnnouncementEnds
  <2> QED  BY <1>3, <2>2, SaidIsSpoken
<1>6. CASE ~Announcing(q)
  <2>1. s \in Told(q) \/ Cardinality(Told(q)) >= MaxFanout
    BY <1>3, <1>4, <1>6 DEF AwardInv, Spoken
  <2>2. IsFiniteSet(Told(q)')
    BY BiddingAssumption, FS_Subset DEF Told
  <2>3. /\ Cardinality(Told(q)) <= Cardinality(Told(q)')
        /\ Cardinality(Told(q)) \in Nat /\ Cardinality(Told(q)') \in Nat
    BY <1>4, <2>2, FS_Subset, FS_CardinalityType
  <2> QED  BY <1>4, <2>1, <2>3, NotificationsAssumption
<1> QED  BY <1>5, <1>6

LEMMA WinnerHearsKept ==
  ASSUME AwardInv, NEW c \in Calls, Moves(c), NEW q \in Requests
  PROVE  WinnerHears(q)'
<1>1. BiddingTypeOK /\ WinnerHears(q)
  BY DEF AwardInv, NewsInv
<1> SUFFICES ASSUME NEW o \in orders'[q]
             PROVE  \/ "OFFER_ACCEPTED" \in told'[q][o.supplier] \/ q \in silent'
                    \/ \E d \in Calls : /\ At(d, "announce")' /\ call'[d].request = q
                                        /\ call'[d].supplier = o.supplier
  BY DEF WinnerHears, At
<1>2. CASE o \notin orders[q]
  <2>1. CommitAward(c) /\ call[c].request = q
    BY <1>1, <1>2, RequestStep DEF Unawarded
  <2> PICK s : s = call[c].supplier
    OBVIOUS
  <2>2. o.supplier = s
    BY <1>1, <1>2, <2>1, AwardStep
  <2>3. PICK local \in InFlight : /\ Become(c, local) /\ local.pc = "announce"
                                  /\ local.request = q /\ local.supplier = s
    BY <1>1, <2>1, AwardStep
  <2>4. call'[c] = local
    BY <1>1, <2>3, CallMoves DEF BiddingCalls
  <2> QED  BY <2>2, <2>3, <2>4 DEF At
<1>3. CASE o \in orders[q]
  <2>0. o.supplier \in Suppliers
    BY <1>1, <1>3 DEF BiddingTypeOK, Orders
  <2>1. CASE "OFFER_ACCEPTED" \in told[q][o.supplier] \/ q \in silent
    BY <1>1, <2>0, <2>1, ToldStep
  <2>2. ASSUME NEW d \in Calls, At(d, "announce"), call[d].request = q,
               call[d].supplier = o.supplier
        PROVE  \/ "OFFER_ACCEPTED" \in told'[q][o.supplier] \/ q \in silent'
               \/ /\ At(d, "announce")' /\ call'[d].request = q
                  /\ call'[d].supplier = o.supplier
    <3>1. CASE call'[d] = call[d]
      BY <2>2, <3>1 DEF At
    <3>2. CASE d = c /\ SayOutcome(c)
      BY <1>1, <2>2, <3>2, SayStep
    <3> QED  BY <1>1, <2>2, <3>1, <3>2, AnnouncementEnds
  <2> QED  BY <1>1, <1>3, <2>1, <2>2 DEF WinnerHears
<1> QED  BY <1>2, <1>3

LEMMA ToldHaveBids ==
  ASSUME AwardInv, NEW c \in Calls, Moves(c), NEW q \in Requests, NEW s \in Told(q)'
  PROVE  offer'[q][s].status # "NONE"
<1>1. BiddingTypeOK /\ Sound(call[c]) /\ s \in Suppliers
  BY DEF AwardInv, NewsInv, Told
<1>2. offer[q][s].status # "NONE"
  <2>1. CASE s \in Told(q)
    BY <2>1 DEF AwardInv
  <2>2. CASE s \notin Told(q)
    <3>1. SayOutcome(c)
      BY <1>1, <2>2, ToldStep DEF Told
    <3> PICK p, w : p = call[c].request /\ w = call[c].supplier
      OBVIOUS
    <3>2. At(c, "announce") /\ p \in Requests /\ w \in Suppliers
      BY <1>1, <3>1, SayStep
    <3>3. p = q
      BY <1>1, <2>2, <3>1, SayStep DEF Told
    <3>4. Losers(c) = call[c].rivals /\ call[c].rivals \in SUBSET Suppliers
      BY <1>1, <3>2, LocalsTyped DEF At, Losers
    <3>5. /\ w \notin Losers(c)
          /\ \A r \in Losers(c) \cup {w} : offer[p][r].status # "NONE"
      BY <1>1, <3>2, <3>4 DEF Sound, At
    <3> PICK people \in Led(w, Losers(c)) : Reaches(p, people)
      BY <1>1, <3>1, SayStep
    <3>6. people \subseteq Losers(c) \cup {w}
      BY <3>2, <3>4, <3>5, ListIsFull
    <3>7. s \in people
      BY <1>1, <2>2, <3>3 DEF Reaches, Told
    <3> QED  BY <3>3, <3>5, <3>6, <3>7
  <2> QED  BY <2>1, <2>2
<1> QED  BY <1>1, <1>2, RequestStep DEF BidsStay

LEMMA AwardInit == BiddingInit => AwardInv
<1> SUFFICES ASSUME BiddingInit
             PROVE  AwardInv
  OBVIOUS
<1>1. \A c \in Calls : call[c].pc = "idle"
  BY DEF BiddingInit, Init, Idle
<1>2. \A q \in Requests, s \in Suppliers : offer[q][s].status = "NONE"
  BY DEF BiddingInit, Init, NoOffer
<1>3. \A q \in Requests : Rejected(q) = {} /\ orders[q] = {} /\ Told(q) = {}
  BY <1>2 DEF BiddingInit, Init, Rejected, Told
<1>4. OneAward /\ \A c \in Calls : Sound(call[c])
  BY <1>1 DEF OneAward, HoldsRequest, Sound
<1>5. \A q \in Requests : Spoken(q) /\ WinnerHears(q)
  BY <1>3 DEF Spoken, WinnerHears
<1> QED  BY <1>3, <1>4, <1>5, NewsInit DEF AwardInv

LEMMA AwardStutters ==
  ASSUME AwardInv, UNCHANGED <<vars, silent, late>>, NewsInv'
  PROVE  AwardInv'
<1> USE DEF vars
<1>1. OneAward' /\ \A c \in Calls : Sound(call[c])'
  BY DEF AwardInv, OneAward, HoldsRequest, Sound, Pending, Rejected, Belated
<1>2. \A q \in Requests :
        /\ Rejected(q)' = Rejected(q) /\ Belated(q)' = Belated(q) /\ Told(q)' = Told(q)
        /\ Announcing(q)' <=> Announcing(q)
        /\ WinnerHears(q)' <=> WinnerHears(q)
  BY DEF Rejected, Belated, Told, Announcing, WinnerHears, At
<1>3. \A q \in Requests : Spoken(q)' <=> Spoken(q)
  BY <1>2 DEF Spoken
<1> QED  BY <1>1, <1>2, <1>3 DEF AwardInv

LEMMA AwardKept ==
  ASSUME AwardInv, BiddingNext
  PROVE  AwardInv'
<1>1. BiddingTypeOK /\ OneAward /\ NewsInv'
  BY NewsKept DEF AwardInv, NewsInv
<1>2. Kinds
  BY <1>1, EveryKind
<1>3. CASE UNCHANGED <<vars, identity>> /\ Quiet
  BY <1>1, <1>3, AwardStutters DEF Quiet
<1>4. ASSUME NEW c \in Calls, Moves(c)
      PROVE  AwardInv'
  <2>1. \A d \in Calls : Sound(call[d])'
    BY <1>4, SoundForOthers, SoundForMover
  <2>2. OneAward'
    <3>1. \A d \in Calls \ {c}, q \in Requests : HoldsRequest(d, q)' <=> HoldsRequest(d, q)
      BY <1>1, <1>4, OthersStay DEF HoldsRequest
    <3>2. \A q \in Requests : HoldsRequest(c, q)' =>
            \A d \in Calls \ {c} : ~HoldsRequest(d, q)
      BY <1>1, <1>4, SoundForMover DEF RequestFree, OneAward
    <3> QED  BY <1>1, <3>1, <3>2 DEF OneAward
  <2>3. ASSUME NEW q \in Requests, request'[q] = "OPEN"
        PROVE  Rejected(q)' = {}
    <3>1. ~(CommitAward(c) /\ call[c].request = q)
      BY <2>3, AwardTurnsDown
    <3>2. request[q] = "OPEN" /\ Rejected(q)' \subseteq Rejected(q)
      BY <1>1, <1>4, <2>3, <3>1, RequestStep DEF Unawarded
    <3> QED  BY <3>2 DEF AwardInv
  <2>4. \A q \in Requests : Spoken(q)' /\ WinnerHears(q)'
    BY <1>4, SpokenKept, WinnerHearsKept
  <2>5. \A q \in Requests : \A s \in Told(q)' : offer'[q][s].status # "NONE"
    BY <1>4, ToldHaveBids
  <2> QED  BY <1>1, <2>1, <2>2, <2>3, <2>4, <2>5 DEF AwardInv
<1> QED  BY <1>2, <1>3, <1>4 DEF Kinds

(* What the award of a request rests on, however calls overlap and die: one award
   holds the request, it turns down nobody but those it has read or who came late,
   and it is said by the call that made it. *)
LEMMA AwardInvariant == BiddingSpec => []AwardInv
<1>1. AwardInv /\ UNCHANGED biddingVars => AwardInv'
  BY NewsStutters, AwardStutters DEF AwardInv, biddingVars, notices
<1>2. AwardInv /\ [BiddingNext]_biddingVars => AwardInv'
  BY <1>1, AwardKept
<1> QED  BY <1>2, AwardInit, PTL DEF BiddingSpec

(* Once an award has been announced, the winner knows, and so does everybody whose bid
   the buyer had seen and turned down, or the list of notices was full (OutcomeIsSaid):
   for calls that overlap as they like, lists of any length and any number of deaths. *)
THEOREM EverybodyIsTold == BiddingSpec => []OutcomeIsSaid
<1>1. ASSUME AwardInv, NEW q \in Requests \ silent, request[q] = "AWARDED", ~Announcing(q)
      PROVE  /\ \A o \in orders[q] : "OFFER_ACCEPTED" \in told[q][o.supplier]
             /\ \A s \in Suppliers :
                  offer[q][s].status = "REJECTED" /\ <<q, s>> \notin late =>
                    s \in Told(q) \/ Cardinality(Told(q)) >= MaxFanout
  <2>1. Spoken(q) /\ WinnerHears(q)
    BY <1>1 DEF AwardInv
  <2>2. \A o \in orders[q] : "OFFER_ACCEPTED" \in told[q][o.supplier]
    BY <1>1, <2>1 DEF WinnerHears, Announcing
  <2>3. \A s \in Suppliers :
          offer[q][s].status = "REJECTED" /\ <<q, s>> \notin late =>
            s \in Rejected(q) \ Belated(q)
    BY DEF Rejected, Belated
  <2> QED  BY <1>1, <2>1, <2>2, <2>3 DEF Spoken
<1>2. AwardInv => OutcomeIsSaid
  BY <1>1 DEF OutcomeIsSaid
<1> QED  BY <1>2, AwardInvariant, PTL

(* Whoever is told what became of its bid can read the request (OutcomeCanBeRead): it
   has bid on it, a bid is never removed, and having bid is enough, whatever becomes of
   its badge and of the request. *)
THEOREM ToldMayRead == BiddingSpec => []OutcomeCanBeRead
<1>1. AwardInv => OutcomeCanBeRead
  BY DEF AwardInv, OutcomeCanBeRead, MayRead
<1> QED  BY <1>1, AwardInvariant, PTL
=============================================================================
