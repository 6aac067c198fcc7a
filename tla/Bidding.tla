------------------------------ MODULE Bidding ------------------------------
(* Who hears of a request, who may bid on it, and who is told what became of it:
   RequestsService (Rfq) beside the depots whose badge, switch and coverage it
   reads (Depots), with the notices it has written (Notifications). A call of the
   server is a call of either. The feed of open requests writes nothing and is left
   out; it alone asks whether the required-by date of a request that is posted has
   passed (requests.service.ts:210). *)
EXTENDS Rfq, Notifications

CONSTANTS
  Areas, AreaOf,          \* delivery areas, and where each request is to be delivered
  Identities, NoIdentity, \* see Depots
  Restless,               \* bound: the suppliers whose depots change meanwhile
  Buyers, NoBuyer         \* users who post requests; a request that is not posted yet

ASSUME BiddingAssumption ==
  /\ Restless \subseteq Suppliers
  /\ AreaOf \in [Requests -> Areas]
  /\ NoBuyer \notin Buyers \cup Suppliers
  /\ NoIdentity \notin Identities
  /\ IsFiniteSet(Suppliers)

VARIABLES
  identity, badge, accepting, active, covers, \* see Depots
  buyer,           \* fuel_requests.buyer_id
  toPost,          \* requests that are committed, but nobody has been picked to hear of
  picked,          \* the depots that were picked to hear of a request, and have not yet
  posted,          \* who has been told of a request (REQUEST_POSTED)
  toReport,        \* first bids that are committed and not announced yet
  heard,           \* first bids the buyer has been told of (OFFER_RECEIVED)
  silent,          \* history: requests whose award could not be announced
  late             \* history: bids made when the buyer had already read the bids

Depot == INSTANCE Depots

notices == <<toPost, picked, posted, toReport, heard, silent, late>>
depots == <<identity, badge, accepting, active, covers>>
market == <<depots, buyer>>
biddingVars == <<vars, market, notices>>

\* The depots have been described, verified and cover everything. A request's row
\* counts from the moment it has a buyer.
BiddingInit ==
  /\ Init
  /\ identity \in [Suppliers -> Identities]
  /\ badge = [s \in Suppliers |-> "VERIFIED"]
  /\ accepting = [s \in Suppliers |-> TRUE]
  /\ active = Areas
  /\ covers = [s \in Suppliers |-> Areas]
  /\ buyer = [q \in Requests |-> NoBuyer]
  /\ toPost = {} /\ toReport = {} /\ heard = {} /\ silent = {} /\ late = {}
  /\ picked = [q \in Requests |-> {}]
  /\ posted = [q \in Requests |-> {}]

Posted == {q \in Requests : buyer[q] # NoBuyer}

-----------------------------------------------------------------------------
(* createRequest *)

\* Its reads and its insert are one step: the area it reads is its only guard here.
PostRequest(q, b) ==
  /\ q \notin Posted
  /\ AreaOf[q] \in active
  /\ buyer' = [buyer EXCEPT ![q] = b]
  /\ toPost' = toPost \cup {q}
  /\ UNCHANGED <<vars, depots, picked, posted, toReport, heard, silent, late>>

\* announceRequest: it picks the depots that could bid now, and then writes to them
Eligible(q) ==
  {s \in Suppliers : badge[s] = "VERIFIED" /\ accepting[s] /\ AreaOf[q] \in covers[s]}

PickDepots(q) ==
  /\ q \in toPost
  /\ picked' = [picked EXCEPT ![q] = Eligible(q)]
  /\ toPost' = toPost \ {q}
  /\ UNCHANGED <<vars, market, posted, toReport, heard, silent, late>>

AnnounceRequest(q) ==
  /\ picked[q] # {}
  /\ \E people \in Fitting(picked[q], MaxFanout) :
       posted' = [posted EXCEPT ![q] = people]
  /\ picked' = [picked EXCEPT ![q] = {}]
  /\ UNCHANGED <<vars, market, toPost, toReport, heard, silent, late>>

-----------------------------------------------------------------------------
(* The supplier's side *)

\* requireTradingSupplier
Trades(s) == Depot!HasProfile(s) /\ badge[s] = "VERIFIED" /\ accepting[s]

\* getRequestById, for a supplier
MutMayRead(s, q) ==
  \/ buyer[q] = s
  \/ offer[q][s].status \in {"PENDING", "ACCEPTED"}
  \/ request[q] = "OPEN" /\ Trades(s) /\ AreaOf[q] \in covers[s]

MayRead(s, q) ==
  \/ buyer[q] = s
  \/ offer[q][s].status # "NONE"
  \/ request[q] = "OPEN" /\ Trades(s) /\ AreaOf[q] \in covers[s]

\* submitOffer's checks of the bidder, who offers litres enough
MayBid(s, q) ==
  Trades(s) /\ request[q] = "OPEN" /\ buyer[q] # s /\ AreaOf[q] \in covers[s]

SubmitBid(c, q, s, p) ==
  /\ MayBid(s, q)
  /\ SubmitRead(c, q, s, p)
  /\ UNCHANGED <<market, notices>>

\* a row that was inserted is announced, a revision is not
MutNews(c) == {<<call[c].request, call[c].supplier>>}
News(c) ==
  IF At(c, "create") /\ offer[call[c].request][call[c].supplier] = NoOffer
  THEN {<<call[c].request, call[c].supplier>>}
  ELSE {}

\* the buyer of q has read the bids and chosen one, or q is closed
Choosing(q) ==
  \/ request[q] # "OPEN"
  \/ \E c \in Calls : call[c].pc \in {"claim", "take", "award"} /\ call[c].request = q

LateBids ==
  UNION {{<<q, s>> : s \in Pending(q)' \ Pending(q)} : q \in {p \in Requests : Choosing(p)}}

LandBid(c) ==
  /\ CreateOffer(c) \/ ReviseLands(c)
  /\ toReport' = toReport \cup News(c)
  /\ late' = late \cup LateBids
  /\ UNCHANGED <<market, toPost, picked, posted, heard, silent>>

ReportBid(bid) ==
  /\ bid \in toReport
  /\ heard' = heard \cup {bid}
  /\ toReport' = toReport \ {bid}
  /\ UNCHANGED <<vars, market, toPost, picked, posted, silent, late>>

\* withdrawOffer asks for a profile, whatever has become of its badge
MayWithdraw(s) == Depot!HasProfile(s)

TakeBack(c, q, s) ==
  /\ MayWithdraw(s)
  /\ WithdrawRead(c, q, s)
  /\ UNCHANGED <<market, notices>>

-----------------------------------------------------------------------------
(* The buyer's side *)

Decide(c) ==
  /\ \/ \E q \in Posted : CancelRead(c, q) \/ \E s \in Suppliers : AcceptRead(c, q, s)
     \/ ClaimRequest(c) \/ TakeOffer(c) \/ CommitAward(c)
     \/ RejectBids(c) \/ DropRequest(c) \/ Withdraw(c) \/ ReviseBegins(c)
  /\ UNCHANGED <<market, notices>>

\* announceAward: one list, led by the winner
Led(winner, losers) ==
  {{winner} \cup rest : rest \in Fitting(losers, MaxFanout - 1)}

SayOutcome(c) ==
  LET q == call[c].request
      s == call[c].supplier
  IN
  /\ At(c, "announce")
  /\ \E people \in Led(s, Losers(c)) :
       told' = [told EXCEPT ![q] =
         [r \in Suppliers |->
            CASE r \notin people -> @[r]
              [] r = s           -> @[r] \cup {"OFFER_ACCEPTED"}
              [] OTHER           -> @[r] \cup {"OFFER_REJECTED"}]]
  /\ Return(c)
  /\ UNCHANGED <<request, offer, orders, market, notices>>

-----------------------------------------------------------------------------
\* The server stops, a deadlock aborts a transaction, or notify fails and says so to
\* the log only.
LoseCall(c) ==
  /\ Crash(c)
  /\ silent' = IF At(c, "announce") THEN silent \cup {call[c].request} ELSE silent
  /\ UNCHANGED <<market, toPost, picked, posted, toReport, heard, late>>

LoseNotice ==
  /\ \/ \E q \in toPost : toPost' = toPost \ {q} /\ UNCHANGED <<picked, toReport>>
     \/ \E q \in Requests : /\ picked[q] # {} /\ picked' = [picked EXCEPT ![q] = {}]
                             /\ UNCHANGED <<toPost, toReport>>
     \/ \E bid \in toReport : toReport' = toReport \ {bid} /\ UNCHANGED <<toPost, picked>>
  /\ UNCHANGED <<vars, market, posted, heard, silent, late>>

\* What may become of a depot meanwhile: it loses its badge, it closes. Its coverage
\* and the areas change in Marketplace; here they would do no more than these two do.
DepotChanges(c) ==
  /\ \/ \E s \in Restless :
          \/ \E verdict \in Depot!Badges \ {"PENDING"} : Depot!VerifySupplier(c, s, verdict)
          \/ \E accepts \in {"on", "off"} : Depot!AmendProfile(c, s, NoIdentity, accepts)
     \/ Depot!WriteProfile(c)
  /\ UNCHANGED <<Tables, buyer, notices>>

BiddingNext ==
  \/ \E q \in Requests :
       \/ \E b \in Buyers : PostRequest(q, b)
       \/ PickDepots(q) \/ AnnounceRequest(q)
  \/ \E bid \in toReport : ReportBid(bid)
  \/ LoseNotice
  \/ \E c \in Calls :
       \/ \E q \in Posted, s \in Suppliers :
            TakeBack(c, q, s) \/ \E p \in Prices : SubmitBid(c, q, s, p)
       \/ LandBid(c) \/ Decide(c) \/ SayOutcome(c)
       \/ DepotChanges(c) \/ LoseCall(c)

BiddingSpec == BiddingInit /\ [][BiddingNext]_biddingVars

-----------------------------------------------------------------------------
(* A supplier that revises its bid, or bids again after taking it back, is not
   announced a second time (requests.service.ts:322). *)
BuyerHearsOnce == toReport \cap heard = {}

\* an award of q has been committed and is about to be announced
Announcing(q) == \E c \in Calls : At(c, "announce") /\ call[c].request = q

Told(q) == {s \in Suppliers : told[q][s] # {}}

(* Once an award has been announced the winner knows, and so does everybody whose bid
   the buyer saw and turned down, up to the number notify will write for
   (notifications.service.ts:36). Only a bid that landed after the buyer had read the
   bids may be turned down without a word: who lost is taken from that read, not from
   the rows the award rejects (requests.service.ts:549). *)
OutcomeIsSaid ==
  \A q \in Requests \ silent :
    request[q] = "AWARDED" /\ ~Announcing(q) =>
      /\ \A o \in orders[q] : "OFFER_ACCEPTED" \in told[q][o.supplier]
      /\ \A s \in Suppliers :
           offer[q][s].status = "REJECTED" /\ <<q, s>> \notin late =>
             s \in Told(q) \/ Cardinality(Told(q)) >= MaxFanout

(* Whoever is told what became of its bid can still read the request, whatever has
   become of its badge, its coverage and the request meanwhile
   (requests.service.ts:615). *)
OutcomeCanBeRead ==
  \A q \in Requests : \A s \in Told(q) : MayRead(s, q)
=============================================================================
