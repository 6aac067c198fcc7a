---------------------------- MODULE Marketplace ----------------------------
(* What depots sell: fuel listings, their moderation, the public pages, and the
   placing of an order. src/modules/suppliers (listings), src/modules/fuel-types
   and createOrder of src/modules/orders. Prices and litres are left out: an order
   is for a supplier, an area and some fuels, within the listings' quantities. *)
EXTENDS Depots, Naturals

CONSTANTS
  Fuels,           \* fuel types
  MaxOrders        \* bound: orders of one supplier in one area

ASSUME MarketAssumption == MaxOrders \in Nat

VARIABLES
  listing,         \* a supplier's row for a fuel: none, or whether it is available
  suspended,       \* listings with is_suspended set
  onSale,          \* fuel types that are active
  orders,          \* orders placed with a supplier for an area
  barred           \* history: listings an admin has suspended and not reinstated

marketVars == <<listing, suspended, onSale, orders, barred>>
vars == <<depotVars, marketVars, call>>

Rows == {"none", "hidden", "shown"}
PlaceCalls ==
  [pc : {"coverage", "listings", "place"}, supplier : Suppliers, area : Areas,
   fuels : SUBSET Fuels]

TypeOK ==
  /\ DepotsTypeOK
  /\ listing \in [Suppliers -> [Fuels -> Rows]]
  /\ suspended \in [Suppliers -> SUBSET Fuels]
  /\ onSale \subseteq Fuels
  /\ orders \in [Suppliers -> [Areas -> 0..MaxOrders]]
  /\ barred \in [Suppliers -> SUBSET Fuels]
  /\ call \in [Calls -> DepotCalls \cup PlaceCalls \cup {Idle}]

Init ==
  /\ DepotsInit
  /\ listing = [s \in Suppliers |-> [f \in Fuels |-> "none"]]
  /\ suspended = [s \in Suppliers |-> {}]
  /\ onSale = Fuels
  /\ orders = [s \in Suppliers |-> [a \in Areas |-> 0]]
  /\ barred = [s \in Suppliers |-> {}]

-----------------------------------------------------------------------------
(* Listings. Each handler reads the rows it names and writes one of them, whatever
   else changed: its write is what the others can see of it. *)

\* the row's flag after the supplier writes its listing
MutSuspendedAfter(s, f) == suspended[s] \ {f}
SuspendedAfter(s, f) == suspended[s]

\* upsertFuelListing
ListFuel(c, s, f, row) ==
  /\ At(c, "idle")
  /\ HasProfile(s)
  /\ row # "none"
  /\ listing' = [listing EXCEPT ![s][f] = row]
  /\ suspended' = [suspended EXCEPT ![s] = SuspendedAfter(s, f)]
  /\ UNCHANGED <<depotVars, onSale, orders, barred, call>>

\* updateFuelListing: a field that is left out stays as it is
RowAfter(s, f, shows) ==
  CASE shows = "on"  -> "shown"
    [] shows = "off" -> "hidden"
    [] OTHER         -> listing[s][f]

UpdateListing(c, s, f, shows) ==
  /\ At(c, "idle")
  /\ listing[s][f] # "none"
  /\ listing' = [listing EXCEPT ![s][f] = RowAfter(s, f, shows)]
  /\ UNCHANGED <<depotVars, suspended, onSale, orders, barred, call>>

\* the row is deleted, and what it said with it
RemoveListing(c, s, f) ==
  /\ At(c, "idle")
  /\ listing[s][f] # "none"
  /\ listing' = [listing EXCEPT ![s][f] = "none"]
  /\ suspended' = [suspended EXCEPT ![s] = @ \ {f}]
  /\ UNCHANGED <<depotVars, onSale, orders, barred, call>>

\* setFuelListingSuspension, by an admin
SetSuspension(c, s, f, suspend) ==
  /\ At(c, "idle")
  /\ listing[s][f] # "none"
  /\ suspended' = [suspended EXCEPT ![s] = IF suspend THEN @ \cup {f} ELSE @ \ {f}]
  /\ barred' = [barred EXCEPT ![s] = IF suspend THEN @ \cup {f} ELSE @ \ {f}]
  /\ UNCHANGED <<depotVars, listing, onSale, orders, call>>

\* an admin retires a fuel type, or brings it back
SetFuel(c, f) ==
  /\ At(c, "idle")
  /\ onSale' = IF f \in onSale THEN onSale \ {f} ELSE onSale \cup {f}
  /\ UNCHANGED <<depotVars, listing, suspended, orders, barred, call>>

-----------------------------------------------------------------------------
(* The public pages, and createOrder, which checks for itself *)

\* listPublicSuppliers: who is shown, in which areas, and with which listings
PublicSupplier(s) == badge[s] = "VERIFIED" /\ accepting[s]
PublicAreas(s) == covers[s] \cap active
PublicListings(s) ==
  {f \in onSale : listing[s][f] = "shown" /\ f \notin suspended[s]}

MutOrderable(s, f) == listing[s][f] = "shown" /\ f \in onSale
Orderable(s, f) == listing[s][f] = "shown" /\ f \notin suspended[s] /\ f \in onSale

\* createOrder's reads, by a buyer who does not own the depot: the depot,
StartOrder(c, s, a, fuels) ==
  /\ At(c, "idle")
  /\ HasProfile(s)
  /\ badge[s] = "VERIFIED" /\ accepting[s]
  /\ fuels # {}
  /\ Become(c, [pc |-> "coverage", supplier |-> s, area |-> a, fuels |-> fuels])
  /\ UNCHANGED <<depotVars, marketVars>>

\* its coverage with the area,
ReadCoverage(c) ==
  /\ At(c, "coverage")
  /\ call[c].area \in covers[call[c].supplier]
  /\ call[c].area \in active
  /\ Become(c, [call[c] EXCEPT !.pc = "listings"])
  /\ UNCHANGED <<depotVars, marketVars>>

\* and its listings with their fuel types
ReadListings(c) ==
  /\ At(c, "listings")
  /\ \A f \in call[c].fuels : Orderable(call[c].supplier, f)
  /\ Become(c, [call[c] EXCEPT !.pc = "place"])
  /\ UNCHANGED <<depotVars, marketVars>>

\* the transaction
PlaceOrder(c) ==
  /\ At(c, "place")
  /\ orders[call[c].supplier][call[c].area] < MaxOrders
  /\ orders' = [orders EXCEPT ![call[c].supplier][call[c].area] = @ + 1]
  /\ Return(c)
  /\ UNCHANGED <<depotVars, listing, suspended, onSale, barred>>

-----------------------------------------------------------------------------
\* the request is refused, the server stops or the database does not answer:
\* nothing more is written
Crash(c) == ~At(c, "idle") /\ Return(c) /\ UNCHANGED <<depotVars, marketVars>>

MarketRequest(c) ==
  \/ \E f \in Fuels : SetFuel(c, f)
  \/ \E s \in Suppliers, f \in Fuels :
       \/ \E row \in Rows : ListFuel(c, s, f, row)
       \/ \E shows \in Switch : UpdateListing(c, s, f, shows)
       \/ RemoveListing(c, s, f)
       \/ \E suspend \in BOOLEAN : SetSuspension(c, s, f, suspend)
  \/ \E s \in Suppliers, a \in Areas, fuels \in SUBSET Fuels : StartOrder(c, s, a, fuels)
  \/ ReadCoverage(c) \/ ReadListings(c) \/ PlaceOrder(c) \/ Crash(c)

Next ==
  \E c \in Calls :
    \/ (DepotRequest(c) \/ DepotStep(c) \/ \E a \in Areas : SetArea(c, a))
       /\ UNCHANGED marketVars
    \/ MarketRequest(c)

Spec == Init /\ [][Next]_vars

-----------------------------------------------------------------------------
(* What the code keeps although a request decides from rows it does not lock. What
   a request in flight has read may be out of date when it writes, so each property
   says what holds once those are through, and what can end it. *)
InFlight(c, pcs, s) == call[c].pc \in pcs /\ call[c].supplier = s

\* verified for what it is: no edit in flight changes that without a new review
Vouched(s) ==
  /\ badge[s] = "VERIFIED"
  /\ \A c \in Calls :
       InFlight(c, {"write"}, s) =>
         call[c].resets \/ call[c].identity \in {NoIdentity, identity[s]}

(* A badge earned under one business is never carried over to another
   (supplier-profile-data.ts:31): whatever edits and verdicts overlap, only an edit
   that had read the depot before it was verified can do it. *)
BadgeStaysWithBusiness ==
  [][\A s \in Suppliers :
       Vouched(s) => \/ badge'[s] # "VERIFIED"
                     \/ identity'[s] = identity[s] /\ Vouched(s)']_vars

\* a paused area that no save or application in flight chose or found before
Resting(s, a) ==
  /\ a \notin active
  /\ \A c \in Calls :
       /\ InFlight(c, {"save", "apply"}, s) => a \notin call[c].areas
       /\ InFlight(c, {"delete", "insert"}, s) => a \notin call[c].areas \cup call[c].gone

(* A paused area takes no new coverage, and no save drops it from the coverage of
   a supplier who cannot choose it meanwhile (suppliers.service.ts:144): it resumes
   as it was when the area is reactivated, however many saves there were. *)
PausedAreasRest ==
  [][\A s \in Suppliers, a \in Areas :
       Resting(s, a) =>
         /\ a \in covers'[s] <=> a \in covers[s]
         /\ Resting(s, a)' \/ a \in active']_vars

\* off the public pages, and read by no order in flight while it was on them
Closed(s) ==
  /\ ~PublicSupplier(s)
  /\ \A c \in Calls : ~InFlight(c, {"coverage", "listings", "place"}, s)

Undelivered(s, a) ==
  /\ a \notin PublicAreas(s)
  /\ \A c \in Calls : InFlight(c, {"listings", "place"}, s) => call[c].area # a

Withdrawn(s, f) ==
  /\ f \notin PublicListings(s)
  /\ \A c \in Calls : InFlight(c, {"place"}, s) => f \notin call[c].fuels

(* Only what the public pages show is ever ordered (orders.service.ts:174 and 145):
   once the orders that had read a depot, its area or its listing are through,
   taking any of them off the pages stops new ones until it is shown again. *)
OnlyTheOfferedIsOrdered ==
  [][\A s \in Suppliers, a \in Areas, f \in Fuels :
       /\ Closed(s) => /\ orders'[s] = orders[s]
                       /\ Closed(s)' \/ PublicSupplier(s)'
       /\ Undelivered(s, a) => /\ orders'[s][a] = orders[s][a]
                               /\ Undelivered(s, a)' \/ a \in PublicAreas(s)'
       /\ Withdrawn(s, f) => Withdrawn(s, f)' \/ f \in PublicListings(s)']_vars

(* As long as a listing exists its suspension is the admins' to lift: the
   supplier's own edits leave it alone (schema.prisma:239). *)
SuspensionSurvivesEdits ==
  [][\A s \in Suppliers, f \in Fuels :
       f \in suspended[s] /\ f \notin suspended'[s] =>
         listing'[s][f] = "none" \/ f \notin barred'[s]]_vars

(* A supplier cannot lift its own suspension (schema.prisma:239), by whatever
   sequence of edits: what an admin suspended is suspended while it is listed. *)
SuspensionIsTheAdmins ==
  \A s \in Suppliers, f \in Fuels :
    f \in barred[s] /\ listing[s][f] # "none" => f \in suspended[s]
=============================================================================
