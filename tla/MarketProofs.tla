---------------------------- MODULE MarketProofs ----------------------------
(* Proofs about Marketplace: the types, the moderation of listings, and what badges,
   coverage and orders keep although requests decide from rows they do not lock, for
   any number of depots, areas, fuels and overlapping requests. *)
EXTENDS Marketplace, TLAPS

USE DepotsAssumption, MarketAssumption
    DEF At, Become, Return, depotVars, profiles, marketVars, Idle

LEMMA InitTypes == Init => TypeOK
BY DEF Init, DepotsInit, TypeOK, DepotsTypeOK, Badges, Rows

\* each group of columns has actions of its own
ProfileTypes ==
  /\ identity \in [Suppliers -> Identities \cup {NoIdentity}]
  /\ badge \in [Suppliers -> Badges]
  /\ accepting \in [Suppliers -> BOOLEAN]
CoverTypes == active \subseteq Areas /\ covers \in [Suppliers -> SUBSET Areas]
MarketTypes ==
  /\ listing \in [Suppliers -> [Fuels -> Rows]]
  /\ suspended \in [Suppliers -> SUBSET Fuels]
  /\ onSale \subseteq Fuels
  /\ orders \in [Suppliers -> [Areas -> 0..MaxOrders]]
  /\ barred \in [Suppliers -> SUBSET Fuels]
Requests == DepotCalls \cup PlaceCalls \cup {Idle}
CallTypes == call \in [Calls -> Requests]

LEMMA TypeParts ==
  /\ TypeOK <=> ProfileTypes /\ CoverTypes /\ MarketTypes /\ CallTypes
  /\ TypeOK' <=> ProfileTypes' /\ CoverTypes' /\ MarketTypes' /\ CallTypes'
BY DEF TypeOK, DepotsTypeOK, ProfileTypes, CoverTypes, MarketTypes, CallTypes, Requests

\* a request that reads and decides changes nothing but what it remembers
LEMMA ReadsKeepTypes ==
  ASSUME TypeOK, NEW c \in Calls, NEW local \in Requests, Become(c, local),
         UNCHANGED <<depotVars, marketVars>>
  PROVE  TypeOK'
<1>1. ProfileTypes' /\ CoverTypes' /\ MarketTypes'
  BY TypeParts DEF ProfileTypes, CoverTypes, MarketTypes
<1>2. CallTypes'
  BY TypeParts DEF CallTypes
<1>3. QED
  BY <1>1, <1>2, TypeParts

LEMMA IdleIsARequest == Idle \in Requests
BY DEF Requests

LEMMA DepotReadsKeepTypes ==
  ASSUME TypeOK, NEW c \in Calls, NEW s \in Suppliers, UNCHANGED marketVars,
         \/ \E i \in Identities : DescribeDepot(c, s, i)
         \/ \E i \in Identities \cup {NoIdentity}, accepts \in Switch :
              AmendProfile(c, s, i, accepts)
         \/ \E areas \in SUBSET Areas : ConfigureAreas(c, s, areas)
         \/ \E i \in Identities, areas \in SUBSET Areas : Apply(c, s, i, areas)
  PROVE  TypeOK'
<1>1. ASSUME NEW i \in Identities, DescribeDepot(c, s, i) PROVE TypeOK'
  <2> DEFINE local == [pc |-> "write", supplier |-> s, identity |-> i,
                       accepting |-> "same", resets |-> GoesBackToReview(s, i)]
  <2>1. local \in Requests
    BY DEF Requests, DepotCalls, Switch, GoesBackToReview
  <2>2. Become(c, local) /\ UNCHANGED depotVars
    BY <1>1 DEF DescribeDepot
  <2> HIDE DEF local
  <2>3. QED
    BY <2>1, <2>2, ReadsKeepTypes
<1>2. ASSUME NEW i \in Identities \cup {NoIdentity}, NEW accepts \in Switch,
             AmendProfile(c, s, i, accepts)
      PROVE  TypeOK'
  <2> DEFINE local == [pc |-> "write", supplier |-> s, identity |-> i,
                       accepting |-> accepts, resets |-> GoesBackToReview(s, i)]
  <2>1. local \in Requests
    BY DEF Requests, DepotCalls, GoesBackToReview
  <2>2. Become(c, local) /\ UNCHANGED depotVars
    BY <1>2 DEF AmendProfile
  <2> HIDE DEF local
  <2>3. QED
    BY <2>1, <2>2, ReadsKeepTypes
<1>3. ASSUME NEW areas \in SUBSET Areas, ConfigureAreas(c, s, areas) PROVE TypeOK'
  <2> DEFINE local == [pc |-> "save", supplier |-> s, areas |-> areas]
  <2>1. local \in Requests
    BY DEF Requests, DepotCalls
  <2>2. Become(c, local) /\ UNCHANGED depotVars
    BY <1>3 DEF ConfigureAreas
  <2> HIDE DEF local
  <2>3. QED
    BY <2>1, <2>2, ReadsKeepTypes
<1>4. ASSUME NEW i \in Identities, NEW areas \in SUBSET Areas, Apply(c, s, i, areas)
      PROVE  TypeOK'
  <2> DEFINE local == [pc |-> "apply", supplier |-> s, identity |-> i, areas |-> areas]
  <2>1. local \in Requests
    BY DEF Requests, DepotCalls
  <2>2. Become(c, local) /\ UNCHANGED depotVars
    BY <1>4 DEF Apply
  <2> HIDE DEF local
  <2>3. QED
    BY <2>1, <2>2, ReadsKeepTypes
<1>5. QED
  BY <1>1, <1>2, <1>3, <1>4

\* a save's record, and what its steps make of it
SaveCalls == [pc : {"delete", "insert"}, supplier : Suppliers, areas : SUBSET Areas,
              gone : SUBSET Areas]

LEMMA SaveRecords ==
  ASSUME CallTypes, NEW d \in Calls
  PROVE  /\ call[d].pc = "save" => call[d].supplier \in Suppliers /\ call[d].areas \subseteq Areas
         /\ call[d].pc \in {"delete", "insert"} => call[d] \in SaveCalls
         /\ call[d].pc = "apply" => call[d].supplier \in Suppliers /\ call[d].areas \subseteq Areas
         /\ call[d].pc = "write" => call[d].supplier \in Suppliers
         /\ call[d].pc \in {"coverage", "listings", "place"} => call[d] \in PlaceCalls
BY DEF CallTypes, Requests, DepotCalls, PlaceCalls, SaveCalls

\* its delete found rows, of which another save took some
LEMMA Shrunk ==
  ASSUME NEW k \in SaveCalls, k.pc = "delete", NEW X
  PROVE  LET l == [k EXCEPT !.gone = @ \ X] IN
         /\ l \in SaveCalls /\ l.pc = "delete" /\ l.supplier = k.supplier
         /\ l.areas = k.areas /\ l.gone = k.gone \ X
BY DEF SaveCalls

LEMMA SaveKeepsTypes ==
  ASSUME TypeOK, NEW c \in Calls, UNCHANGED marketVars,
         BeginSave(c) \/ DeleteAreas(c) \/ SaveAreas(c)
  PROVE  TypeOK'
<1>0. ProfileTypes /\ CoverTypes /\ MarketTypes' /\ CallTypes
  BY TypeParts DEF MarketTypes
<1>1. CASE BeginSave(c)
  <2>1. /\ call[c].supplier \in Suppliers /\ call[c].areas \subseteq Areas
        /\ Replaced(call[c].supplier) \subseteq Areas
    BY <1>0, <1>1, SaveRecords DEF BeginSave, Replaced, CoverTypes
  <2>2. PICK local \in Requests : Become(c, local) /\ UNCHANGED depotVars
    BY <1>1, <2>1 DEF BeginSave, Requests, DepotCalls
  <2>3. QED
    BY <2>2, ReadsKeepTypes
<1>2. CASE DeleteAreas(c)
  <2>1. call[c] \in SaveCalls
    BY <1>0, <1>2, SaveRecords DEF DeleteAreas
  <2>2. PICK local : local = [call[c] EXCEPT !.pc = "insert"]
    OBVIOUS
  <2>3. local \in Requests
    BY <2>1, <2>2 DEF SaveCalls, Requests, DepotCalls
  <2>4. Become(c, local) /\ UNCHANGED depotVars
    BY <1>2, <2>2 DEF DeleteAreas
  <2>5. QED
    BY <2>3, <2>4, ReadsKeepTypes
<1>3. CASE SaveAreas(c)
  <2>1. call[c].supplier \in Suppliers /\ call[c].areas \subseteq Areas
    BY <1>0, <1>3, SaveRecords DEF SaveAreas, SaveCalls
  <2>2. ProfileTypes' /\ CoverTypes'
    BY <1>3, <2>1, <1>0 DEF SaveAreas, ProfileTypes, CoverTypes
  <2>3. CASE call' = [call EXCEPT ![c] = Idle]
    <3>1. CallTypes'
      BY <2>3, <1>0, IdleIsARequest DEF CallTypes
    <3>2. QED
      BY <3>1, <2>2, <1>0, TypeParts
  <2>4. CASE call' = [d \in Calls |->
                        IF d = c THEN Idle
                        ELSE IF At(d, "delete") /\ call[d].supplier = call[c].supplier
                        THEN [call[d] EXCEPT !.gone = @ \ call[c].gone]
                        ELSE call[d]]
    <3>1. ASSUME NEW d \in Calls PROVE call'[d] \in Requests
      <4>1. CASE d = c
        BY <4>1, <2>4, IdleIsARequest
      <4>2. CASE d # c /\ At(d, "delete") /\ call[d].supplier = call[c].supplier
        <5>1. call[d] \in SaveCalls
          BY <4>2, <1>0, SaveRecords
        <5>2. [call[d] EXCEPT !.gone = @ \ call[c].gone] \in SaveCalls
          BY <4>2, <5>1, Shrunk
        <5>3. call'[d] = [call[d] EXCEPT !.gone = @ \ call[c].gone]
          BY <4>2, <2>4
        <5>4. QED
          BY <5>2, <5>3 DEF SaveCalls, Requests, DepotCalls
      <4>3. CASE d # c /\ ~(At(d, "delete") /\ call[d].supplier = call[c].supplier)
        BY <4>3, <2>4, <1>0 DEF CallTypes
      <4>4. QED
        BY <4>1, <4>2, <4>3
    <3>2. CallTypes'
      BY <3>1, <2>4 DEF CallTypes
    <3>3. QED
      BY <3>2, <2>2, <1>0, TypeParts
  <2>5. QED
    BY <1>3, <2>3, <2>4 DEF SaveAreas
<1>4. QED
  BY <1>1, <1>2, <1>3

LEMMA DepotWritesKeepTypes ==
  ASSUME TypeOK, NEW c \in Calls, UNCHANGED marketVars,
         \/ DepotStep(c)
         \/ \E s \in Suppliers, verdict \in Badges : VerifySupplier(c, s, verdict)
         \/ \E a \in Areas : SetArea(c, a)
  PROVE  TypeOK'
<1>0. ProfileTypes /\ CoverTypes /\ MarketTypes' /\ CallTypes
  BY TypeParts DEF MarketTypes
<1>1. CASE WriteProfile(c)
  <2>1. call[c] \in [pc : {"write"}, supplier : Suppliers,
                     identity : Identities \cup {NoIdentity},
                     accepting : Switch, resets : BOOLEAN]
    BY <1>1, <1>0 DEF WriteProfile, CallTypes, Requests, DepotCalls, PlaceCalls
  <2>2. PICK s \in Suppliers, i \in Identities \cup {NoIdentity}, accepts \in Switch,
             resets \in BOOLEAN :
          /\ s = call[c].supplier /\ i = call[c].identity
          /\ accepts = call[c].accepting /\ resets = call[c].resets
    BY <2>1
  <2>3. /\ identity' = [identity EXCEPT ![s] = IF i = NoIdentity THEN @ ELSE i]
        /\ accepting' = [accepting EXCEPT ![s] = AcceptingAfter(s, accepts)]
        /\ badge' = [badge EXCEPT ![s] = IF resets THEN "PENDING" ELSE @]
        /\ UNCHANGED <<active, covers>>
    BY <1>1, <2>2 DEF WriteProfile
  <2>4. AcceptingAfter(s, accepts) \in BOOLEAN
    BY <1>0 DEF AcceptingAfter, ProfileTypes
  <2>5. ProfileTypes' /\ CoverTypes'
    BY <2>3, <2>4, <1>0 DEF ProfileTypes, CoverTypes, Badges
  <2>6. CallTypes'
    BY <1>1, <1>0, IdleIsARequest DEF WriteProfile, CallTypes
  <2>7. QED
    BY <2>5, <2>6, <1>0, TypeParts
<1>2. CASE BeginSave(c) \/ DeleteAreas(c) \/ SaveAreas(c)
  BY <1>2, SaveKeepsTypes
<1>3. CASE CommitApplication(c)
  <2>1. /\ call[c].supplier \in Suppliers /\ call[c].areas \subseteq Areas
        /\ call[c].identity \in Identities
    BY <1>3, <1>0 DEF CommitApplication, CallTypes, Requests, DepotCalls, PlaceCalls
  <2>2. ProfileTypes' /\ CoverTypes'
    BY <1>3, <2>1, <1>0 DEF CommitApplication, ProfileTypes, CoverTypes
  <2>3. CallTypes'
    BY <1>3, <1>0, IdleIsARequest DEF CommitApplication, CallTypes
  <2>4. QED
    BY <2>2, <2>3, <1>0, TypeParts
<1>4. ASSUME NEW s \in Suppliers, NEW verdict \in Badges, VerifySupplier(c, s, verdict)
      PROVE  TypeOK'
  <2>1. ProfileTypes' /\ CoverTypes' /\ CallTypes'
    BY <1>4, <1>0 DEF VerifySupplier, ProfileTypes, CoverTypes, CallTypes
  <2>2. QED
    BY <2>1, <1>0, TypeParts
<1>5. ASSUME NEW a \in Areas, SetArea(c, a) PROVE TypeOK'
  <2>1. ProfileTypes' /\ CoverTypes' /\ CallTypes'
    BY <1>5, <1>0 DEF SetArea, ProfileTypes, CoverTypes, CallTypes
  <2>2. QED
    BY <2>1, <1>0, TypeParts
<1>6. QED
  BY <1>1, <1>2, <1>3, <1>4, <1>5 DEF DepotStep

LEMMA MarketKeepsTypes ==
  ASSUME TypeOK, NEW c \in Calls, MarketRequest(c)
  PROVE  TypeOK'
<1>0. ProfileTypes /\ CoverTypes /\ MarketTypes /\ CallTypes
  BY TypeParts
<1> DEFINE DepotsStand == ProfileTypes' /\ CoverTypes'
<1>1. UNCHANGED depotVars
  BY DEF MarketRequest, SetFuel, ListFuel, UpdateListing, RemoveListing, SetSuspension,
         StartOrder, ReadCoverage, ReadListings, PlaceOrder, Crash
<1>2. DepotsStand
  BY <1>0, <1>1 DEF ProfileTypes, CoverTypes
<1>3. ASSUME NEW f \in Fuels, SetFuel(c, f) PROVE TypeOK'
  <2>1. MarketTypes' /\ CallTypes'
    BY <1>3, <1>0 DEF SetFuel, MarketTypes, CallTypes
  <2>2. QED
    BY <2>1, <1>2, TypeParts
<1>4. ASSUME NEW s \in Suppliers, NEW f \in Fuels, NEW row \in Rows, ListFuel(c, s, f, row)
      PROVE  TypeOK'
  <2>1. MarketTypes' /\ CallTypes'
    BY <1>4, <1>0 DEF ListFuel, SuspendedAfter, MarketTypes, CallTypes
  <2>2. QED
    BY <2>1, <1>2, TypeParts
<1>5. ASSUME NEW s \in Suppliers, NEW f \in Fuels, NEW shows \in Switch,
             UpdateListing(c, s, f, shows)
      PROVE  TypeOK'
  <2>1. RowAfter(s, f, shows) \in Rows
    BY <1>0 DEF RowAfter, Rows, MarketTypes
  <2>2. MarketTypes' /\ CallTypes'
    BY <1>5, <1>0, <2>1 DEF UpdateListing, MarketTypes, CallTypes
  <2>3. QED
    BY <2>2, <1>2, TypeParts
<1>6. ASSUME NEW s \in Suppliers, NEW f \in Fuels, RemoveListing(c, s, f)
      PROVE  TypeOK'
  <2>1. MarketTypes' /\ CallTypes'
    BY <1>6, <1>0 DEF RemoveListing, Rows, MarketTypes, CallTypes
  <2>2. QED
    BY <2>1, <1>2, TypeParts
<1>7. ASSUME NEW s \in Suppliers, NEW f \in Fuels, NEW suspend \in BOOLEAN,
             SetSuspension(c, s, f, suspend)
      PROVE  TypeOK'
  <2>1. MarketTypes' /\ CallTypes'
    BY <1>7, <1>0 DEF SetSuspension, MarketTypes, CallTypes
  <2>2. QED
    BY <2>1, <1>2, TypeParts
<1>8. ASSUME NEW s \in Suppliers, NEW a \in Areas, NEW fuels \in SUBSET Fuels,
             StartOrder(c, s, a, fuels)
      PROVE  TypeOK'
  <2> DEFINE local == [pc |-> "coverage", supplier |-> s, area |-> a, fuels |-> fuels]
  <2>1. local \in Requests
    BY DEF Requests, PlaceCalls
  <2>2. Become(c, local) /\ UNCHANGED <<depotVars, marketVars>>
    BY <1>8 DEF StartOrder
  <2> HIDE DEF local
  <2>3. QED
    BY <2>1, <2>2, ReadsKeepTypes
<1>9. CASE ReadCoverage(c) \/ ReadListings(c)
  <2>1. call[c] \in PlaceCalls
    BY <1>9, <1>0, SaveRecords DEF ReadCoverage, ReadListings
  <2>2. PICK pc \in {"listings", "place"} :
          /\ Become(c, [call[c] EXCEPT !.pc = pc])
          /\ UNCHANGED <<depotVars, marketVars>>
    BY <1>9 DEF ReadCoverage, ReadListings
  <2>3. PICK local : local = [call[c] EXCEPT !.pc = pc]
    OBVIOUS
  <2>4. local \in Requests
    BY <2>1, <2>3 DEF PlaceCalls, Requests
  <2>5. QED
    BY <2>2, <2>3, <2>4, ReadsKeepTypes
<1>10. CASE PlaceOrder(c)
  <2>1. PICK s \in Suppliers, a \in Areas : s = call[c].supplier /\ a = call[c].area
    BY <1>10, <1>0 DEF PlaceOrder, CallTypes, Requests, DepotCalls, PlaceCalls
  <2>2. orders[s][a] < MaxOrders /\ orders' = [orders EXCEPT ![s][a] = @ + 1]
    BY <1>10, <2>1 DEF PlaceOrder
  <2>3. orders[s][a] + 1 \in 0..MaxOrders
    BY <2>2, <1>0 DEF MarketTypes
  <2>4. orders' \in [Suppliers -> [Areas -> 0..MaxOrders]]
    BY <2>2, <2>3, <1>0 DEF MarketTypes
  <2>5. MarketTypes' /\ CallTypes'
    BY <1>10, <2>4, <1>0, IdleIsARequest DEF PlaceOrder, MarketTypes, CallTypes
  <2>6. QED
    BY <2>5, <1>2, TypeParts
<1>11. CASE Crash(c)
  <2>1. Become(c, Idle) /\ UNCHANGED <<depotVars, marketVars>>
    BY <1>11 DEF Crash
  <2> HIDE DEF Idle
  <2>2. QED
    BY <2>1, IdleIsARequest, ReadsKeepTypes
<1>12. QED
  BY <1>3, <1>4, <1>5, <1>6, <1>7, <1>8, <1>9, <1>10, <1>11 DEF MarketRequest

LEMMA StepKeepsTypes == TypeOK /\ [Next]_vars => TypeOK'
<1> SUFFICES ASSUME TypeOK, [Next]_vars PROVE TypeOK'
  OBVIOUS
<1>1. CASE UNCHANGED vars
  BY <1>1 DEF vars, TypeOK, DepotsTypeOK
<1>2. ASSUME NEW c \in Calls, DepotRequest(c), UNCHANGED marketVars PROVE TypeOK'
  BY <1>2, DepotReadsKeepTypes, DepotWritesKeepTypes DEF DepotRequest
<1>3. ASSUME NEW c \in Calls, DepotStep(c) \/ \E a \in Areas : SetArea(c, a),
             UNCHANGED marketVars
      PROVE  TypeOK'
  BY <1>3, DepotWritesKeepTypes
<1>4. ASSUME NEW c \in Calls, MarketRequest(c) PROVE TypeOK'
  BY <1>4, MarketKeepsTypes
<1>5. QED
  BY <1>1, <1>2, <1>3, <1>4 DEF Next

(* Profiles, coverage, listings and requests keep their types, however many
   requests overlap (schema.prisma). *)
THEOREM TypeCorrect == Spec => []TypeOK
<1>1. QED
  BY InitTypes, StepKeepsTypes, PTL DEF Spec

-----------------------------------------------------------------------------
(* A suspended listing that is still there stays suspended until an admin says
   otherwise (schema.prisma:239), however many requests overlap. *)
THEOREM SuspensionsSurvive == Spec => SuspensionSurvivesEdits
<1> DEFINE Kept1 ==
      \A s \in Suppliers, f \in Fuels :
        f \in suspended[s] /\ f \notin suspended'[s] =>
          listing'[s][f] = "none" \/ f \notin barred'[s]
<1>1. ASSUME TypeOK, [Next]_vars PROVE [Kept1]_vars
  <2>1. MarketTypes
    BY <1>1, TypeParts
  <2>2. CASE UNCHANGED suspended
    BY <2>2
  <2>3. ASSUME NEW c \in Calls, NEW t \in Suppliers, NEW g \in Fuels, NEW row \in Rows,
               ListFuel(c, t, g, row)
        PROVE  Kept1
    BY <2>1, <2>3 DEF ListFuel, SuspendedAfter, MarketTypes
  <2>4. ASSUME NEW c \in Calls, NEW t \in Suppliers, NEW g \in Fuels,
               RemoveListing(c, t, g)
        PROVE  Kept1
    <3>1. /\ listing'[t][g] = "none"
          /\ suspended' = [suspended EXCEPT ![t] = @ \ {g}]
      BY <2>1, <2>4 DEF RemoveListing, MarketTypes
    <3>2. QED
      BY <2>1, <3>1 DEF MarketTypes
  <2>5. ASSUME NEW c \in Calls, NEW t \in Suppliers, NEW g \in Fuels,
               NEW suspend \in BOOLEAN, SetSuspension(c, t, g, suspend)
        PROVE  Kept1
    BY <2>1, <2>5 DEF SetSuspension, MarketTypes
  <2>6. ASSUME NEW c \in Calls, MarketRequest(c), ~UNCHANGED suspended PROVE Kept1
    BY <2>3, <2>4, <2>5, <2>6
       DEF MarketRequest, SetFuel, UpdateListing, StartOrder, ReadCoverage, ReadListings,
           PlaceOrder, Crash
  <2>7. QED
    BY <1>1, <2>2, <2>6 DEF Next, vars
<1>2. Init => TypeOK
  BY InitTypes
<1>3. TypeOK /\ [Next]_vars => TypeOK'
  BY StepKeepsTypes
<1>4. QED
  BY <1>1, <1>2, <1>3, PTL DEF Spec, SuspensionSurvivesEdits

-----------------------------------------------------------------------------
(* What a step can do to a request. *)

\* the rows a waiting save had found, less those another save deleted
Overtaken(d) ==
  \E e \in Calls : call[d].pc = "delete" /\ call'[d] = [call[d] EXCEPT !.gone = @ \ call[e].gone]

StaysOrEnds(d) == call'[d] = call[d] \/ call'[d] = Idle

Moved(d) ==
  \/ \E s \in Suppliers :
       \/ \E i \in Identities : DescribeDepot(d, s, i)
       \/ \E i \in Identities \cup {NoIdentity}, accepts \in Switch :
            AmendProfile(d, s, i, accepts)
       \/ \E areas \in SUBSET Areas : ConfigureAreas(d, s, areas)
       \/ \E i \in Identities, areas \in SUBSET Areas : Apply(d, s, i, areas)
       \/ \E a \in Areas, fuels \in SUBSET Fuels : StartOrder(d, s, a, fuels)
  \/ BeginSave(d) \/ DeleteAreas(d) \/ ReadCoverage(d) \/ ReadListings(d)

LEMMA WhoMoves ==
  ASSUME TypeOK, [Next]_vars, NEW d \in Calls
  PROVE  StaysOrEnds(d) \/ Overtaken(d) \/ Moved(d)
<1>0. CallTypes
  BY TypeParts
<1>1. CASE UNCHANGED vars
  BY <1>1 DEF vars, StaysOrEnds
<1>2. ASSUME NEW c \in Calls, DepotRequest(c), UNCHANGED marketVars
      PROVE  StaysOrEnds(d) \/ Overtaken(d) \/ Moved(d)
  <2>1. ASSUME NEW s \in Suppliers, NEW i \in Identities, DescribeDepot(c, s, i)
        PROVE  StaysOrEnds(d) \/ Moved(d)
    BY <2>1, <1>0 DEF DescribeDepot, StaysOrEnds, Moved, CallTypes
  <2>2. ASSUME NEW s \in Suppliers, NEW i \in Identities \cup {NoIdentity},
               NEW accepts \in Switch, AmendProfile(c, s, i, accepts)
        PROVE  StaysOrEnds(d) \/ Moved(d)
    BY <2>2, <1>0 DEF AmendProfile, StaysOrEnds, Moved, CallTypes
  <2>3. ASSUME NEW s \in Suppliers, NEW areas \in SUBSET Areas, ConfigureAreas(c, s, areas)
        PROVE  StaysOrEnds(d) \/ Moved(d)
    BY <2>3, <1>0 DEF ConfigureAreas, StaysOrEnds, Moved, CallTypes
  <2>4. ASSUME NEW s \in Suppliers, NEW i \in Identities, NEW areas \in SUBSET Areas,
               Apply(c, s, i, areas)
        PROVE  StaysOrEnds(d) \/ Moved(d)
    BY <2>4, <1>0 DEF Apply, StaysOrEnds, Moved, CallTypes
  <2>5. ASSUME NEW s \in Suppliers, NEW verdict \in Badges, VerifySupplier(c, s, verdict)
        PROVE  StaysOrEnds(d)
    BY <2>5 DEF VerifySupplier, StaysOrEnds
  <2>6. QED
    BY <1>2, <2>1, <2>2, <2>3, <2>4, <2>5 DEF DepotRequest
<1>3. ASSUME NEW c \in Calls,
             WriteProfile(c) \/ CommitApplication(c) \/ PlaceOrder(c) \/ Crash(c)
      PROVE  StaysOrEnds(d)
  BY <1>3, <1>0 DEF WriteProfile, CommitApplication, PlaceOrder, Crash, StaysOrEnds, CallTypes
<1>4. ASSUME NEW c \in Calls,
             BeginSave(c) \/ DeleteAreas(c) \/ ReadCoverage(c) \/ ReadListings(c)
      PROVE  StaysOrEnds(d) \/ Moved(d)
  <2>1. CASE d = c
    BY <1>4, <2>1 DEF Moved
  <2>2. CASE d # c
    BY <1>4, <1>0, <2>2
       DEF BeginSave, DeleteAreas, ReadCoverage, ReadListings, StaysOrEnds, CallTypes
  <2>3. QED
    BY <2>1, <2>2
<1>5. ASSUME NEW c \in Calls, SaveAreas(c) PROVE StaysOrEnds(d) \/ Overtaken(d)
  <2>1. CASE call' = [call EXCEPT ![c] = Idle]
    BY <2>1, <1>0 DEF StaysOrEnds, CallTypes
  <2>2. CASE call' = [e \in Calls |->
                        IF e = c THEN Idle
                        ELSE IF At(e, "delete") /\ call[e].supplier = call[c].supplier
                        THEN [call[e] EXCEPT !.gone = @ \ call[c].gone]
                        ELSE call[e]]
    BY <2>2 DEF StaysOrEnds, Overtaken
  <2>3. QED
    BY <1>5, <2>1, <2>2 DEF SaveAreas
<1>6. ASSUME NEW c \in Calls, \E a \in Areas : SetArea(c, a) PROVE StaysOrEnds(d)
  BY <1>6 DEF SetArea, StaysOrEnds
<1>7. ASSUME NEW c \in Calls, MarketRequest(c) PROVE StaysOrEnds(d) \/ Moved(d)
  <2>1. ASSUME NEW s \in Suppliers, NEW a \in Areas, NEW fuels \in SUBSET Fuels,
               StartOrder(c, s, a, fuels)
        PROVE  StaysOrEnds(d) \/ Moved(d)
    BY <2>1, <1>0 DEF StartOrder, StaysOrEnds, Moved, CallTypes
  <2>2. ASSUME NEW f \in Fuels, SetFuel(c, f) PROVE StaysOrEnds(d)
    BY <2>2 DEF SetFuel, StaysOrEnds
  <2>3. ASSUME NEW s \in Suppliers, NEW f \in Fuels,
               \/ \E row \in Rows : ListFuel(c, s, f, row)
               \/ \E shows \in Switch : UpdateListing(c, s, f, shows)
               \/ RemoveListing(c, s, f)
               \/ \E suspend \in BOOLEAN : SetSuspension(c, s, f, suspend)
        PROVE  StaysOrEnds(d)
    BY <2>3 DEF ListFuel, UpdateListing, RemoveListing, SetSuspension, StaysOrEnds
  <2>4. QED
    BY <1>3, <1>4, <1>7, <2>1, <2>2, <2>3 DEF MarketRequest
<1>8. QED
  BY <1>1, <1>2, <1>3, <1>4, <1>5, <1>6, <1>7 DEF Next, DepotStep

\* and to the tables that the properties are about
Quiet == UNCHANGED <<identity, badge, covers, orders>>

LEMMA WhoWrites ==
  ASSUME [Next]_vars
  PROVE  \/ Quiet
         \/ \E c \in Calls :
              /\ UNCHANGED orders
              /\ \/ WriteProfile(c) \/ CommitApplication(c) \/ SaveAreas(c)
                 \/ \E s \in Suppliers, verdict \in Badges : VerifySupplier(c, s, verdict)
         \/ \E c \in Calls : PlaceOrder(c)
<1>1. CASE UNCHANGED vars
  BY <1>1 DEF vars, Quiet
<1>2. ASSUME NEW c \in Calls, DepotRequest(c), UNCHANGED marketVars
      PROVE  Quiet \/ \E s \in Suppliers, verdict \in Badges : VerifySupplier(c, s, verdict)
  BY <1>2 DEF DepotRequest, DescribeDepot, AmendProfile, ConfigureAreas, Apply, Quiet
<1>3. ASSUME NEW c \in Calls, DepotStep(c), UNCHANGED marketVars
      PROVE  Quiet \/ WriteProfile(c) \/ CommitApplication(c) \/ SaveAreas(c)
  BY <1>3 DEF DepotStep, BeginSave, DeleteAreas, Quiet
<1>4. ASSUME NEW c \in Calls, \E a \in Areas : SetArea(c, a), UNCHANGED marketVars
      PROVE  Quiet
  BY <1>4 DEF SetArea, Quiet
<1>5. ASSUME NEW c \in Calls, MarketRequest(c) PROVE Quiet \/ PlaceOrder(c)
  BY <1>5 DEF MarketRequest, SetFuel, ListFuel, UpdateListing, RemoveListing,
              SetSuspension, StartOrder, ReadCoverage, ReadListings, Crash, Quiet
<1>6. CASE Next
  <2>1. PICK c \in Calls :
          \/ (DepotRequest(c) \/ DepotStep(c) \/ \E a \in Areas : SetArea(c, a))
             /\ UNCHANGED marketVars
          \/ MarketRequest(c)
    BY <1>6 DEF Next
  <2>2. UNCHANGED marketVars => UNCHANGED orders
    OBVIOUS
  <2>3. QED
    BY <1>2, <1>3, <1>4, <1>5, <2>1, <2>2
<1>7. QED
  BY <1>1, <1>6

-----------------------------------------------------------------------------
(* A supplier who has not described a depot has no badge and covers nothing, and
   nobody is saving coverage for it. *)
NothingBeforeProfile ==
  /\ \A s \in Suppliers : ~HasProfile(s) => badge[s] = "PENDING" /\ covers[s] = {}
  /\ \A c \in Calls :
       call[c].pc \in {"save", "delete", "insert"} => HasProfile(call[c].supplier)

LEMMA ProfilesStay ==
  ASSUME TypeOK, [Next]_vars, NEW s \in Suppliers, HasProfile(s)
  PROVE  HasProfile(s)'
<1>0. ProfileTypes /\ CallTypes
  BY TypeParts
<1>1. ASSUME NEW c \in Calls, WriteProfile(c) PROVE HasProfile(s)'
  <2>1. PICK t, i : t = call[c].supplier /\ i = call[c].identity
    OBVIOUS
  <2>2. identity' = [identity EXCEPT ![t] = IF i = NoIdentity THEN @ ELSE i]
    BY <1>1, <2>1 DEF WriteProfile
  <2>3. QED
    BY <2>2, <1>0 DEF HasProfile, ProfileTypes
<1>2. ASSUME NEW c \in Calls, CommitApplication(c) PROVE HasProfile(s)'
  <2>1. PICK t, i : t = call[c].supplier /\ i = call[c].identity
    OBVIOUS
  <2>2. CASE HasProfile(t)
    BY <1>2, <2>1, <2>2 DEF CommitApplication, HasProfile
  <2>3. CASE ~HasProfile(t)
    BY <1>2, <2>1, <2>3, <1>0 DEF CommitApplication, HasProfile, ProfileTypes
  <2>4. QED
    BY <2>2, <2>3
<1>3. CASE UNCHANGED identity
  BY <1>3 DEF HasProfile
<1>4. ASSUME NEW c \in Calls, SaveAreas(c) \/ PlaceOrder(c) PROVE UNCHANGED identity
  BY <1>4 DEF SaveAreas, PlaceOrder
<1>5. ASSUME NEW c \in Calls, \E t \in Suppliers, v \in Badges : VerifySupplier(c, t, v)
      PROVE  UNCHANGED identity
  BY <1>5 DEF VerifySupplier
<1>6. QED
  BY <1>1, <1>2, <1>3, <1>4, <1>5, WhoWrites DEF Quiet

LEMMA StepKeepsNothing ==
  ASSUME TypeOK, NothingBeforeProfile, [Next]_vars
  PROVE  NothingBeforeProfile'
<1>0. ProfileTypes /\ CoverTypes /\ CallTypes
  BY TypeParts
<1>1. ASSUME NEW s \in Suppliers, ~HasProfile(s)' PROVE (badge[s] = "PENDING" /\ covers[s] = {})'
  <2>0. ~HasProfile(s) /\ badge[s] = "PENDING" /\ covers[s] = {}
    BY <1>1, ProfilesStay DEF NothingBeforeProfile
  <2>1. ASSUME NEW c \in Calls, WriteProfile(c) PROVE badge'[s] = "PENDING" /\ covers'[s] = {}
    BY <2>0, <2>1, <1>0 DEF WriteProfile, ProfileTypes
  <2>2. ASSUME NEW c \in Calls, CommitApplication(c) PROVE badge'[s] = "PENDING" /\ covers'[s] = {}
    <3>0. call[c].identity \in Identities /\ call[c].supplier \in Suppliers
      BY <2>2, <1>0
         DEF CommitApplication, CallTypes, Requests, DepotCalls, PlaceCalls
    <3>1. CASE call[c].supplier = s
      BY <2>0, <2>2, <3>0, <3>1, <1>0, <1>1 DEF CommitApplication, HasProfile, ProfileTypes
    <3>2. CASE call[c].supplier # s
      BY <2>0, <2>2, <3>2, <1>0 DEF CommitApplication, CoverTypes
    <3>3. QED
      BY <3>1, <3>2
  <2>3. ASSUME NEW c \in Calls, NEW t \in Suppliers, NEW verdict \in Badges,
               VerifySupplier(c, t, verdict)
        PROVE  badge'[s] = "PENDING" /\ covers'[s] = {}
    BY <2>0, <2>3, <1>0 DEF VerifySupplier, ProfileTypes
  <2>4. ASSUME NEW c \in Calls, SaveAreas(c) PROVE badge'[s] = "PENDING" /\ covers'[s] = {}
    <3>1. call[c].supplier # s
      BY <2>0, <2>4 DEF SaveAreas, NothingBeforeProfile
    <3>2. QED
      BY <2>0, <2>4, <3>1, <1>0 DEF SaveAreas, CoverTypes
  <2>5. CASE UNCHANGED <<badge, covers>>
    BY <2>0, <2>5
  <2>6. ASSUME NEW c \in Calls, PlaceOrder(c) PROVE UNCHANGED <<badge, covers>>
    BY <2>6 DEF PlaceOrder
  <2>7. QED
    BY <2>1, <2>2, <2>3, <2>4, <2>5, <2>6, WhoWrites DEF Quiet
<1>2. ASSUME NEW d \in Calls, call'[d].pc \in {"save", "delete", "insert"}
      PROVE  HasProfile(call[d].supplier)'
  <2>1. PICK t : t = call'[d].supplier
    OBVIOUS
  <2>2. t \in Suppliers /\ HasProfile(t)
    <3>1. CASE StaysOrEnds(d)
      BY <1>2, <2>1, <3>1, <1>0, SaveRecords DEF StaysOrEnds, NothingBeforeProfile, SaveCalls
    <3>2. CASE Overtaken(d)
      <4>1. call[d] \in SaveCalls /\ call[d].pc = "delete"
        BY <3>2, <1>0, SaveRecords DEF Overtaken
      <4>2. call'[d].supplier = call[d].supplier
        BY <3>2, <4>1, Shrunk DEF Overtaken
      <4>3. QED
        BY <4>1, <4>2, <2>1 DEF NothingBeforeProfile, SaveCalls
    <3>3. CASE BeginSave(d)
      BY <2>1, <3>3, <1>0, SaveRecords DEF BeginSave, CallTypes, NothingBeforeProfile
    <3>4. CASE DeleteAreas(d)
      <4>1. call[d] \in SaveCalls
        BY <3>4, <1>0, SaveRecords DEF DeleteAreas
      <4>2. call'[d].supplier = call[d].supplier
        BY <3>4, <4>1, <1>0 DEF DeleteAreas, SaveCalls, CallTypes
      <4>3. QED
        BY <3>4, <4>1, <4>2, <2>1 DEF DeleteAreas, NothingBeforeProfile, SaveCalls
    <3>5. ASSUME NEW s \in Suppliers, NEW areas \in SUBSET Areas, ConfigureAreas(d, s, areas)
          PROVE  t \in Suppliers /\ HasProfile(t)
      BY <2>1, <3>5, <1>0 DEF ConfigureAreas, CallTypes
    <3>6. CASE ReadCoverage(d) \/ ReadListings(d)
      <4>1. call[d] \in PlaceCalls
        BY <3>6, <1>0, SaveRecords DEF ReadCoverage, ReadListings
      <4>2. call'[d].pc \in {"listings", "place"}
        BY <3>6, <4>1, <1>0 DEF ReadCoverage, ReadListings, PlaceCalls, CallTypes
      <4>3. QED
        BY <4>2, <1>2
    <3>7. ASSUME NEW s \in Suppliers,
                 \/ \E i \in Identities : DescribeDepot(d, s, i)
                 \/ \E i \in Identities \cup {NoIdentity}, accepts \in Switch :
                      AmendProfile(d, s, i, accepts)
                 \/ \E i \in Identities, areas \in SUBSET Areas : Apply(d, s, i, areas)
                 \/ \E a \in Areas, fuels \in SUBSET Fuels : StartOrder(d, s, a, fuels)
          PROVE  FALSE
      BY <3>7, <1>2, <1>0 DEF DescribeDepot, AmendProfile, Apply, StartOrder, CallTypes
    <3>8. QED
      BY <3>1, <3>2, <3>3, <3>4, <3>5, <3>6, <3>7, WhoMoves DEF Moved
  <2>3. QED
    BY <2>1, <2>2, ProfilesStay DEF HasProfile
<1>3. QED
  BY <1>1, <1>2 DEF NothingBeforeProfile

LEMMA NothingAlways == Spec => [](TypeOK /\ NothingBeforeProfile)
<1>1. Init => TypeOK /\ NothingBeforeProfile
  <2>1. Init => NothingBeforeProfile
    BY DEF Init, DepotsInit, NothingBeforeProfile
  <2>2. QED
    BY <2>1, InitTypes
<1>2. TypeOK /\ NothingBeforeProfile /\ [Next]_vars => (TypeOK /\ NothingBeforeProfile)'
  BY StepKeepsTypes, StepKeepsNothing
<1>3. QED
  BY <1>1, <1>2, PTL DEF Spec

-----------------------------------------------------------------------------
(* Badges: which edits may be on their way. *)

\* an edit that starts while the depot is verified knows that it has to reset it
LEMMA EditsKnow ==
  ASSUME TypeOK, [Next]_vars, NEW d \in Calls, NEW s \in Suppliers,
         badge[s] = "VERIFIED", call'[d].pc = "write", call'[d].supplier = s
  PROVE  \/ call'[d] = call[d]
         \/ call'[d].resets \/ call'[d].identity \in {NoIdentity, identity[s]}
<1>0. CallTypes
  BY TypeParts
<1>1. CASE StaysOrEnds(d)
  BY <1>1 DEF StaysOrEnds
<1>2. CASE Overtaken(d)
  <2>1. call[d] \in SaveCalls /\ call[d].pc = "delete"
    BY <1>2, <1>0, SaveRecords DEF Overtaken
  <2>2. call'[d].pc = "delete"
    BY <1>2, <2>1, Shrunk DEF Overtaken
  <2>3. QED
    BY <2>2
<1>3. ASSUME NEW t \in Suppliers, NEW i \in Identities, DescribeDepot(d, t, i)
      PROVE  call'[d].resets \/ call'[d].identity \in {NoIdentity, identity[s]}
  BY <1>3, <1>0 DEF DescribeDepot, CallTypes, GoesBackToReview
<1>4. ASSUME NEW t \in Suppliers, NEW i \in Identities \cup {NoIdentity},
             NEW accepts \in Switch, AmendProfile(d, t, i, accepts)
      PROVE  call'[d].resets \/ call'[d].identity \in {NoIdentity, identity[s]}
  BY <1>4, <1>0 DEF AmendProfile, CallTypes, GoesBackToReview
<1>5. ASSUME NEW t \in Suppliers,
             \/ \E areas \in SUBSET Areas : ConfigureAreas(d, t, areas)
             \/ \E i \in Identities, areas \in SUBSET Areas : Apply(d, t, i, areas)
             \/ \E a \in Areas, fuels \in SUBSET Fuels : StartOrder(d, t, a, fuels)
      PROVE  FALSE
  BY <1>5, <1>0 DEF ConfigureAreas, Apply, StartOrder, CallTypes
<1>6. CASE BeginSave(d)
  BY <1>6, <1>0 DEF BeginSave, CallTypes
<1>7. CASE DeleteAreas(d)
  <2>1. call[d] \in SaveCalls
    BY <1>7, <1>0, SaveRecords DEF DeleteAreas
  <2>2. QED
    BY <1>7, <2>1, <1>0 DEF DeleteAreas, SaveCalls, CallTypes
<1>8. CASE ReadCoverage(d) \/ ReadListings(d)
  <2>1. call[d] \in PlaceCalls
    BY <1>8, <1>0, SaveRecords DEF ReadCoverage, ReadListings
  <2>2. QED
    BY <1>8, <2>1, <1>0 DEF ReadCoverage, ReadListings, PlaceCalls, CallTypes
<1>9. QED
  BY <1>1, <1>2, <1>3, <1>4, <1>5, <1>6, <1>7, <1>8, WhoMoves DEF Moved

(* No edit of a depot that is verified for what it is leaves it verified for
   something else (supplier-profile-data.ts:31), whatever edits, verdicts and
   applications overlap. *)
THEOREM NoBadgeOnAnotherBusiness == Spec => BadgeStaysWithBusiness
<1>1. TypeOK /\ NothingBeforeProfile /\ [Next]_vars =>
        [\A s \in Suppliers :
           Vouched(s) => \/ badge'[s] # "VERIFIED"
                         \/ identity'[s] = identity[s] /\ Vouched(s)']_vars
  <2> SUFFICES ASSUME TypeOK, NothingBeforeProfile, [Next]_vars, NEW s \in Suppliers,
                      Vouched(s), badge'[s] = "VERIFIED"
               PROVE  identity'[s] = identity[s] /\ Vouched(s)'
    OBVIOUS
  <2>0. ProfileTypes /\ CallTypes
    BY TypeParts
  <2>1. /\ badge[s] = "VERIFIED"
        /\ \A c \in Calls : call[c].pc = "write" /\ call[c].supplier = s =>
             call[c].resets \/ call[c].identity \in {NoIdentity, identity[s]}
    BY DEF Vouched, InFlight
  <2>2. identity'[s] = identity[s]
    <3>1. ASSUME NEW c \in Calls, WriteProfile(c) PROVE identity'[s] = identity[s]
      <4>1. CASE call[c].supplier # s
        BY <4>1, <3>1, <2>0 DEF WriteProfile, ProfileTypes
      <4>2. CASE call[c].supplier = s
        <5>1. call[c].resets => badge'[s] = "PENDING"
          BY <4>2, <3>1, <2>0 DEF WriteProfile, ProfileTypes
        <5>2. call[c].identity \in {NoIdentity, identity[s]}
          BY <4>2, <3>1, <5>1, <2>1 DEF WriteProfile
        <5>3. QED
          BY <4>2, <5>2, <3>1, <2>0 DEF WriteProfile, ProfileTypes
      <4>3. QED
        BY <4>1, <4>2
    <3>2. ASSUME NEW c \in Calls, CommitApplication(c) PROVE identity'[s] = identity[s]
      <4>1. HasProfile(s)
        BY <2>1 DEF NothingBeforeProfile
      <4>2. QED
        BY <3>2, <4>1, <2>0 DEF CommitApplication, ProfileTypes
    <3>3. ASSUME NEW c \in Calls, SaveAreas(c) \/ PlaceOrder(c) PROVE identity'[s] = identity[s]
      BY <3>3 DEF SaveAreas, PlaceOrder
    <3>4. ASSUME NEW c \in Calls, NEW t \in Suppliers, NEW v \in Badges, VerifySupplier(c, t, v)
          PROVE  identity'[s] = identity[s]
      BY <3>4 DEF VerifySupplier
    <3>5. QED
      BY <3>1, <3>2, <3>3, <3>4, WhoWrites DEF Quiet
  <2>3. ASSUME NEW c \in Calls, call'[c].pc = "write", call'[c].supplier = s
        PROVE  call'[c].resets \/ call'[c].identity \in {NoIdentity, identity[s]}
    BY <2>1, <2>3, EditsKnow
  <2>4. QED
    BY <2>2, <2>3 DEF Vouched, InFlight
<1>2. QED
  BY <1>1, NothingAlways, PTL DEF Spec, BadgeStaysWithBusiness

-----------------------------------------------------------------------------
(* Coverage: which saves may be on their way. *)

\* the areas a request may put in or take out, and of whom
Touches(k, s) ==
  IF k.supplier # s THEN {}
  ELSE IF k.pc \in {"save", "apply"} THEN k.areas
  ELSE IF k.pc \in {"delete", "insert"} THEN k.areas \cup k.gone
  ELSE {}

LEMMA RestingIs ==
  ASSUME NEW s, NEW a
  PROVE  /\ Resting(s, a) <=>
              a \notin active /\ \A c \in Calls : a \notin Touches(call[c], s)
         /\ Resting(s, a)' <=>
              a \notin active' /\ \A c \in Calls : a \notin Touches(call'[c], s)
BY DEF Resting, InFlight, Touches

\* nobody begins to put in or take out an area that is paused
LEMMA NobodyTouches ==
  ASSUME TypeOK, [Next]_vars, NEW d \in Calls, NEW s \in Suppliers, NEW a \in Areas \ active,
         a \notin Touches(call[d], s)
  PROVE  a \notin Touches(call'[d], s)
<1>0. CallTypes
  BY TypeParts
<1>1. CASE StaysOrEnds(d)
  BY <1>1 DEF StaysOrEnds, Touches
<1>2. CASE Overtaken(d)
  <2>1. call[d] \in SaveCalls /\ call[d].pc = "delete"
    BY <1>2, <1>0, SaveRecords DEF Overtaken
  <2>2. /\ call'[d].pc = "delete" /\ call'[d].supplier = call[d].supplier
        /\ call'[d].areas = call[d].areas /\ call'[d].gone \subseteq call[d].gone
    BY <1>2, <2>1, Shrunk DEF Overtaken
  <2>3. QED
    BY <2>1, <2>2 DEF Touches
<1>3. ASSUME NEW t \in Suppliers,
             \/ \E i \in Identities : DescribeDepot(d, t, i)
             \/ \E i \in Identities \cup {NoIdentity}, accepts \in Switch :
                  AmendProfile(d, t, i, accepts)
             \/ \E b \in Areas, fuels \in SUBSET Fuels : StartOrder(d, t, b, fuels)
      PROVE  call'[d].pc \in {"write", "coverage"}
  BY <1>3, <1>0 DEF DescribeDepot, AmendProfile, StartOrder, CallTypes
<1>4. ASSUME NEW t \in Suppliers, NEW areas \in SUBSET Areas,
             ConfigureAreas(d, t, areas) \/ \E i \in Identities : Apply(d, t, i, areas)
      PROVE  a \notin Touches(call'[d], s)
  <2>1. call'[d].pc \in {"save", "apply"} /\ call'[d].areas = areas /\ areas \subseteq active
    BY <1>4, <1>0 DEF ConfigureAreas, Apply, Available, CallTypes
  <2>2. QED
    BY <2>1 DEF Touches
<1>5. CASE BeginSave(d)
  <2>1. /\ call[d].pc = "save" /\ call'[d].pc = "delete"
        /\ call'[d].supplier = call[d].supplier /\ call'[d].areas = call[d].areas
        /\ call'[d].gone \subseteq active
    BY <1>5, <1>0 DEF BeginSave, Replaced, CallTypes
  <2>2. QED
    BY <2>1 DEF Touches
<1>6. CASE DeleteAreas(d)
  <2>1. call[d] \in SaveCalls
    BY <1>6, <1>0, SaveRecords DEF DeleteAreas
  <2>2. /\ call[d].pc = "delete" /\ call'[d].pc = "insert"
        /\ call'[d].supplier = call[d].supplier /\ call'[d].areas = call[d].areas
        /\ call'[d].gone = call[d].gone
    BY <1>6, <2>1, <1>0 DEF DeleteAreas, SaveCalls, CallTypes
  <2>3. QED
    BY <2>2 DEF Touches
<1>7. CASE ReadCoverage(d) \/ ReadListings(d)
  <2>1. call[d] \in PlaceCalls
    BY <1>7, <1>0, SaveRecords DEF ReadCoverage, ReadListings
  <2>2. call'[d].pc \in {"listings", "place"}
    BY <1>7, <2>1, <1>0 DEF ReadCoverage, ReadListings, PlaceCalls, CallTypes
  <2>3. QED
    BY <2>2 DEF Touches
<1>8. QED
  BY <1>1, <1>2, <1>3, <1>4, <1>5, <1>6, <1>7, WhoMoves DEF Moved, Touches

(* The coverage of a paused area that no request in flight touches stays as it is
   until the area is reactivated (suppliers.service.ts:144), however many saves and
   applications overlap. *)
THEOREM CoverageOfPausedAreasRests == Spec => PausedAreasRest
<1>1. TypeOK /\ NothingBeforeProfile /\ [Next]_vars =>
        [\A s \in Suppliers, a \in Areas :
           Resting(s, a) =>
             /\ a \in covers'[s] <=> a \in covers[s]
             /\ Resting(s, a)' \/ a \in active']_vars
  <2> SUFFICES ASSUME TypeOK, NothingBeforeProfile, [Next]_vars, NEW s \in Suppliers,
                      NEW a \in Areas, Resting(s, a)
               PROVE  /\ a \in covers'[s] <=> a \in covers[s]
                      /\ Resting(s, a)' \/ a \in active'
    OBVIOUS
  <2>0. CoverTypes /\ CallTypes
    BY TypeParts
  <2>1. a \notin active /\ \A c \in Calls : a \notin Touches(call[c], s)
    BY RestingIs
  <2>2. Resting(s, a)' \/ a \in active'
    BY <2>1, NobodyTouches, RestingIs
  <2>3. a \in covers'[s] <=> a \in covers[s]
    <3>1. ASSUME NEW c \in Calls, SaveAreas(c) PROVE a \in covers'[s] <=> a \in covers[s]
      <4>1. call[c].supplier = s => a \notin call[c].areas \cup call[c].gone
        BY <2>1, <3>1 DEF SaveAreas, Touches
      <4>2. QED
        BY <4>1, <3>1, <2>0 DEF SaveAreas, CoverTypes
    <3>2. ASSUME NEW c \in Calls, CommitApplication(c)
          PROVE  a \in covers'[s] <=> a \in covers[s]
      <4>1. call[c].supplier = s => a \notin call[c].areas
        BY <2>1, <3>2 DEF CommitApplication, Touches
      <4>2. ~HasProfile(s) => covers[s] = {}
        BY DEF NothingBeforeProfile
      <4>3. QED
        BY <4>1, <4>2, <3>2, <2>0 DEF CommitApplication, CoverTypes
    <3>3. ASSUME NEW c \in Calls, WriteProfile(c) \/ PlaceOrder(c) PROVE covers' = covers
      BY <3>3 DEF WriteProfile, PlaceOrder
    <3>4. ASSUME NEW c \in Calls, NEW t \in Suppliers, NEW v \in Badges, VerifySupplier(c, t, v)
          PROVE  covers' = covers
      BY <3>4 DEF VerifySupplier
    <3>5. QED
      BY <3>1, <3>2, <3>3, <3>4, WhoWrites DEF Quiet
  <2>4. QED
    BY <2>2, <2>3
<1>2. QED
  BY <1>1, NothingAlways, PTL DEF Spec, PausedAreasRest

-----------------------------------------------------------------------------
(* Orders: who has read what. *)

LEMMA OrdersAdvance ==
  ASSUME TypeOK, [Next]_vars, NEW d \in Calls,
         call'[d].pc \in {"coverage", "listings", "place"}
  PROVE  \/ call'[d] = call[d]
         \/ \E s \in Suppliers, a \in Areas, fuels \in SUBSET Fuels :
              /\ StartOrder(d, s, a, fuels)
              /\ call'[d].pc = "coverage" /\ call'[d].supplier = s
         \/ /\ ReadCoverage(d) \/ ReadListings(d)
            /\ call[d] \in PlaceCalls
            /\ call'[d] \in PlaceCalls
            /\ call'[d].pc = IF ReadCoverage(d) THEN "listings" ELSE "place"
            /\ call'[d].supplier = call[d].supplier /\ call'[d].area = call[d].area
            /\ call'[d].fuels = call[d].fuels
<1>0. CallTypes
  BY TypeParts
<1>1. CASE StaysOrEnds(d)
  BY <1>1 DEF StaysOrEnds
<1>2. CASE Overtaken(d)
  <2>1. call[d] \in SaveCalls /\ call[d].pc = "delete"
    BY <1>2, <1>0, SaveRecords DEF Overtaken
  <2>2. call'[d].pc = "delete"
    BY <1>2, <2>1, Shrunk DEF Overtaken
  <2>3. QED
    BY <2>2
<1>3. ASSUME NEW s \in Suppliers,
             \/ \E i \in Identities : DescribeDepot(d, s, i)
             \/ \E i \in Identities \cup {NoIdentity}, accepts \in Switch :
                  AmendProfile(d, s, i, accepts)
             \/ \E areas \in SUBSET Areas : ConfigureAreas(d, s, areas)
             \/ \E i \in Identities, areas \in SUBSET Areas : Apply(d, s, i, areas)
      PROVE  FALSE
  BY <1>3, <1>0 DEF DescribeDepot, AmendProfile, ConfigureAreas, Apply, CallTypes
<1>4. ASSUME NEW s \in Suppliers, NEW a \in Areas, NEW fuels \in SUBSET Fuels,
             StartOrder(d, s, a, fuels)
      PROVE  call'[d].pc = "coverage" /\ call'[d].supplier = s
  BY <1>4, <1>0 DEF StartOrder, CallTypes
<1>5. CASE BeginSave(d)
  BY <1>5, <1>0 DEF BeginSave, CallTypes
<1>6. CASE DeleteAreas(d)
  <2>1. call[d] \in SaveCalls
    BY <1>6, <1>0, SaveRecords DEF DeleteAreas
  <2>2. QED
    BY <1>6, <2>1, <1>0 DEF DeleteAreas, SaveCalls, CallTypes
<1>7. CASE ReadCoverage(d)
  <2>1. call[d] \in PlaceCalls
    BY <1>7, <1>0, SaveRecords DEF ReadCoverage
  <2>2. QED
    BY <1>7, <2>1, <1>0 DEF ReadCoverage, PlaceCalls, CallTypes
<1>8. CASE ReadListings(d)
  <2>1. call[d] \in PlaceCalls
    BY <1>8, <1>0, SaveRecords DEF ReadListings
  <2>2. ~ReadCoverage(d)
    BY <1>8 DEF ReadListings, ReadCoverage
  <2>3. QED
    BY <1>8, <2>1, <2>2, <1>0 DEF ReadListings, PlaceCalls, CallTypes
<1>9. QED
  BY <1>1, <1>2, <1>3, <1>4, <1>5, <1>6, <1>7, <1>8, WhoMoves DEF Moved

\* only PlaceOrder adds an order, where it was asked for
LEMMA OnlyPlacingOrders ==
  ASSUME TypeOK, [Next]_vars, NEW s \in Suppliers, NEW a \in Areas,
         orders'[s][a] # orders[s][a]
  PROVE  \E c \in Calls : call[c].pc = "place" /\ call[c].supplier = s /\ call[c].area = a
<1>0. MarketTypes
  BY TypeParts
<1>1. PICK c \in Calls : PlaceOrder(c)
  BY WhoWrites DEF Quiet
<1>2. PICK t, b : t = call[c].supplier /\ b = call[c].area
  OBVIOUS
<1>3. orders' = [orders EXCEPT ![t][b] = @ + 1] /\ call[c].pc = "place"
  BY <1>1, <1>2 DEF PlaceOrder
<1>4. QED
  BY <1>0, <1>2, <1>3 DEF MarketTypes

LEMMA ClosedStays ==
  ASSUME TypeOK, [Next]_vars, NEW s \in Suppliers, Closed(s)
  PROVE  orders'[s] = orders[s] /\ (Closed(s)' \/ PublicSupplier(s)')
<1>0. /\ ~PublicSupplier(s)
      /\ \A c \in Calls :
           ~(call[c].pc \in {"coverage", "listings", "place"} /\ call[c].supplier = s)
  BY DEF Closed, InFlight
<1>1. orders'[s] = orders[s]
  <2>1. \A a \in Areas : orders'[s][a] = orders[s][a]
    BY <1>0, OnlyPlacingOrders
  <2>2. MarketTypes /\ MarketTypes'
    BY TypeParts, StepKeepsTypes
  <2>3. QED
    BY <2>1, <2>2 DEF MarketTypes
<1>2. ASSUME NEW c \in Calls, call'[c].pc \in {"coverage", "listings", "place"},
             call'[c].supplier = s
      PROVE  FALSE
  <2>1. CASE call'[c] = call[c]
    BY <2>1, <1>0, <1>2
  <2>2. ASSUME NEW t \in Suppliers, NEW a \in Areas, NEW fuels \in SUBSET Fuels,
               StartOrder(c, t, a, fuels), call'[c].supplier = t
        PROVE  FALSE
    BY <2>2, <1>0, <1>2 DEF StartOrder, PublicSupplier
  <2>3. ASSUME ReadCoverage(c) \/ ReadListings(c), call'[c].supplier = call[c].supplier
        PROVE  FALSE
    BY <2>3, <1>0, <1>2 DEF ReadCoverage, ReadListings
  <2>4. QED
    BY <1>2, <2>1, <2>2, <2>3, OrdersAdvance
<1>3. QED
  BY <1>1, <1>2 DEF Closed, InFlight

LEMMA UndeliveredStays ==
  ASSUME TypeOK, [Next]_vars, NEW s \in Suppliers, NEW a \in Areas, Undelivered(s, a)
  PROVE  /\ orders'[s][a] = orders[s][a]
         /\ Undelivered(s, a)' \/ a \in PublicAreas(s)'
<1>0. /\ a \notin covers[s] \cap active
      /\ \A c \in Calls :
           ~(call[c].pc \in {"listings", "place"} /\ call[c].supplier = s /\ call[c].area = a)
  BY DEF Undelivered, InFlight, PublicAreas
<1>1. orders'[s][a] = orders[s][a]
  BY <1>0, OnlyPlacingOrders
<1>2. ASSUME NEW c \in Calls, call'[c].pc \in {"listings", "place"},
             call'[c].supplier = s, call'[c].area = a
      PROVE  FALSE
  <2>1. CASE call'[c] = call[c]
    BY <2>1, <1>0, <1>2
  <2>2. CASE /\ ReadCoverage(c)
             /\ call'[c].supplier = call[c].supplier /\ call'[c].area = call[c].area
    BY <2>2, <1>0, <1>2 DEF ReadCoverage
  <2>3. CASE /\ ReadListings(c)
             /\ call'[c].supplier = call[c].supplier /\ call'[c].area = call[c].area
    BY <2>3, <1>0, <1>2 DEF ReadListings
  <2>4. QED
    BY <1>2, <2>1, <2>2, <2>3, OrdersAdvance
<1>3. QED
  BY <1>1, <1>2 DEF Undelivered, InFlight

LEMMA WithdrawnStays ==
  ASSUME TypeOK, [Next]_vars, NEW s \in Suppliers, NEW f \in Fuels, Withdrawn(s, f)
  PROVE  Withdrawn(s, f)' \/ f \in PublicListings(s)'
<1>0. /\ f \notin PublicListings(s)
      /\ \A c \in Calls :
           ~(call[c].pc = "place" /\ call[c].supplier = s /\ f \in call[c].fuels)
  BY DEF Withdrawn, InFlight
<1>1. ASSUME NEW c \in Calls, call'[c].pc = "place", call'[c].supplier = s,
             f \in call'[c].fuels
      PROVE  FALSE
  <2>1. CASE call'[c] = call[c]
    BY <2>1, <1>0, <1>1
  <2>2. CASE /\ ReadListings(c)
             /\ call'[c].supplier = call[c].supplier /\ call'[c].fuels = call[c].fuels
    BY <2>2, <1>0, <1>1 DEF ReadListings, Orderable, PublicListings
  <2>3. QED
    BY <1>1, <2>1, <2>2, OrdersAdvance
<1>2. QED
  BY <1>1 DEF Withdrawn, InFlight

(* A depot, an area or a listing that is off the public pages takes no new order once
   those that had read it are through (orders.service.ts:145 and 174), however many
   orders, edits and verdicts overlap. *)
THEOREM OrdersFollowThePages == Spec => OnlyTheOfferedIsOrdered
<1>1. TypeOK /\ [Next]_vars =>
        [\A s \in Suppliers, a \in Areas, f \in Fuels :
           /\ Closed(s) => /\ orders'[s] = orders[s]
                           /\ Closed(s)' \/ PublicSupplier(s)'
           /\ Undelivered(s, a) => /\ orders'[s][a] = orders[s][a]
                                   /\ Undelivered(s, a)' \/ a \in PublicAreas(s)'
           /\ Withdrawn(s, f) => Withdrawn(s, f)' \/ f \in PublicListings(s)']_vars
  BY ClosedStays, UndeliveredStays, WithdrawnStays
<1>2. QED
  BY <1>1, TypeCorrect, PTL DEF Spec, OnlyTheOfferedIsOrdered
=============================================================================
