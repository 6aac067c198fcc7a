------------------------------- MODULE Depots -------------------------------
(* Depots: who a supplier is, whether an admin has verified it, and which areas it
   delivers to. src/modules/suppliers, src/modules/supplier-applications and
   src/modules/delivery-areas. A handler is cut between the reads it decides from
   and its write, and so is the transaction that saves a supplier's coverage. *)
CONSTANTS
  Suppliers,       \* users who have a depot, or may describe one
  Identities,      \* company name, registration number and tax number, normalised
  NoIdentity,      \* no depot has been described; in an edit, identity left out
  Areas,           \* delivery areas
  Calls            \* requests the server may be handling at once

ASSUME DepotsAssumption == NoIdentity \notin Identities

VARIABLES
  identity,        \* the legal identity in a supplier's profile
  badge,           \* supplier_profiles.verification_status
  accepting,       \* is_accepting_orders
  active,          \* delivery areas that are not paused
  covers,          \* the areas a supplier delivers to
  call             \* what each request is about to do, with what it remembers

profiles == <<identity, badge, accepting>>
depotVars == <<profiles, active, covers>>

Badges == {"PENDING", "VERIFIED", "REJECTED"}
Switch == {"on", "off", "same"}
Idle == [pc |-> "idle"]

\* pc names what a handler is about to do; gone are the rows its delete found
DepotCalls ==
  [pc : {"write"}, supplier : Suppliers, identity : Identities \cup {NoIdentity},
   accepting : Switch, resets : BOOLEAN]
  \cup [pc : {"save"}, supplier : Suppliers, areas : SUBSET Areas]
  \cup [pc : {"delete", "insert"}, supplier : Suppliers, areas : SUBSET Areas,
        gone : SUBSET Areas]
  \cup [pc : {"apply"}, supplier : Suppliers, identity : Identities, areas : SUBSET Areas]

DepotsTypeOK ==
  /\ identity \in [Suppliers -> Identities \cup {NoIdentity}]
  /\ badge \in [Suppliers -> Badges]
  /\ accepting \in [Suppliers -> BOOLEAN]
  /\ active \subseteq Areas
  /\ covers \in [Suppliers -> SUBSET Areas]

\* a supplier without a profile has the columns' defaults
DepotsInit ==
  /\ identity = [s \in Suppliers |-> NoIdentity]
  /\ badge = [s \in Suppliers |-> "PENDING"]
  /\ accepting = [s \in Suppliers |-> TRUE]
  /\ active = Areas
  /\ covers = [s \in Suppliers |-> {}]
  /\ call = [c \in Calls |-> Idle]

At(c, pc) == call[c].pc = pc
Become(c, local) == call' = [call EXCEPT ![c] = local]
Return(c) == Become(c, Idle)

HasProfile(s) == identity[s] # NoIdentity

-----------------------------------------------------------------------------
(* The profile *)

\* reverificationFor: a verified depot that changes who it legally is
MutGoesBackToReview(s, i) == FALSE
GoesBackToReview(s, i) == badge[s] = "VERIFIED" /\ i \notin {NoIdentity, identity[s]}

\* createOrUpdateProfile
DescribeDepot(c, s, i) ==
  /\ At(c, "idle")
  /\ Become(c, [pc |-> "write", supplier |-> s, identity |-> i, accepting |-> "same",
                resets |-> GoesBackToReview(s, i)])
  /\ UNCHANGED depotVars

\* updateProfile
AmendProfile(c, s, i, accepts) ==
  /\ At(c, "idle")
  /\ HasProfile(s)
  /\ Become(c, [pc |-> "write", supplier |-> s, identity |-> i, accepting |-> accepts,
                resets |-> GoesBackToReview(s, i)])
  /\ UNCHANGED depotVars

AcceptingAfter(s, accepts) == IF accepts = "same" THEN accepting[s] ELSE accepts = "on"

\* the upsert or update: the columns that were sent, and the reset decided before
WriteProfile(c) ==
  LET s == call[c].supplier
      i == call[c].identity
  IN
  /\ At(c, "write")
  /\ identity' = [identity EXCEPT ![s] = IF i = NoIdentity THEN @ ELSE i]
  /\ accepting' = [accepting EXCEPT ![s] = AcceptingAfter(s, call[c].accepting)]
  /\ badge' = [badge EXCEPT ![s] = IF call[c].resets THEN "PENDING" ELSE @]
  /\ Return(c)
  /\ UNCHANGED <<active, covers>>

\* verifySupplier: an admin's word, PENDING included. Profiles are never removed,
\* so nothing can happen between its read and its write that they could tell.
VerifySupplier(c, s, verdict) ==
  /\ At(c, "idle")
  /\ HasProfile(s)
  /\ badge' = [badge EXCEPT ![s] = verdict]
  /\ UNCHANGED <<identity, accepting, active, covers, call>>

-----------------------------------------------------------------------------
(* Coverage *)

\* an admin pauses or reactivates a delivery area (delivery-areas.service update)
SetArea(c, a) ==
  /\ At(c, "idle")
  /\ active' = IF a \in active THEN active \ {a} ELSE active \cup {a}
  /\ UNCHANGED <<profiles, covers, call>>

\* assertDeliveryAreasAvailable
Available(areas) == areas \subseteq active

ConfigureAreas(c, s, areas) ==
  /\ At(c, "idle")
  /\ HasProfile(s)
  /\ Available(areas)
  /\ Become(c, [pc |-> "save", supplier |-> s, areas |-> areas])
  /\ UNCHANGED depotVars

\* the rows a save replaces: coverage of areas that are paused is left alone
MutReplaced(s) == covers[s]
Replaced(s) == covers[s] \cap active

\* the transaction: its delete finds the rows that are committed at that moment
BeginSave(c) ==
  LET s == call[c].supplier
  IN
  /\ At(c, "save")
  /\ Become(c, [pc |-> "delete", supplier |-> s, areas |-> call[c].areas,
                gone |-> Replaced(s)])
  /\ UNCHANGED depotVars

\* another save of the same supplier has deleted some of these rows, uncommitted
Blocked(c, rows) ==
  \E d \in Calls \ {c} :
    At(d, "insert") /\ call[d].supplier = call[c].supplier /\ call[d].gone \cap rows # {}

\* it waits for the rows that another save has deleted
DeleteAreas(c) ==
  /\ At(c, "delete")
  /\ ~Blocked(c, call[c].gone)
  /\ Become(c, [call[c] EXCEPT !.pc = "insert"])
  /\ UNCHANGED depotVars

\* out with the rows found, in with the chosen ones. One that is still covered, for
\* its area was paused meanwhile or another save put it in, breaks the unique index
\* and undoes the save. A delete that waited does not see the rows put in for those
\* it waited for.
SaveAreas(c) ==
  LET s == call[c].supplier
      gone == call[c].gone
      areas == call[c].areas
      rest == covers[s] \ gone
  IN
  /\ At(c, "insert")
  /\ ~Blocked(c, areas)
  /\ IF areas \cap rest = {}
     THEN /\ covers' = [covers EXCEPT ![s] = rest \cup areas]
          /\ call' = [d \in Calls |->
                        IF d = c THEN Idle
                        ELSE IF At(d, "delete") /\ call[d].supplier = s
                        THEN [call[d] EXCEPT !.gone = @ \ gone]
                        ELSE call[d]]
     ELSE Return(c) /\ UNCHANGED covers
  /\ UNCHANGED <<profiles, active>>

\* a supplier application checks its areas inside its transaction; then it creates
\* the account, the depot and its coverage, or the unique index stops it.
Apply(c, s, i, areas) ==
  /\ At(c, "idle")
  /\ ~HasProfile(s)
  /\ areas # {} /\ Available(areas)
  /\ Become(c, [pc |-> "apply", supplier |-> s, identity |-> i, areas |-> areas])
  /\ UNCHANGED depotVars

CommitApplication(c) ==
  LET s == call[c].supplier
  IN
  /\ At(c, "apply")
  /\ IF HasProfile(s)
     THEN UNCHANGED <<identity, covers>>
     ELSE /\ identity' = [identity EXCEPT ![s] = call[c].identity]
          /\ covers' = [covers EXCEPT ![s] = call[c].areas]
  /\ Return(c)
  /\ UNCHANGED <<badge, accepting, active>>

-----------------------------------------------------------------------------
DepotRequest(c) ==
  \E s \in Suppliers :
    \/ \E i \in Identities : DescribeDepot(c, s, i)
    \/ \E i \in Identities \cup {NoIdentity}, accepts \in Switch :
         AmendProfile(c, s, i, accepts)
    \/ \E verdict \in Badges : VerifySupplier(c, s, verdict)
    \/ \E areas \in SUBSET Areas : ConfigureAreas(c, s, areas)
    \/ \E i \in Identities, areas \in SUBSET Areas : Apply(c, s, i, areas)

DepotStep(c) ==
  \/ WriteProfile(c) \/ CommitApplication(c)
  \/ BeginSave(c) \/ DeleteAreas(c) \/ SaveAreas(c)
=============================================================================
