------------------------------- MODULE Tender -------------------------------
(* What awarding a request promises: there is one agreement per request at most,
   made at the price that stands at that moment, it ends the bidding that stood
   against it, and it is never made again or changed. *)
CONSTANTS Requests, Suppliers, Prices, NoPrice

VARIABLES
  bid,             \* the price each supplier's standing bid on a request asks for
  agreed           \* the agreement made on a request, if any

vars == <<bid, agreed>>

Init ==
  /\ bid = [q \in Requests |-> [s \in Suppliers |-> NoPrice]]
  /\ agreed = [q \in Requests |-> {}]

Quote(q, s, p) ==
  /\ bid' = [bid EXCEPT ![q][s] = p]
  /\ UNCHANGED agreed

\* some bids on a request no longer stand: withdrawn, or the request is cancelled
Fall(q, S) ==
  /\ bid' = [bid EXCEPT ![q] = [s \in Suppliers |-> IF s \in S THEN NoPrice ELSE @[s]]]
  /\ UNCHANGED agreed

Agree(q, s) ==
  /\ agreed[q] = {}
  /\ bid[q][s] # NoPrice
  /\ agreed' = [agreed EXCEPT ![q] = {[supplier |-> s, price |-> bid[q][s]]}]
  /\ bid' = [bid EXCEPT ![q] = [r \in Suppliers |-> NoPrice]]

Next ==
  \E q \in Requests :
    \/ \E s \in Suppliers, p \in Prices : Quote(q, s, p)
    \/ \E S \in SUBSET Suppliers : Fall(q, S)
    \/ \E s \in Suppliers : Agree(q, s)

Spec == Init /\ [][Next]_vars
=============================================================================
