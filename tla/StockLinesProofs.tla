-------------------------- MODULE StockLinesProofs --------------------------
(* Proofs about StockLines, for any orders, listings, lines, figures and failures: one
   transaction at a time holds a row (LinesInv), what each has moved adds up to whole
   lines (LedgerInv), and so it implements Warehouse. *)
EXTENDS StockLines, WellFoundedInduction, TLAPS

USE WarehouseAssumption, FailuresAssumption DEF At

\* a row is changed by one open transaction at a time
OneHolder ==
  \A o, p \in Orders, l \in Listings : Holds(o, l) /\ Holds(p, l) => o = p

LinesInv == TypeOK /\ OneHolder /\ NeverOversold

TxRecords == [pc : {"closed", "draw", "restore"}, line : Nat \ {0},
              moved : [Listings -> Int], short : BOOLEAN]

OrderRecords == [status : Statuses, source : Sources, items : Baskets \cup {<<>>},
                 deducted : BOOLEAN]

LEMMA TypesByRow ==
  TypeOK <=> /\ stock \in [Listings -> Nat]
             /\ order \in [Orders -> OrderRecords]
             /\ due \subseteq Orders
             /\ tx \in [Orders -> TxRecords]
             /\ took \in [Orders -> [Listings -> Int]]
             /\ failures \in 0 .. MaxFailures
BY DEF TypeOK, OrderRecords, TxRecords

LEMMA TypesByRowAfter ==
  TypeOK' <=> /\ stock' \in [Listings -> Nat]
              /\ order' \in [Orders -> OrderRecords]
              /\ due' \subseteq Orders
              /\ tx' \in [Orders -> TxRecords]
              /\ took' \in [Orders -> [Listings -> Int]]
              /\ failures' \in 0 .. MaxFailures
BY DEF TypeOK, OrderRecords, TxRecords

LEMMA ClosedIsTyped == Closed \in TxRecords
BY DEF Closed, Nothing, TxRecords

\* what the updates of one record make of it
LEMMA OrderRecordUpdates ==
  ASSUME NEW r \in OrderRecords
  PROVE  /\ \A status \in Statuses : [r EXCEPT !.status = status] \in OrderRecords
         /\ \A status \in Statuses, flag \in BOOLEAN :
              [r EXCEPT !.status = status, !.deducted = flag] \in OrderRecords
         /\ \A status \in Statuses, source \in Sources, items \in Baskets :
              [r EXCEPT !.status = status, !.source = source, !.items = items]
                \in OrderRecords
BY DEF OrderRecords

LEMMA TxRecordUpdates ==
  ASSUME NEW r \in TxRecords
  PROVE  /\ \A pc \in {"draw", "restore"} :
              LET t == [r EXCEPT !.pc = pc] IN t \in TxRecords /\ t.moved = r.moved
         /\ \A pc \in {"draw", "restore"}, n \in Nat \ {0} :
              LET t == [r EXCEPT !.pc = pc, !.line = n]
              IN  t \in TxRecords /\ t.moved = r.moved
         /\ \A n \in Nat \ {0} :
              LET t == [r EXCEPT !.line = n, !.short = TRUE]
              IN  t \in TxRecords /\ t.moved = r.moved
BY DEF TxRecords

Moves(r, n, l, m) == [r EXCEPT !.line = n, !.moved[l] = m]

LEMMA MovedRecord ==
  ASSUME NEW r \in TxRecords, NEW n \in Nat \ {0}, NEW l \in Listings, NEW m \in Int
  PROVE  LET t == Moves(r, n, l, m)
         IN  /\ t \in TxRecords
             /\ t.moved[l] = m
             /\ \A k \in Listings : k # l => t.moved[k] = r.moved[k]
<1> DEFINE t == Moves(r, n, l, m)
<1>1. t \in TxRecords /\ t.moved = [r.moved EXCEPT ![l] = m]
  BY DEF TxRecords, Moves
<1>2. r.moved \in [Listings -> Int]
  BY DEF TxRecords
<1> HIDE DEF t
<1>3. t.moved[l] = m /\ \A k \in Listings : k # l => t.moved[k] = r.moved[k]
  BY <1>1, <1>2
<1>4. QED
  BY <1>1, <1>3 DEF t

LEMMA LinesAreSequences ==
  ASSUME TypeOK, NEW o \in Orders
  PROVE  order[o].items \in Seq(Lines)
<1>1. order[o].items \in Baskets \cup {<<>>}
  BY DEF TypeOK
<1>2. Baskets \subseteq Seq(Lines) /\ <<>> \in Seq(Lines)
  OBVIOUS
<1>3. QED
  BY <1>1, <1>2

LEMMA LineIsTyped ==
  ASSUME TypeOK, NEW o \in Orders, ~Done(o)
  PROVE  Line(o).listing \in Listings /\ Line(o).litres \in Nat
<1>1. order[o].items \in Seq(Lines)
  BY LinesAreSequences
<1>2. tx[o].line \in Nat \ {0}
  BY DEF TypeOK
<1>3. tx[o].line \in 1..Len(order[o].items)
  BY <1>1, <1>2 DEF Done
<1>4. Line(o) \in Lines
  BY <1>1, <1>3 DEF Line
<1>5. QED
  BY <1>4 DEF Lines

LEMMA InitLines == LinesInit => LinesInv
<1> SUFFICES ASSUME LinesInit PROVE LinesInv
  OBVIOUS
<1>1. TypeOK
  BY DEF LinesInit, Init, TypeOK, Statuses, Sources, Nothing, Closed
<1>2. \A o \in Orders, l \in Listings : tx[o].moved[l] = 0
  BY DEF LinesInit, Closed, Nothing
<1>3. OneHolder
  BY <1>2 DEF OneHolder, Holds
<1>4. NeverOversold
  BY <1>1, <1>2 DEF NeverOversold, Seen, TypeOK
<1>5. QED
  BY <1>1, <1>3, <1>4 DEF LinesInv

-----------------------------------------------------------------------------
(* What the actions come down to *)

LEMMA TxKeepsTypes ==
  ASSUME TypeOK, NEW o \in Orders, NEW t \in TxRecords,
         tx' = [tx EXCEPT ![o] = t],
         stock' = stock, order' = order, due' = due, took' = took,
         failures' \in 0 .. MaxFailures
  PROVE  TypeOK'
BY TypesByRow, TypesByRowAfter

\* nothing is moved: only orders, events, or where a transaction has got to
LEMMA IdleKeepsLines ==
  ASSUME LinesInv, TypeOK', stock' = stock,
         \A o \in Orders, l \in Listings : tx'[o].moved[l] = tx[o].moved[l]
  PROVE  LinesInv'
<1>1. OneHolder'
  BY DEF LinesInv, OneHolder, Holds
<1>2. NeverOversold'
  BY DEF LinesInv, NeverOversold, Seen
<1>3. QED
  BY <1>1, <1>2 DEF LinesInv

\* an open transaction changes a row that is free or its own
LEMMA MoveKeepsLines ==
  ASSUME LinesInv, UNCHANGED <<stock, order, due, took, failures>>,
         NEW o \in Orders, NEW l \in Listings, NEW t \in TxRecords,
         ~HeldByAnother(o, l),
         tx' = [tx EXCEPT ![o] = t],
         \A k \in Listings : k # l => t.moved[k] = tx[o].moved[k],
         stock[l] + t.moved[l] >= 0
  PROVE  LinesInv'
<1>1. /\ tx'[o] = t
      /\ \A p \in Orders : p # o => tx'[p] = tx[p]
  BY DEF LinesInv, TypeOK
<1>2. OneHolder'
  <2> SUFFICES ASSUME NEW p \in Orders, NEW q \in Orders, NEW k \in Listings,
                      tx'[p].moved[k] # 0, tx'[q].moved[k] # 0
               PROVE  p = q
    BY DEF OneHolder, Holds
  <2>1. \A r, u \in Orders : tx[r].moved[k] # 0 /\ tx[u].moved[k] # 0 => r = u
    BY DEF LinesInv, OneHolder, Holds
  <2>2. CASE k = l
    <3>1. \A r \in Orders : r # o => tx[r].moved[l] = 0
      BY DEF HeldByAnother, Holds
    <3>2. QED
      BY <1>1, <2>2, <3>1
  <2>3. CASE k # l
    <3>1. \A r \in Orders : tx'[r].moved[k] = tx[r].moved[k]
      BY <1>1, <2>3
    <3>2. QED
      BY <2>1, <3>1
  <2>4. QED
    BY <2>2, <2>3
<1>3. NeverOversold'
  <2> SUFFICES ASSUME NEW p \in Orders, NEW k \in Listings
               PROVE  stock[k] >= 0 /\ stock[k] + tx'[p].moved[k] >= 0
    BY DEF NeverOversold, Seen
  <2>1. stock[k] >= 0 /\ stock[k] + tx[p].moved[k] >= 0
    BY DEF LinesInv, NeverOversold, Seen
  <2>2. QED
    BY <1>1, <2>1
<1>4. TypeOK'
  <2>1. TypeOK /\ failures' \in 0 .. MaxFailures
    BY DEF LinesInv, TypeOK
  <2>2. QED
    BY <2>1, TxKeepsTypes
<1>5. QED
  BY <1>2, <1>3, <1>4 DEF LinesInv

\* a transaction ends, with its changes or without
LEMMA EndKeepsLines ==
  ASSUME LinesInv, TypeOK', NEW o \in Orders,
         tx' = [tx EXCEPT ![o] = Closed],
         \/ stock' = stock
         \/ \A l \in Listings : stock'[l] = Seen(o, l)
  PROVE  LinesInv'
<1>1. /\ tx'[o] = Closed
      /\ \A p \in Orders : p # o => tx'[p] = tx[p]
  BY DEF LinesInv, TypeOK
<1>2. \A l \in Listings : tx'[o].moved[l] = 0
  BY <1>1 DEF Closed, Nothing
<1>3. OneHolder'
  <2> SUFFICES ASSUME NEW p \in Orders, NEW q \in Orders, NEW k \in Listings,
                      tx'[p].moved[k] # 0, tx'[q].moved[k] # 0
               PROVE  p = q
    BY DEF OneHolder, Holds
  <2>1. p # o /\ q # o
    BY <1>2
  <2>2. tx[p].moved[k] # 0 /\ tx[q].moved[k] # 0
    BY <1>1, <2>1
  <2>3. QED
    BY <2>2 DEF LinesInv, OneHolder, Holds
<1>4. NeverOversold'
  <2> SUFFICES ASSUME NEW p \in Orders, NEW k \in Listings
               PROVE  stock'[k] >= 0 /\ stock'[k] + tx'[p].moved[k] >= 0
    BY DEF NeverOversold, Seen
  <2>1. /\ stock[k] >= 0 /\ stock[k] + tx[p].moved[k] >= 0
        /\ stock[k] + tx[o].moved[k] >= 0
    BY DEF LinesInv, NeverOversold, Seen
  <2>2. /\ stock[k] \in Nat /\ tx[p].moved[k] \in Int /\ tx[o].moved[k] \in Int
    <3>1. /\ stock \in [Listings -> Nat]
          /\ tx[p] \in TxRecords /\ tx[o] \in TxRecords
      BY TypesByRow DEF LinesInv
    <3>2. QED
      BY <3>1 DEF TxRecords
  <2>3. stock'[k] = stock[k] \/ stock'[k] = stock[k] + tx[o].moved[k]
    BY DEF Seen
  <2>4. stock'[k] >= 0
    BY <2>1, <2>3
  <2>5. CASE p = o
    BY <1>2, <2>2, <2>3, <2>4, <2>5
  <2>6. CASE p # o
    <3>1. tx[o].moved[k] = 0 \/ tx[p].moved[k] = 0
      BY <2>6 DEF LinesInv, OneHolder, Holds
    <3>2. tx'[p].moved[k] = tx[p].moved[k]
      BY <1>1, <2>6
    <3>3. QED
      BY <2>1, <2>2, <2>3, <3>1, <3>2
  <2>7. QED
    BY <2>5, <2>6
<1>5. QED
  BY <1>3, <1>4 DEF LinesInv

-----------------------------------------------------------------------------
(* Types *)

LEMMA RowsKeepTypes ==
  ASSUME TypeOK, NEW o \in Orders,
         \/ \E basket \in Baskets : PlaceOrder(o, basket) \/ AwardOrder(o, basket)
         \/ Capture(o) \/ Confirmed(o) \/ RejectUndrawn(o)
  PROVE  TypeOK' /\ stock' = stock /\ tx' = tx
<1>1. order[o] \in OrderRecords /\ order \in [Orders -> OrderRecords]
  BY TypesByRow
<1>2. ASSUME NEW r \in OrderRecords, order' = [order EXCEPT ![o] = r],
             UNCHANGED <<stock, due, tx, took, failures>>
      PROVE  TypeOK'
  <2>1. order' \in [Orders -> OrderRecords]
    BY <1>1, <1>2
  <2>2. QED
    BY <1>2, <2>1, TypesByRow, TypesByRowAfter
<1>3. CASE \E basket \in Baskets : PlaceOrder(o, basket) \/ AwardOrder(o, basket)
  <2>1. PICK basket \in Baskets : PlaceOrder(o, basket) \/ AwardOrder(o, basket)
    BY <1>3
  <2>2. PICK source \in Sources : Place(o, source, basket)
    BY <2>1 DEF PlaceOrder, AwardOrder, Sources
  <2>3. UNCHANGED <<stock, due, tx, took, failures>>
    BY <2>1, <2>2 DEF PlaceOrder, AwardOrder, Place
  <2> DEFINE r == [order[o] EXCEPT !.status = "PENDING", !.source = source,
                                   !.items = basket]
  <2>4. r \in OrderRecords
    BY <1>1, OrderRecordUpdates DEF Statuses
  <2>5. order' = [order EXCEPT ![o] = r]
    BY <2>2, <1>1, Zenon DEF Place
  <2> HIDE DEF r
  <2>6. QED
    BY <1>2, <2>3, <2>4, <2>5
<1>4. CASE Capture(o)
  BY <1>4, TypesByRow, TypesByRowAfter DEF Capture
<1>5. CASE Confirmed(o)
  <2> DEFINE r == [order[o] EXCEPT !.status = "CONFIRMED"]
  <2>1. r \in OrderRecords
    BY <1>1, OrderRecordUpdates DEF Statuses
  <2>2. order' = [order EXCEPT ![o] = r] /\ UNCHANGED <<stock, due, tx, took, failures>>
    BY <1>5, <1>1, Zenon DEF Confirmed, Confirm
  <2> HIDE DEF r
  <2>3. QED
    BY <1>2, <2>1, <2>2
<1>6. CASE RejectUndrawn(o)
  <2> DEFINE r == [order[o] EXCEPT !.status = "REJECTED", !.deducted = FALSE]
  <2>1. r \in OrderRecords
    BY <1>1, OrderRecordUpdates DEF Statuses
  <2>2. order' = [order EXCEPT ![o] = r] /\ UNCHANGED <<due, tx, took, failures>>
    BY <1>6, <1>1, Zenon DEF RejectUndrawn, Reject
  <2>3. stock' = stock
    BY <1>6 DEF RejectUndrawn, Reject
  <2> HIDE DEF r
  <2>4. QED
    BY <1>2, <2>1, <2>2, <2>3
<1>7. QED
  BY <1>3, <1>4, <1>5, <1>6

\* the transaction has got further and has changed nothing
LEMMA PassKeepsLines ==
  ASSUME LinesInv, NEW o \in Orders, NEW t \in TxRecords,
         tx' = [tx EXCEPT ![o] = t], t.moved = tx[o].moved,
         UNCHANGED <<stock, order, due, took, failures>>
  PROVE  LinesInv'
<1>1. tx \in [Orders -> TxRecords] /\ TypeOK /\ failures' \in 0 .. MaxFailures
  BY TypesByRow DEF LinesInv
<1>2. TypeOK'
  BY <1>1, TxKeepsTypes
<1>3. \A p \in Orders : tx'[p].moved = tx[p].moved
  BY <1>1
<1>4. \A p \in Orders, l \in Listings : tx'[p].moved[l] = tx[p].moved[l]
  BY <1>3
<1>5. stock' = stock
  OBVIOUS
<1>6. QED
  BY <1>2, <1>4, <1>5, IdleKeepsLines, Zenon

LEMMA CommitKeepsTypes ==
  ASSUME LinesInv, NEW o \in Orders, Commits(o),
         order' \in [Orders -> OrderRecords], due' \subseteq Orders, failures' = failures
  PROVE  TypeOK'
<1>1. \A l \in Listings : Seen(o, l) \in Nat
  <2> SUFFICES ASSUME NEW l \in Listings PROVE Seen(o, l) \in Nat
    OBVIOUS
  <2>1. stock[l] \in Nat /\ tx[o].moved[l] \in Int
    BY DEF LinesInv, TypeOK
  <2>2. stock[l] + tx[o].moved[l] >= 0
    BY DEF LinesInv, NeverOversold, Seen
  <2>3. QED
    BY <2>1, <2>2 DEF Seen
<1>2. stock' \in [Listings -> Nat]
  BY <1>1 DEF Commits
<1>3. took' \in [Orders -> [Listings -> Int]]
  <2>1. took \in [Orders -> [Listings -> Int]] /\ tx[o].moved \in [Listings -> Int]
    BY DEF LinesInv, TypeOK
  <2>2. [l \in Listings |-> took[o][l] - tx[o].moved[l]] \in [Listings -> Int]
    BY <2>1
  <2>3. took' = [took EXCEPT ![o] = [l \in Listings |-> took[o][l] - tx[o].moved[l]]]
    BY <2>1 DEF Commits
  <2>4. QED
    BY <2>1, <2>2, <2>3
<1>4. tx' \in [Orders -> TxRecords]
  BY ClosedIsTyped DEF Commits, LinesInv, TypeOK, TxRecords
<1>5. failures' \in 0 .. MaxFailures
  BY DEF LinesInv, TypeOK
<1>6. QED
  BY <1>2, <1>3, <1>4, <1>5, TypesByRowAfter

-----------------------------------------------------------------------------
LEMMA StepKeepsLines == LinesInv /\ [LinesNext]_vars => LinesInv'
<1> SUFFICES ASSUME LinesInv, [LinesNext]_vars PROVE LinesInv'
  OBVIOUS
<1> TypeOK
  BY DEF LinesInv
<1>t. tx \in [Orders -> TxRecords] /\ \A o \in Orders : tx[o] \in TxRecords
  BY TypesByRow
<1>1. CASE UNCHANGED vars
  BY <1>1 DEF vars, LinesInv, TypeOK, OneHolder, NeverOversold, Holds, Seen
<1>2. ASSUME NEW o \in Orders,
             \/ \E basket \in Baskets : PlaceOrder(o, basket) \/ AwardOrder(o, basket)
             \/ Capture(o) \/ Confirmed(o) \/ RejectUndrawn(o)
      PROVE  LinesInv'
  BY <1>2, RowsKeepTypes, IdleKeepsLines
<1>3. ASSUME NEW o \in Orders, BeginSale(o) PROVE LinesInv'
  <2> DEFINE first == IF DrawsDown(o) THEN 1 ELSE Len(order[o].items) + 1
  <2>1. first \in Nat \ {0}
    BY LinesAreSequences
  <2> DEFINE t == [tx[o] EXCEPT !.pc = "draw", !.line = first]
  <2>2. tx' = [tx EXCEPT ![o] = t]
    BY <1>3, <1>t, Zenon DEF BeginSale
  <2>3. UNCHANGED <<stock, order, due, took, failures>>
    BY <1>3 DEF BeginSale
  <2> HIDE DEF first
  <2>4. t \in TxRecords /\ t.moved = tx[o].moved
    BY <1>t, <2>1, TxRecordUpdates
  <2> HIDE DEF t
  <2>5. QED
    BY <2>2, <2>3, <2>4, PassKeepsLines
<1>4. ASSUME NEW o \in Orders, BeginRejection(o) PROVE LinesInv'
  <2> DEFINE t == [tx[o] EXCEPT !.pc = "restore"]
  <2>1. tx' = [tx EXCEPT ![o] = t]
    BY <1>4, <1>t, Zenon DEF BeginRejection
  <2>2. UNCHANGED <<stock, order, due, took, failures>>
    BY <1>4 DEF BeginRejection
  <2>3. t \in TxRecords /\ t.moved = tx[o].moved
    BY <1>t, TxRecordUpdates
  <2> HIDE DEF t
  <2>4. QED
    BY <2>1, <2>2, <2>3, PassKeepsLines
<1>5. ASSUME NEW o \in Orders, DrawLine(o) \/ RestoreLine(o) PROVE LinesInv'
  <2> DEFINE l == Line(o).listing
             n == Line(o).litres
             was == tx[o].moved[l]
  <2>1. UNCHANGED <<stock, order, due, took, failures>> /\ ~Done(o)
    BY <1>5 DEF DrawLine, RestoreLine
  <2>2. l \in Listings /\ n \in Nat
    BY <2>1, LineIsTyped
  <2>3. stock[l] \in Nat /\ was \in Int /\ stock[l] + was >= 0
    <3>1. stock[l] \in Nat /\ was \in Int
      BY <1>t, <2>2, TypesByRow DEF TxRecords
    <3>2. stock[l] + was >= 0
      BY <2>2 DEF LinesInv, NeverOversold, Seen
    <3>3. QED
      BY <3>1, <3>2
  <2> DEFINE next == tx[o].line + 1
  <2>a. next \in Nat \ {0}
    BY <1>t DEF TxRecords
  <2>b. PICK r \in TxRecords : r = tx[o]
    BY <1>t
  <2>4. CASE DrawLine(o) /\ Enough(o, l, n) /\ ~HeldByAnother(o, l)
             /\ tx' = [tx EXCEPT ![o].line = tx[o].line + 1, ![o].moved[l] = was - n]
    <3>1. stock[l] + (was - n) >= 0 /\ was - n \in Int
      BY <2>2, <2>3, <2>4 DEF Enough, Seen
    <3> DEFINE m == was - n
    <3> DEFINE t == Moves(r, next, l, m)
    <3>2. tx' = [tx EXCEPT ![o] = t]
      BY <1>t, <2>b, <2>4, Zenon DEF Moves
    <3> HIDE DEF l, n, was, m, next
    <3>3. m \in Int
      BY <3>1 DEF m
    <3>4. /\ t \in TxRecords
          /\ t.moved[l] = m
          /\ \A k \in Listings : k # l => t.moved[k] = r.moved[k]
      BY <2>2, <2>a, <3>3, MovedRecord
    <3> HIDE DEF t
    <3>5. /\ stock[l] + t.moved[l] >= 0 /\ ~HeldByAnother(o, l)
          /\ \A k \in Listings : k # l => t.moved[k] = tx[o].moved[k]
      BY <2>b, <2>4, <3>1, <3>4 DEF m
    <3>6. UNCHANGED <<stock, order, due, took, failures>>
      BY <2>1
    <3>7. QED
      BY <2>2, <3>2, <3>4, <3>5, <3>6, MoveKeepsLines, ZenonT(30)
  <2>5. CASE DrawLine(o) /\ tx' = [tx EXCEPT ![o].line = tx[o].line + 1, ![o].short = TRUE]
    <3> DEFINE t == [tx[o] EXCEPT !.line = next, !.short = TRUE]
    <3>1. tx' = [tx EXCEPT ![o] = t]
      BY <2>5, <1>t, Zenon
    <3> HIDE DEF next
    <3>2. t \in TxRecords /\ t.moved = tx[o].moved
      BY <1>t, <2>a, TxRecordUpdates
    <3> HIDE DEF t
    <3>3. QED
      BY <2>1, <3>1, <3>2, PassKeepsLines
  <2>6. CASE RestoreLine(o) /\ ~HeldByAnother(o, l)
             /\ tx' = [tx EXCEPT ![o].line = tx[o].line + 1, ![o].moved[l] = was + n]
    <3>1. stock[l] + (was + n) >= 0 /\ was + n \in Int
      BY <2>2, <2>3
    <3> DEFINE m == was + n
    <3> DEFINE t == Moves(r, next, l, m)
    <3>2. tx' = [tx EXCEPT ![o] = t]
      BY <1>t, <2>b, <2>6, Zenon DEF Moves
    <3> HIDE DEF l, n, was, m, next
    <3>3. m \in Int
      BY <3>1 DEF m
    <3>4. /\ t \in TxRecords
          /\ t.moved[l] = m
          /\ \A k \in Listings : k # l => t.moved[k] = r.moved[k]
      BY <2>2, <2>a, <3>3, MovedRecord
    <3> HIDE DEF t
    <3>5. /\ stock[l] + t.moved[l] >= 0 /\ ~HeldByAnother(o, l)
          /\ \A k \in Listings : k # l => t.moved[k] = tx[o].moved[k]
      BY <2>b, <2>6, <3>1, <3>4 DEF m
    <3>6. UNCHANGED <<stock, order, due, took, failures>>
      BY <2>1
    <3>7. QED
      BY <2>2, <3>2, <3>4, <3>5, <3>6, MoveKeepsLines, ZenonT(30)
  <2>7. QED
    BY <1>5, <2>4, <2>5, <2>6, Zenon DEF DrawLine, RestoreLine
<1>6. ASSUME NEW o \in Orders, CommitSale(o) \/ CommitRejection(o) PROVE LinesInv'
  <2>1. Commits(o) /\ failures' = failures /\ due' \subseteq Orders
    BY <1>6 DEF CommitSale, CommitRejection, TypeOK
  <2>2. order' \in [Orders -> OrderRecords]
    <3>1. order \in [Orders -> OrderRecords] /\ order[o] \in OrderRecords
      BY TypesByRow
    <3>2. PICK status \in Statuses, flag \in BOOLEAN :
            order' = [order EXCEPT ![o].status = status, ![o].deducted = flag]
      BY <1>6 DEF CommitSale, CommitRejection, DeductedAfter, Statuses
    <3> DEFINE r == [order[o] EXCEPT !.status = status, !.deducted = flag]
    <3>3. r \in OrderRecords
      BY <3>1, OrderRecordUpdates
    <3>4. order' = [order EXCEPT ![o] = r]
      BY <3>1, <3>2, Zenon
    <3> HIDE DEF r
    <3>5. QED
      BY <3>1, <3>3, <3>4
  <2>3. TypeOK'
    BY <2>1, <2>2, CommitKeepsTypes
  <2>4. /\ tx' = [tx EXCEPT ![o] = Closed]
        /\ \A l \in Listings : stock'[l] = Seen(o, l)
    BY <2>1 DEF Commits
  <2>5. QED
    BY <2>3, <2>4, EndKeepsLines
<1>7. ASSUME NEW o \in Orders, DeadlockVictim(o) \/ Fail(o) PROVE LinesInv'
  <2>1. /\ tx' = [tx EXCEPT ![o] = Closed]
        /\ UNCHANGED <<stock, order, took>>
        /\ due' = due
        /\ failures' \in 0 .. MaxFailures
    BY <1>7 DEF DeadlockVictim, Fail, RolledBack, DueAfterError, TypeOK
  <2>2. TypeOK'
    BY <2>1, ClosedIsTyped, TxKeepsTypes DEF TypeOK
  <2>3. QED
    BY <2>1, <2>2, EndKeepsLines
<1>8. ASSUME NEW l \in Listings, NEW figure \in Levels, SetFigure(l, figure)
      PROVE  LinesInv'
  <2>1. /\ stock' = [stock EXCEPT ![l] = figure]
        /\ UNCHANGED <<order, due, tx, took, failures>>
        /\ \A o \in Orders : tx[o].moved[l] = 0
    BY <1>8 DEF SetFigure, TypeIn, Holds
  <2>2. figure \in Nat
    OBVIOUS
  <2>3. TypeOK'
    BY <2>1, <2>2 DEF TypeOK
  <2>4. OneHolder'
    BY <2>1 DEF LinesInv, OneHolder, Holds
  <2>5. NeverOversold'
    <3> SUFFICES ASSUME NEW o \in Orders, NEW k \in Listings
                 PROVE  stock'[k] >= 0 /\ stock'[k] + tx[o].moved[k] >= 0
      BY <2>1 DEF NeverOversold, Seen
    <3>1. stock[k] >= 0 /\ stock[k] + tx[o].moved[k] >= 0
      BY DEF LinesInv, NeverOversold, Seen
    <3>2. QED
      BY <2>1, <2>2, <3>1 DEF TypeOK
  <2>6. QED
    BY <2>3, <2>4, <2>5 DEF LinesInv
<1>9. QED
  BY <1>1, <1>2, <1>3, <1>4, <1>5, <1>6, <1>7, <1>8 DEF LinesNext

(* Rows of a listing are held by one transaction at a time (the locks PostgreSQL keeps
   from a row's UPDATE to the end, payments.service.ts:283). *)
THEOREM RowsHaveOneHolder == LinesSpec => []LinesInv
<1>1. QED
  BY InitLines, StepKeepsLines, PTL DEF LinesSpec

(* No confirmed order, nor one that is being confirmed, takes a listing below zero,
   whatever orders compete, wait, deadlock, fail or are retried
   (payments.service.ts:279). *)
THEOREM NothingIsOversold == LinesSpec => []NeverOversold
<1>1. LinesInv => NeverOversold
  BY DEF LinesInv
<1>2. QED
  BY <1>1, RowsHaveOneHolder, PTL

-----------------------------------------------------------------------------
(* Adding up: what a running sum over the lines of an order is *)

(* Induction, in the form of a set of numbers that leaves none out. *)
LEMMA CountingUp ==
  ASSUME NEW S, 0 \in S, \A n \in Nat : n \in S => n + 1 \in S
  PROVE  Nat \subseteq S
<1> DEFINE missing == Nat \ S
<1> SUFFICES ASSUME missing # {} PROVE FALSE
  OBVIOUS
<1>1. PICK n \in missing : \A m \in missing : <<m, n>> \notin OpToRel(<, Nat)
  BY NatLessThanWellFounded, WFMin
<1>2. n # 0 /\ n - 1 \in Nat
  OBVIOUS
<1>3. <<n - 1, n>> \in OpToRel(<, Nat)
  BY <1>2 DEF OpToRel
<1>4. n - 1 \notin missing
  BY <1>1, <1>3
<1> QED  BY <1>2, <1>4

Sums(w, g) == g = [n \in 0 .. Len(w) |-> IF n = 0 THEN 0 ELSE g[n - 1] + w[n]]

(* There is such a function: the sums of the first m numbers extend to m + 1. *)
LEMMA SumsExist ==
  ASSUME NEW w \in Seq(Int)
  PROVE  \E g : Sums(w, g)
<1> DEFINE Good(m) == {g \in [0 .. m -> Int] :
                         g[0] = 0 /\ \A n \in 1 .. m : g[n] = g[n - 1] + w[n]}
           S == {m \in Nat : m <= Len(w) => Good(m) # {}}
<1>1. 0 \in S
  <2>1. [n \in 0 .. 0 |-> 0] \in Good(0)
    OBVIOUS
  <2> QED  BY <2>1
<1>2. ASSUME NEW m \in Nat, Good(m) # {}, m + 1 <= Len(w) PROVE Good(m + 1) # {}
  <2>1. Good(m) # {}
    BY <1>2
  <2>2. PICK g \in [0 .. m -> Int] : g[0] = 0 /\ \A n \in 1 .. m : g[n] = g[n - 1] + w[n]
    BY <2>1
  <2> DEFINE h == [n \in 0 .. m + 1 |-> IF n = m + 1 THEN g[m] + w[m + 1] ELSE g[n]]
  <2>3. w[m + 1] \in Int
    BY <1>2
  <2>4. h \in [0 .. m + 1 -> Int]
    BY <2>2, <2>3
  <2>5. h[0] = 0
    BY <2>2
  <2>6. \A n \in 1 .. m + 1 : h[n] = h[n - 1] + w[n]
    <3> TAKE n \in 1 .. m + 1
    <3>1. CASE n = m + 1
      BY <2>2, <3>1
    <3>2. CASE n \in 1 .. m
      BY <2>2, <3>2
    <3> QED  BY <3>1, <3>2
  <2> QED  BY <2>4, <2>5, <2>6
<1>3. Nat \subseteq S
  <2>1. ASSUME NEW m \in Nat, m \in S PROVE m + 1 \in S
    <3> HIDE DEF Good
    <3> QED  BY <1>2, <2>1
  <2> HIDE DEF S
  <2> QED  BY <1>1, <2>1, CountingUp
<1>4. Good(Len(w)) # {}
  <2>1. Len(w) \in Nat
    OBVIOUS
  <2> HIDE DEF Good
  <2> QED  BY <1>3, <2>1
<1>5. PICK g \in [0 .. Len(w) -> Int] :
        g[0] = 0 /\ \A n \in 1 .. Len(w) : g[n] = g[n - 1] + w[n]
  BY <1>4
<1>6. Sums(w, g)
  BY <1>5 DEF Sums
<1> HIDE DEF Good
<1> QED  BY <1>6

LEMMA RunningStep ==
  ASSUME NEW w \in Seq(Int)
  PROVE  /\ Running(w)[0] = 0
         /\ \A n \in 1 .. Len(w) : Running(w)[n] = Running(w)[n - 1] + w[n]
         /\ \A n \in 0 .. Len(w) : Running(w)[n] \in Int
<1>1. Running(w) = CHOOSE g : Sums(w, g)
  BY DEF Running, Sums
<1>2. Sums(w, CHOOSE g : Sums(w, g))
  BY SumsExist
<1>3. ASSUME NEW g, Sums(w, g)
      PROVE  g[0] = 0 /\ \A n \in 1 .. Len(w) : g[n] = g[n - 1] + w[n]
  <2>1. \A n \in 0 .. Len(w) : g[n] = IF n = 0 THEN 0 ELSE g[n - 1] + w[n]
    BY <1>3, Zenon DEF Sums
  <2>2. Len(w) \in Nat
    OBVIOUS
  <2> QED  BY <2>1, <2>2
<1>4. /\ Running(w)[0] = 0
      /\ \A n \in 1 .. Len(w) : Running(w)[n] = Running(w)[n - 1] + w[n]
  BY <1>1, <1>2, <1>3
<1> DEFINE S == {n \in Nat : n <= Len(w) => Running(w)[n] \in Int}
<1>5. 0 \in S
  BY <1>4
<1>6. ASSUME NEW n \in Nat, n \in S PROVE n + 1 \in S
  <2> SUFFICES ASSUME n + 1 <= Len(w) PROVE Running(w)[n + 1] \in Int
    OBVIOUS
  <2>1. Running(w)[n] \in Int /\ w[n + 1] \in Int
    BY <1>6
  <2>2. Running(w)[n + 1] = Running(w)[n] + w[n + 1]
    BY <1>4
  <2> QED  BY <2>1, <2>2
<1>7. Nat \subseteq S
  <2> HIDE DEF S
  <2> QED  BY <1>5, <1>6, CountingUp
<1> QED  BY <1>4, <1>7

LEMMA SharesTyped ==
  ASSUME NEW items \in Seq(Lines), NEW lines, NEW l
  PROVE  /\ Shares(items, lines, l) \in Seq(Int)
         /\ Len(Shares(items, lines, l)) = Len(items)
         /\ \A i \in 1 .. Len(items) :
              Shares(items, lines, l)[i] =
                IF i \in lines /\ items[i].listing = l THEN items[i].litres ELSE 0
<1>1. \A i \in 1 .. Len(items) : items[i] \in Lines
  OBVIOUS
<1>2. \A i \in 1 .. Len(items) : items[i].litres \in Int
  <2>1. \A line \in Lines : line.litres \in Int
    BY DEF Lines
  <2> QED  BY <1>1, <2>1
<1>3. Len(items) \in Nat
  OBVIOUS
<1>4. Shares(items, lines, l) \in [1 .. Len(items) -> Int]
  BY <1>2 DEF Shares
<1>5. Shares(items, lines, l) \in Seq(Int) /\ Len(Shares(items, lines, l)) = Len(items)
  BY <1>3, <1>4
<1> QED  BY <1>5 DEF Shares

LEMMA LitresTyped ==
  ASSUME NEW items \in Seq(Lines), NEW lines, NEW l
  PROVE  Litres(items, lines, l) \in Int
<1> DEFINE w == Shares(items, lines, l)
<1>1. w \in Seq(Int) /\ Len(w) = Len(items) /\ Len(items) \in 0 .. Len(items)
  BY SharesTyped
<1> HIDE DEF w
<1>2. Running(w)[Len(items)] \in Int
  BY <1>1, RunningStep
<1> QED  BY <1>2 DEF Litres, w

(* No lines, no litres. *)
LEMMA NoLitres ==
  ASSUME NEW items \in Seq(Lines), NEW l
  PROVE  Litres(items, {}, l) = 0
<1> DEFINE w == Shares(items, {}, l)
           S == {n \in Nat : n <= Len(items) => Running(w)[n] = 0}
<1>1. w \in Seq(Int) /\ Len(w) = Len(items) /\ \A i \in 1 .. Len(items) : w[i] = 0
  BY SharesTyped
<1> HIDE DEF w
<1>2. Running(w)[0] = 0 /\ \A n \in 1 .. Len(items) : Running(w)[n] = Running(w)[n - 1] + w[n]
  BY <1>1, RunningStep
<1>3. 0 \in S
  BY <1>2
<1>4. ASSUME NEW n \in Nat, n \in S PROVE n + 1 \in S
  <2> SUFFICES ASSUME n + 1 <= Len(items) PROVE Running(w)[n + 1] = 0
    OBVIOUS
  <2>1. Running(w)[n] = 0 /\ w[n + 1] = 0
    BY <1>1, <1>4
  <2>2. Running(w)[n + 1] = Running(w)[n] + w[n + 1]
    BY <1>2
  <2> QED  BY <2>1, <2>2
<1>5. Nat \subseteq S
  <2> HIDE DEF S
  <2> QED  BY <1>3, <1>4, CountingUp
<1>6. Len(items) \in Nat
  OBVIOUS
<1> QED  BY <1>5, <1>6 DEF Litres, w

\* what one line adds to a listing
Part(items, k, l) == IF items[k].listing = l THEN items[k].litres ELSE 0

LEMMA PartTyped ==
  ASSUME NEW items \in Seq(Lines), NEW k \in 1 .. Len(items), NEW l
  PROVE  Part(items, k, l) \in Int
<1>1. items[k] \in Lines
  OBVIOUS
<1>2. items[k].litres \in Int
  BY <1>1 DEF Lines
<1> QED  BY <1>2 DEF Part

(* A line that is not counted yet adds its litres to its listing, and nothing to the
   others, wherever in the order it stands. *)
LEMMA OneMoreLine ==
  ASSUME NEW items \in Seq(Lines), NEW lines, NEW l,
         NEW k \in 1 .. Len(items), k \notin lines
  PROVE  Litres(items, lines \cup {k}, l) =
           Litres(items, lines, l) + Part(items, k, l)
<1> DEFINE v == Shares(items, lines, l)
           w == Shares(items, lines \cup {k}, l)
           more == Part(items, k, l)
           S == {n \in Nat : n <= Len(items) =>
                   Running(w)[n] = Running(v)[n] + IF n < k THEN 0 ELSE more}
<1>1. /\ v \in Seq(Int) /\ Len(v) = Len(items)
      /\ w \in Seq(Int) /\ Len(w) = Len(items)
      /\ v[k] = 0 /\ w[k] = more
      /\ \A i \in 1 .. Len(items) : i # k => w[i] = v[i]
  <2>1. /\ v \in Seq(Int) /\ Len(v) = Len(items)
        /\ w \in Seq(Int) /\ Len(w) = Len(items)
    BY SharesTyped
  <2>2. \A i \in 1 .. Len(items) :
          /\ v[i] = IF i \in lines /\ items[i].listing = l THEN items[i].litres ELSE 0
          /\ w[i] = IF i \in lines \cup {k} /\ items[i].listing = l
                    THEN items[i].litres ELSE 0
    BY SharesTyped
  <2> HIDE DEF v, w
  <2> QED  BY <2>1, <2>2 DEF Part
<1>2. more \in Int
  BY PartTyped
<1> HIDE DEF v, w, more
<1>3. /\ Running(v)[0] = 0 /\ Running(w)[0] = 0
      /\ \A n \in 1 .. Len(items) :
           /\ Running(v)[n] = Running(v)[n - 1] + v[n]
           /\ Running(w)[n] = Running(w)[n - 1] + w[n]
      /\ \A n \in 0 .. Len(items) : Running(v)[n] \in Int
  BY <1>1, RunningStep
<1>4. 0 \in S
  <2>1. 0 < k
    OBVIOUS
  <2>2. (IF 0 < k THEN 0 ELSE more) = 0
    BY <2>1
  <2>3. Running(w)[0] = 0 /\ Running(v)[0] = 0
    BY <1>3
  <2> QED  BY <2>2, <2>3
<1>5. ASSUME NEW n \in Nat, n \in S PROVE n + 1 \in S
  <2> SUFFICES ASSUME n + 1 <= Len(items)
               PROVE  Running(w)[n + 1] = Running(v)[n + 1] + IF n + 1 < k THEN 0 ELSE more
    OBVIOUS
  <2>1. Running(w)[n] = Running(v)[n] + IF n < k THEN 0 ELSE more
    BY <1>5
  <2>2. /\ Running(w)[n + 1] = Running(w)[n] + w[n + 1]
        /\ Running(v)[n + 1] = Running(v)[n] + v[n + 1]
        /\ Running(v)[n] \in Int
    BY <1>3
  <2>3. CASE n + 1 = k
    BY <1>1, <1>2, <2>1, <2>2, <2>3
  <2>4. CASE n + 1 # k
    <3>1. w[n + 1] = v[n + 1] /\ v[n + 1] \in Int
      BY <1>1, <2>4
    <3> QED  BY <1>2, <2>1, <2>2, <2>4, <3>1
  <2> QED  BY <2>3, <2>4
<1>6. Nat \subseteq S
  <2> HIDE DEF S
  <2> QED  BY <1>4, <1>5, CountingUp
<1>7. Running(w)[Len(items)] = Running(v)[Len(items)] + more
  <2>1. Len(items) \in Nat /\ ~(Len(items) < k)
    OBVIOUS
  <2> QED  BY <1>6, <2>1
<1> QED  BY <1>7 DEF Litres, v, w, more

-----------------------------------------------------------------------------
(* What transactions have moved, in litres. An order's row, its transaction and its
   history are taken as they come: r, t and k. *)

\* a sale has taken some of the lines it has come to, and is short of the others
Drawn(r, t) ==
  \E lines \in SUBSET (1 .. t.line - 1) :
    /\ \A l \in Listings : t.moved[l] = - Litres(r.items, lines, l)
    /\ t.short <=> lines # 1 .. t.line - 1

\* a rejection has put back all of them
PutBack(r, t) ==
  \A l \in Listings : t.moved[l] = Litres(r.items, 1 .. t.line - 1, l)

AllOf(r) == [l \in Listings |-> Litres(r.items, DOMAIN r.items, l)]

Balanced(r, t, k) ==
  /\ t.pc = "closed" => t = Closed
  /\ t.pc # "closed" => t.line <= Len(r.items) + 1
  /\ t.pc = "draw" =>
       /\ r.status = "PENDING"
       /\ r.source = "CATALOGUE" => Drawn(r, t)
       /\ r.source # "CATALOGUE" =>
            t.line > Len(r.items) /\ ~t.short /\ \A l \in Listings : t.moved[l] = 0
  /\ t.pc = "restore" =>
       r.status = "AWAITING_CONFIRMATION" /\ r.deducted /\ PutBack(r, t)
  /\ r.status \in {"NONE", "PENDING"} => ~r.deducted /\ k = Nothing
  /\ r.deducted => k = IF r.source = "CATALOGUE" THEN AllOf(r) ELSE Nothing

Ledger(o) == Balanced(order[o], tx[o], took[o])

LedgerInv == LinesInv /\ \A o \in Orders : Ledger(o)

LEMMA AddedToBoth ==
  ASSUME NEW S, NEW T, S \subseteq T, NEW m, m \notin T
  PROVE  S \cup {m} = T \cup {m} <=> S = T
OBVIOUS

LEMMA OneMoreDrawn ==
  ASSUME NEW items \in Seq(Lines), NEW r, r.items = items,
         NEW m \in 1 .. Len(items),
         NEW t, t.line = m, Drawn(r, t),
         NEW u, u.line = m + 1, u.short = t.short,
         \A l \in Listings : u.moved[l] = t.moved[l] - Part(items, m, l)
  PROVE  Drawn(r, u)
<1>1. PICK lines \in SUBSET (1 .. m - 1) :
        /\ \A l \in Listings : t.moved[l] = - Litres(items, lines, l)
        /\ t.short <=> lines # 1 .. m - 1
  BY DEF Drawn
<1>2. m \notin lines
  OBVIOUS
<1>3. ASSUME NEW l \in Listings
      PROVE  u.moved[l] = - Litres(items, lines \cup {m}, l)
  <2>1. Litres(items, lines \cup {m}, l) = Litres(items, lines, l) + Part(items, m, l)
    BY <1>2, OneMoreLine
  <2>2. Litres(items, lines, l) \in Int /\ Part(items, m, l) \in Int
    BY LitresTyped, PartTyped
  <2>3. u.moved[l] = t.moved[l] - Part(items, m, l) /\ t.moved[l] = - Litres(items, lines, l)
    BY <1>1
  <2> QED  BY <2>1, <2>2, <2>3
<1>4. (m + 1) - 1 = m /\ 1 .. m = (1 .. m - 1) \cup {m} /\ m \notin 1 .. m - 1
  OBVIOUS
<1>5. lines \cup {m} \in SUBSET (1 .. u.line - 1)
  BY <1>4
<1>6. u.short <=> lines \cup {m} # 1 .. u.line - 1
  <2>1. PICK before : before = 1 .. m - 1
    OBVIOUS
  <2>2. lines \cup {m} = before \cup {m} <=> lines = before
    <3>1. lines \subseteq before /\ m \notin before
      BY <1>4, <2>1
    <3> QED  BY <3>1, AddedToBoth
  <2>3. 1 .. u.line - 1 = before \cup {m}
    BY <1>4, <2>1
  <2>4. t.short <=> lines # before
    BY <1>1, <2>1
  <2> QED  BY <2>2, <2>3, <2>4
<1> PICK all : all = lines \cup {m}
  OBVIOUS
<1>7. /\ all \in SUBSET (1 .. u.line - 1)
      /\ \A l \in Listings : u.moved[l] = - Litres(items, all, l)
      /\ u.short <=> all # 1 .. u.line - 1
  BY <1>3, <1>5, <1>6
<1> QED  BY <1>7 DEF Drawn

LEMMA OneMoreShort ==
  ASSUME NEW r, NEW m \in Nat \ {0},
         NEW t, t.line = m, Drawn(r, t),
         NEW u, u.line = m + 1, u.short, u.moved = t.moved
  PROVE  Drawn(r, u)
<1>1. PICK lines \in SUBSET (1 .. m - 1) :
        \A l \in Listings : t.moved[l] = - Litres(r.items, lines, l)
  BY DEF Drawn
<1>2. lines \in SUBSET (1 .. u.line - 1) /\ m \notin lines /\ m \in 1 .. u.line - 1
  OBVIOUS
<1> QED  BY <1>1, <1>2 DEF Drawn

LEMMA OneMorePutBack ==
  ASSUME NEW items \in Seq(Lines), NEW r, r.items = items,
         NEW m \in 1 .. Len(items),
         NEW t, t.line = m, PutBack(r, t),
         NEW u, u.line = m + 1,
         \A l \in Listings : u.moved[l] = t.moved[l] + Part(items, m, l)
  PROVE  PutBack(r, u)
<1>1. PICK lines : lines = 1 .. m - 1
  OBVIOUS
<1>2. m \notin lines /\ lines \cup {m} = 1 .. u.line - 1
  BY <1>1
<1>3. ASSUME NEW l \in Listings
      PROVE  u.moved[l] = Litres(items, lines \cup {m}, l)
  <2>1. Litres(items, lines \cup {m}, l) = Litres(items, lines, l) + Part(items, m, l)
    BY <1>2, OneMoreLine
  <2>2. u.moved[l] = t.moved[l] + Part(items, m, l)
    OBVIOUS
  <2>3. t.moved[l] = Litres(items, lines, l)
    BY <1>1 DEF PutBack
  <2> QED  BY <2>1, <2>2, <2>3
<1> QED  BY <1>2, <1>3 DEF PutBack

\* without a transaction there is only what the order says
LEMMA ClosedBalances ==
  ASSUME NEW r, NEW k,
         r.status \in {"NONE", "PENDING"} => ~r.deducted /\ k = Nothing,
         r.deducted => k = IF r.source = "CATALOGUE" THEN AllOf(r) ELSE Nothing
  PROVE  Balanced(r, Closed, k)
<1>1. Closed.pc = "closed"
  BY DEF Closed
<1> QED  BY <1>1 DEF Balanced

LEMMA BalancedIsClosed ==
  ASSUME NEW r, NEW t \in TxRecords, NEW k, Balanced(r, t, k),
         \/ t.pc = "closed"
         \/ r.status \notin {"PENDING", "AWAITING_CONFIRMATION"}
  PROVE  t = Closed
BY DEF Balanced, TxRecords

\* the other orders' rows, transactions and histories are not touched
LEMMA OthersKeepTheirs ==
  ASSUME LedgerInv, LinesInv', NEW o \in Orders, Ledger(o)',
         \A p \in Orders : p # o => /\ order'[p] = order[p]
                                    /\ tx'[p] = tx[p]
                                    /\ took'[p] = took[p]
  PROVE  LedgerInv'
<1>1. ASSUME NEW p \in Orders PROVE Ledger(p)'
  <2>1. CASE p = o
    BY <2>1
  <2>2. CASE p # o
    <3>1. Balanced(order[p], tx[p], took[p])
      BY DEF LedgerInv, Ledger
    <3>2. order'[p] = order[p] /\ tx'[p] = tx[p] /\ took'[p] = took[p]
      BY <2>2
    <3> QED  BY <3>1, <3>2 DEF Ledger
  <2> QED  BY <2>1, <2>2
<1> QED  BY <1>1 DEF LedgerInv

LEMMA RowsKeepLedger ==
  ASSUME LedgerInv, NEW o \in Orders,
         \/ \E basket \in Baskets : PlaceOrder(o, basket) \/ AwardOrder(o, basket)
         \/ Capture(o) \/ Confirmed(o) \/ RejectUndrawn(o)
  PROVE  LedgerInv'
<1>1. /\ LinesInv /\ TypeOK /\ order \in [Orders -> OrderRecords]
      /\ order[o] \in OrderRecords /\ tx[o] \in TxRecords
  BY TypesByRow DEF LedgerInv, LinesInv
<1>2. LinesInv' /\ tx' = tx
  BY <1>1, RowsKeepTypes, IdleKeepsLines
<1>3. Balanced(order[o], tx[o], took[o])
  BY DEF LedgerInv, Ledger
<1>t. took[o] \in [Listings -> Int]
  BY <1>1 DEF TypeOK
<1>4. PICK r \in OrderRecords, t \in TxRecords, k \in [Listings -> Int] :
        r = order[o] /\ t = tx[o] /\ k = took[o] /\ Balanced(r, t, k)
  BY <1>1, <1>3, <1>t
<1>5. ASSUME NEW u, order' = [order EXCEPT ![o] = u], took' = took,
             Balanced(u, Closed, k), t = Closed
      PROVE  LedgerInv'
  <2>1. order'[o] = u /\ tx'[o] = Closed /\ took'[o] = k
    BY <1>1, <1>2, <1>4, <1>5
  <2>2. Ledger(o)'
    BY <1>5, <2>1 DEF Ledger
  <2>3. \A p \in Orders : p # o => order'[p] = order[p]
    BY <1>1, <1>5
  <2> QED  BY <1>2, <1>5, <2>2, <2>3, OthersKeepTheirs
<1>6. CASE \E basket \in Baskets : PlaceOrder(o, basket) \/ AwardOrder(o, basket)
  <2>1. PICK source \in Sources, basket \in Baskets : Place(o, source, basket)
    BY <1>6 DEF PlaceOrder, AwardOrder, Sources
  <2>2. took' = took
    BY <1>6 DEF PlaceOrder, AwardOrder
  <2> DEFINE u == [r EXCEPT !.status = "PENDING", !.source = source, !.items = basket]
  <2>3. order' = [order EXCEPT ![o] = u]
    BY <2>1, <1>1, <1>4, Zenon DEF Place
  <2>4. r.status = "NONE"
    BY <2>1, <1>4 DEF Place
  <2>5. ~r.deducted /\ k = Nothing /\ t = Closed
    BY <1>4, <2>4, BalancedIsClosed DEF Balanced
  <2>6. u.deducted = r.deducted
    BY DEF OrderRecords
  <2> HIDE DEF u
  <2>7. Balanced(u, Closed, k)
    BY <2>5, <2>6, ClosedBalances
  <2> QED  BY <1>5, <2>2, <2>3, <2>5, <2>7
<1>7. CASE Capture(o)
  BY <1>2, <1>7 DEF Capture, LedgerInv, Ledger
<1>8. CASE Confirmed(o)
  <2> DEFINE u == [r EXCEPT !.status = "CONFIRMED"]
  <2>1. order' = [order EXCEPT ![o] = u] /\ took' = took /\ t.pc = "closed"
    BY <1>8, <1>1, <1>4, Zenon DEF Confirmed, Confirm
  <2>2. t = Closed
    BY <1>4, <2>1, BalancedIsClosed
  <2>3. /\ u.status = "CONFIRMED" /\ u.deducted = r.deducted
        /\ u.source = r.source /\ u.items = r.items
    BY DEF OrderRecords
  <2> HIDE DEF u
  <2>4. r.deducted => k = IF r.source = "CATALOGUE" THEN AllOf(r) ELSE Nothing
    BY <1>4 DEF Balanced
  <2>5. AllOf(u) = AllOf(r)
    BY <2>3 DEF AllOf
  <2>6. Balanced(u, Closed, k)
    BY <2>3, <2>4, <2>5, ClosedBalances
  <2> QED  BY <1>5, <2>1, <2>2, <2>6
<1>9. CASE RejectUndrawn(o)
  <2> DEFINE u == [r EXCEPT !.status = "REJECTED", !.deducted = FALSE]
  <2>1. order' = [order EXCEPT ![o] = u] /\ took' = took /\ t.pc = "closed"
    BY <1>9, <1>1, <1>4, Zenon DEF RejectUndrawn, Reject
  <2>2. t = Closed
    BY <1>4, <2>1, BalancedIsClosed
  <2>3. u.status = "REJECTED" /\ u.deducted = FALSE
    BY DEF OrderRecords
  <2> HIDE DEF u
  <2>4. Balanced(u, Closed, k)
    BY <2>3, ClosedBalances
  <2> QED  BY <1>5, <2>1, <2>2, <2>4
<1> QED  BY <1>6, <1>7, <1>8, <1>9

\* where only a transaction has got further, or has come to nothing
LEMMA TxKeepsLedger ==
  ASSUME LedgerInv, LinesInv', NEW o \in Orders, NEW t, tx' = [tx EXCEPT ![o] = t],
         UNCHANGED <<order, took>>, Balanced(order[o], t, took[o])
  PROVE  LedgerInv'
<1>1. tx \in [Orders -> TxRecords]
  BY TypesByRow DEF LedgerInv, LinesInv
<1>2. tx'[o] = t /\ \A p \in Orders : p # o => tx'[p] = tx[p]
  BY <1>1
<1>3. Ledger(o)'
  BY <1>2 DEF Ledger
<1> QED  BY <1>2, <1>3, OthersKeepTheirs

LEMMA RollbackKeepsLedger ==
  ASSUME LedgerInv, NEW o \in Orders, DeadlockVictim(o) \/ Fail(o), LinesInv'
  PROVE  LedgerInv'
<1>1. tx' = [tx EXCEPT ![o] = Closed] /\ UNCHANGED <<order, took>>
  BY DEF DeadlockVictim, Fail, RolledBack
<1>2. Balanced(order[o], tx[o], took[o])
  BY DEF LedgerInv, Ledger
<1>3. Balanced(order[o], Closed, took[o])
  BY <1>2, ClosedBalances DEF Balanced
<1> QED  BY <1>1, <1>3, TxKeepsLedger

\* a sale that has begun has come to its first line, or has none to take
LEMMA BegunIsBalanced ==
  ASSUME NEW r, r.items \in Seq(Lines), NEW k, Balanced(r, Closed, k),
         r.status = "PENDING", NEW u,
         u.pc = "draw", u.moved = Nothing, u.short = FALSE,
         u.line = IF r.source = "CATALOGUE" THEN 1 ELSE Len(r.items) + 1
  PROVE  Balanced(r, u, k)
<1>1. Len(r.items) \in Nat
  OBVIOUS
<1>2. ASSUME r.source = "CATALOGUE" PROVE Drawn(r, u)
  <2>1. u.line - 1 = 0 /\ 1 .. 0 = {}
    BY <1>2
  <2>2. \A l \in Listings : u.moved[l] = 0 /\ Litres(r.items, {}, l) = 0
    BY NoLitres DEF Nothing
  <2>3. \A l \in Listings : u.moved[l] = - Litres(r.items, {}, l)
    BY <2>2
  <2> QED  BY <2>1, <2>3 DEF Drawn
<1>3. \A l \in Listings : u.moved[l] = 0
  BY DEF Nothing
<1>4. u.line <= Len(r.items) + 1 /\ (r.source # "CATALOGUE" => u.line > Len(r.items))
  BY <1>1
<1>5. /\ r.status \in {"NONE", "PENDING"} => ~r.deducted /\ k = Nothing
      /\ r.deducted => k = IF r.source = "CATALOGUE" THEN AllOf(r) ELSE Nothing
  BY DEF Balanced
<1> QED  BY <1>2, <1>3, <1>4, <1>5 DEF Balanced

LEMMA BeginSaleKeepsLedger ==
  ASSUME LedgerInv, NEW o \in Orders, BeginSale(o), LinesInv'
  PROVE  LedgerInv'
<1>1. /\ LinesInv /\ TypeOK /\ order[o].items \in Seq(Lines)
      /\ tx \in [Orders -> TxRecords] /\ tx[o] \in TxRecords
  BY TypesByRow, LinesAreSequences DEF LedgerInv, LinesInv
<1>2. Balanced(order[o], tx[o], took[o])
  BY DEF LedgerInv, Ledger
<1>3. tx[o] = Closed /\ order[o].status = "PENDING"
  BY <1>1, <1>2, BalancedIsClosed DEF BeginSale
<1> DEFINE first == IF order[o].source = "CATALOGUE" THEN 1 ELSE Len(order[o].items) + 1
           u == [tx[o] EXCEPT !.pc = "draw", !.line = first]
<1>4. tx' = [tx EXCEPT ![o] = u] /\ UNCHANGED <<order, took>>
  BY <1>1, Zenon DEF BeginSale, DrawsDown
<1>5. u.pc = "draw" /\ u.moved = tx[o].moved /\ u.short = tx[o].short /\ u.line = first
  BY <1>1 DEF TxRecords
<1> HIDE DEF u
<1>6. u.moved = Nothing /\ u.short = FALSE
  BY <1>3, <1>5 DEF Closed
<1>7. Balanced(order[o], u, took[o])
  BY <1>1, <1>2, <1>3, <1>5, <1>6, BegunIsBalanced
<1> QED  BY <1>4, <1>7, TxKeepsLedger

LEMMA BeginRejectionKeepsLedger ==
  ASSUME LedgerInv, NEW o \in Orders, BeginRejection(o), LinesInv'
  PROVE  LedgerInv'
<1>1. /\ LinesInv /\ TypeOK /\ order[o].items \in Seq(Lines)
      /\ tx \in [Orders -> TxRecords] /\ tx[o] \in TxRecords
  BY TypesByRow, LinesAreSequences DEF LedgerInv, LinesInv
<1>2. Balanced(order[o], tx[o], took[o])
  BY DEF LedgerInv, Ledger
<1>3. tx[o] = Closed /\ order[o].status = "AWAITING_CONFIRMATION" /\ order[o].deducted
  BY <1>1, <1>2, BalancedIsClosed DEF BeginRejection
<1> DEFINE u == [tx[o] EXCEPT !.pc = "restore"]
<1>4. tx' = [tx EXCEPT ![o] = u] /\ UNCHANGED <<order, took>>
  BY <1>1, Zenon DEF BeginRejection
<1>5. u.pc = "restore" /\ u.moved = tx[o].moved /\ u.line = tx[o].line
  BY <1>1 DEF TxRecords
<1> HIDE DEF u
<1>6. u.pc = "restore" /\ u.moved = Nothing /\ u.line = 1
  BY <1>3, <1>5 DEF Closed
<1>7. PutBack(order[o], u)
  <2>1. 1 .. u.line - 1 = {}
    BY <1>6
  <2>2. \A l \in Listings : u.moved[l] = 0 /\ Litres(order[o].items, {}, l) = 0
    BY <1>1, <1>6, NoLitres DEF Nothing
  <2> QED  BY <2>1, <2>2 DEF PutBack
<1>8. u.line <= Len(order[o].items) + 1
  BY <1>1, <1>6
<1>9. Balanced(order[o], u, took[o])
  BY <1>2, <1>3, <1>6, <1>7, <1>8 DEF Balanced
<1> QED  BY <1>4, <1>9, TxKeepsLedger

\* what a statement on a line makes of a transaction
LEMMA MovedFields ==
  ASSUME NEW r \in TxRecords, NEW n \in Nat \ {0}, NEW l \in Listings, NEW m \in Int
  PROVE  LET t == Moves(r, n, l, m)
         IN  t.line = n /\ t.pc = r.pc /\ t.short = r.short
BY DEF TxRecords, Moves

LEMMA ShortFields ==
  ASSUME NEW r \in TxRecords, NEW n \in Nat \ {0}
  PROVE  LET t == [r EXCEPT !.line = n, !.short = TRUE]
         IN  t.line = n /\ t.pc = r.pc /\ t.short = TRUE /\ t.moved = r.moved
BY DEF TxRecords

LEMMA DrawnOnIsBalanced ==
  ASSUME NEW items \in Seq(Lines), NEW r, r.items = items, NEW t, NEW k,
         Balanced(r, t, k), t.pc = "draw",
         NEW m \in 1 .. Len(items), t.line = m,
         NEW u, u.pc = "draw", u.line = m + 1, Drawn(r, t) => Drawn(r, u)
  PROVE  Balanced(r, u, k)
<1>1. r.source = "CATALOGUE"
  BY DEF Balanced
<1>2. Drawn(r, u)
  BY <1>1 DEF Balanced
<1>3. u.line <= Len(r.items) + 1
  OBVIOUS
<1> QED  BY <1>1, <1>2, <1>3 DEF Balanced

LEMMA PutOnIsBalanced ==
  ASSUME NEW items \in Seq(Lines), NEW r, r.items = items, NEW t, NEW k,
         Balanced(r, t, k), t.pc = "restore",
         NEW m \in 1 .. Len(items), t.line = m,
         NEW u, u.pc = "restore", u.line = m + 1, PutBack(r, t) => PutBack(r, u)
  PROVE  Balanced(r, u, k)
<1>1. u.line <= Len(r.items) + 1
  OBVIOUS
<1>2. PutBack(r, u)
  BY DEF Balanced
<1> QED  BY <1>1, <1>2 DEF Balanced

OnlyMoved(t, u, l, c) ==
  u.moved[l] = c /\ \A j \in Listings : j # l => u.moved[j] = t.moved[j]

LEMMA OnlyMoves ==
  ASSUME NEW t \in TxRecords, NEW n \in Nat \ {0}, NEW l \in Listings, NEW c \in Int
  PROVE  OnlyMoved(t, Moves(t, n, l, c), l, c)
BY MovedRecord DEF OnlyMoved

LEMMA TakenIsBalanced ==
  ASSUME NEW items \in Seq(Lines), NEW r, r.items = items, NEW t \in TxRecords, NEW k,
         Balanced(r, t, k), t.pc = "draw",
         NEW m \in 1 .. Len(items), t.line = m,
         NEW l \in Listings, l = items[m].listing,
         NEW n \in Nat, n = items[m].litres
  PROVE  Balanced(r, Moves(t, m + 1, l, t.moved[l] - n), k)
<1>1. PICK next \in Nat \ {0} : next = m + 1
  OBVIOUS
<1>2. t.moved[l] \in Int
  BY DEF TxRecords
<1>3. PICK c \in Int : c = t.moved[l] - n
  BY <1>2
<1> DEFINE u == Moves(t, next, l, c)
<1>4. u.line = next /\ u.pc = t.pc /\ u.short = t.short
  BY MovedFields
<1>5. u.moved[l] = c /\ \A j \in Listings : j # l => u.moved[j] = t.moved[j]
  BY OnlyMoves DEF OnlyMoved
<1>6. \A j \in Listings : t.moved[j] \in Int
  BY DEF TxRecords
<1> HIDE DEF u
<1>7. ASSUME NEW j \in Listings PROVE u.moved[j] = t.moved[j] - Part(items, m, j)
  BY <1>3, <1>5, <1>6 DEF Part
<1>8. Drawn(r, t) => Drawn(r, u)
  BY <1>1, <1>4, <1>7, OneMoreDrawn
<1>9. Balanced(r, u, k)
  BY <1>1, <1>4, <1>8, DrawnOnIsBalanced
<1> QED  BY <1>1, <1>3, <1>9 DEF u

LEMMA ShortIsBalanced ==
  ASSUME NEW items \in Seq(Lines), NEW r, r.items = items, NEW t \in TxRecords, NEW k,
         Balanced(r, t, k), t.pc = "draw",
         NEW m \in 1 .. Len(items), t.line = m
  PROVE  Balanced(r, [t EXCEPT !.line = m + 1, !.short = TRUE], k)
<1> DEFINE u == [t EXCEPT !.line = m + 1, !.short = TRUE]
<1>1. u.line = m + 1 /\ u.pc = t.pc /\ u.short = TRUE /\ u.moved = t.moved
  BY ShortFields
<1> HIDE DEF u
<1>2. Drawn(r, t) => Drawn(r, u)
  BY <1>1, OneMoreShort
<1>3. Balanced(r, u, k)
  BY <1>1, <1>2, DrawnOnIsBalanced
<1> QED  BY <1>3 DEF u

LEMMA RestoredIsBalanced ==
  ASSUME NEW items \in Seq(Lines), NEW r, r.items = items, NEW t \in TxRecords, NEW k,
         Balanced(r, t, k), t.pc = "restore",
         NEW m \in 1 .. Len(items), t.line = m,
         NEW l \in Listings, l = items[m].listing,
         NEW n \in Nat, n = items[m].litres
  PROVE  Balanced(r, Moves(t, m + 1, l, t.moved[l] + n), k)
<1>1. PICK next \in Nat \ {0} : next = m + 1
  OBVIOUS
<1>2. t.moved[l] \in Int
  BY DEF TxRecords
<1>3. PICK c \in Int : c = t.moved[l] + n
  BY <1>2
<1> DEFINE u == Moves(t, next, l, c)
<1>4. u.line = next /\ u.pc = t.pc
  BY MovedFields
<1>5. u.moved[l] = c /\ \A j \in Listings : j # l => u.moved[j] = t.moved[j]
  BY OnlyMoves DEF OnlyMoved
<1>6. \A j \in Listings : t.moved[j] \in Int
  BY DEF TxRecords
<1> HIDE DEF u
<1>7. ASSUME NEW j \in Listings PROVE u.moved[j] = t.moved[j] + Part(items, m, j)
  BY <1>3, <1>5, <1>6 DEF Part
<1>8. PutBack(r, t) => PutBack(r, u)
  BY <1>1, <1>4, <1>7, OneMorePutBack
<1>9. Balanced(r, u, k)
  BY <1>1, <1>4, <1>8, PutOnIsBalanced
<1> QED  BY <1>1, <1>3, <1>9 DEF u

\* where an open transaction of an order stands
LEMMA AtALine ==
  ASSUME LedgerInv, NEW o \in Orders, ~Done(o)
  PROVE  /\ tx \in [Orders -> TxRecords] /\ tx[o] \in TxRecords
         /\ Balanced(order[o], tx[o], took[o])
         /\ order[o].items \in Seq(Lines)
         /\ tx[o].line \in 1 .. Len(order[o].items)
         /\ Line(o) = order[o].items[tx[o].line]
         /\ Line(o).listing \in Listings /\ Line(o).litres \in Nat
<1>1. LinesInv /\ TypeOK
  BY DEF LedgerInv, LinesInv
<1>2. tx \in [Orders -> TxRecords] /\ tx[o] \in TxRecords
  BY <1>1, TypesByRow
<1>3. order[o].items \in Seq(Lines)
  BY <1>1, LinesAreSequences
<1>4. Line(o).listing \in Listings /\ Line(o).litres \in Nat
  BY <1>1, LineIsTyped
<1>5. tx[o].line \in Nat \ {0}
  BY <1>2 DEF TxRecords
<1>6. tx[o].line \in 1 .. Len(order[o].items)
  BY <1>3, <1>5 DEF Done
<1>7. Balanced(order[o], tx[o], took[o])
  BY DEF LedgerInv, Ledger
<1> QED  BY <1>2, <1>3, <1>4, <1>6, <1>7, Zenon DEF Line

LEMMA DrawLineKeepsLedger ==
  ASSUME LedgerInv, NEW o \in Orders, DrawLine(o), LinesInv'
  PROVE  LedgerInv'
<1>1. ~Done(o) /\ tx[o].pc = "draw" /\ UNCHANGED <<order, took>>
  BY DEF DrawLine
<1>2. tx \in [Orders -> TxRecords]
  BY <1>1, AtALine
<1> DEFINE m == tx[o].line
           l == Line(o).listing
           n == Line(o).litres
           u == Moves(tx[o], m + 1, l, tx[o].moved[l] - n)
           v == [tx[o] EXCEPT !.line = m + 1, !.short = TRUE]
<1>3. tx' = [tx EXCEPT ![o] = u] \/ tx' = [tx EXCEPT ![o] = v]
  BY <1>2, Zenon DEF DrawLine, Moves
<1>4. Balanced(order[o], u, took[o])
  BY <1>1, AtALine, TakenIsBalanced
<1>5. Balanced(order[o], v, took[o])
  BY <1>1, AtALine, ShortIsBalanced
<1> HIDE DEF u, v
<1> QED  BY <1>1, <1>3, <1>4, <1>5, TxKeepsLedger

LEMMA RestoreLineKeepsLedger ==
  ASSUME LedgerInv, NEW o \in Orders, RestoreLine(o), LinesInv'
  PROVE  LedgerInv'
<1>1. ~Done(o) /\ tx[o].pc = "restore" /\ UNCHANGED <<order, took>>
  BY DEF RestoreLine
<1>2. tx \in [Orders -> TxRecords]
  BY <1>1, AtALine
<1> DEFINE m == tx[o].line
           l == Line(o).listing
           n == Line(o).litres
           u == Moves(tx[o], m + 1, l, tx[o].moved[l] + n)
<1>3. tx' = [tx EXCEPT ![o] = u]
  BY <1>2, Zenon DEF RestoreLine, Moves
<1>4. Balanced(order[o], u, took[o])
  BY <1>1, AtALine, RestoredIsBalanced
<1> HIDE DEF u
<1> QED  BY <1>1, <1>3, <1>4, TxKeepsLedger

\* a sale that is over took nothing before, and was not short if it has taken all
LEMMA SoldIsBalanced ==
  ASSUME NEW items \in Seq(Lines), NEW r, r.items = items, NEW t \in TxRecords,
         NEW k \in [Listings -> Int],
         Balanced(r, t, k), t.pc = "draw", t.line > Len(items),
         NEW u, u.status = "AWAITING_CONFIRMATION", u.deducted = ~t.short,
         u.source = r.source, u.items = items
  PROVE  Balanced(u, Closed, [l \in Listings |-> k[l] - t.moved[l]])
<1> DEFINE j == [l \in Listings |-> k[l] - t.moved[l]]
<1>1. t.line = Len(items) + 1 /\ 1 .. t.line - 1 = DOMAIN items
  BY DEF Balanced, TxRecords
<1>2. \A l \in Listings : k[l] = 0 /\ t.moved[l] \in Int
  BY DEF Balanced, Nothing, TxRecords
<1>3. ASSUME ~t.short, r.source = "CATALOGUE" PROVE j = AllOf(u)
  <2>1. Drawn(r, t)
    BY <1>3 DEF Balanced
  <2>2. \A l \in Listings : t.moved[l] = - Litres(items, DOMAIN items, l)
    BY <1>1, <1>3, <2>1 DEF Drawn
  <2>3. \A l \in Listings : Litres(items, DOMAIN items, l) \in Int
    BY LitresTyped
  <2>4. \A l \in Listings : k[l] - t.moved[l] = Litres(items, DOMAIN items, l)
    BY <1>2, <2>2, <2>3
  <2> QED  BY <2>4 DEF AllOf
<1>4. ASSUME r.source # "CATALOGUE" PROVE j = Nothing
  <2>1. \A l \in Listings : t.moved[l] = 0
    BY <1>4 DEF Balanced
  <2>2. \A l \in Listings : k[l] - t.moved[l] = 0
    BY <1>2, <2>1
  <2> QED  BY <2>2 DEF Nothing
<1>5. u.deducted => j = IF u.source = "CATALOGUE" THEN AllOf(u) ELSE Nothing
  BY <1>3, <1>4
<1> HIDE DEF j
<1>6. Balanced(u, Closed, j)
  BY <1>5, ClosedBalances
<1> QED  BY <1>6 DEF j

\* what the end of a transaction leaves
LEMMA CommitRecords ==
  ASSUME LedgerInv, NEW o \in Orders, Commits(o), Done(o)
  PROVE  /\ tx \in [Orders -> TxRecords] /\ tx[o] \in TxRecords
         /\ order \in [Orders -> OrderRecords] /\ order[o] \in OrderRecords
         /\ order[o].items \in Seq(Lines)
         /\ tx[o].line > Len(order[o].items)
         /\ Balanced(order[o], tx[o], took[o])
         /\ took[o] \in [Listings -> Int]
         /\ tx'[o] = Closed
         /\ took'[o] = [l \in Listings |-> took[o][l] - tx[o].moved[l]]
         /\ \A p \in Orders : p # o => tx'[p] = tx[p] /\ took'[p] = took[p]
<1>1. LinesInv /\ TypeOK
  BY DEF LedgerInv, LinesInv
<1>2. /\ tx \in [Orders -> TxRecords] /\ tx[o] \in TxRecords
      /\ order \in [Orders -> OrderRecords] /\ order[o] \in OrderRecords
      /\ took \in [Orders -> [Listings -> Int]] /\ took[o] \in [Listings -> Int]
  BY <1>1, TypesByRow
<1>3. order[o].items \in Seq(Lines)
  BY <1>1, LinesAreSequences
<1>4. tx[o].line > Len(order[o].items)
  BY DEF Done
<1>5. Balanced(order[o], tx[o], took[o])
  BY DEF LedgerInv, Ledger
<1>6. tx'[o] = Closed /\ \A p \in Orders : p # o => tx'[p] = tx[p]
  BY <1>2 DEF Commits
<1>7. took' = [took EXCEPT ![o] = [l \in Listings |-> took[o][l] - tx[o].moved[l]]]
  BY <1>2, Zenon DEF Commits
<1>8. /\ took'[o] = [l \in Listings |-> took[o][l] - tx[o].moved[l]]
      /\ \A p \in Orders : p # o => took'[p] = took[p]
  BY <1>2, <1>7, Zenon
<1> QED  BY <1>2, <1>3, <1>4, <1>5, <1>6, <1>8

LEMMA CommitSaleKeepsLedger ==
  ASSUME LedgerInv, NEW o \in Orders, CommitSale(o), LinesInv'
  PROVE  LedgerInv'
<1>1. Commits(o) /\ Done(o) /\ tx[o].pc = "draw"
  BY DEF CommitSale
<1> DEFINE u == [order[o] EXCEPT !.status = "AWAITING_CONFIRMATION",
                                 !.deducted = ~tx[o].short]
<1>2. order' = [order EXCEPT ![o] = u]
  BY <1>1, CommitRecords, Zenon DEF CommitSale, DeductedAfter
<1>3. /\ u.status = "AWAITING_CONFIRMATION" /\ u.deducted = ~tx[o].short
      /\ u.source = order[o].source /\ u.items = order[o].items
  BY <1>1, CommitRecords DEF OrderRecords
<1> HIDE DEF u
<1>4. order'[o] = u /\ \A p \in Orders : p # o => order'[p] = order[p]
  BY <1>1, <1>2, CommitRecords
<1>5. Balanced(u, Closed, took'[o])
  <2>1. PICK items \in Seq(Lines), t \in TxRecords, k \in [Listings -> Int] :
          /\ items = order[o].items /\ t = tx[o] /\ k = took[o]
          /\ t.line > Len(items) /\ Balanced(order[o], t, k)
    BY <1>1, CommitRecords
  <2>2. PICK r : r = order[o]
    OBVIOUS
  <2>3. r.items = items /\ Balanced(r, t, k) /\ t.pc = "draw" /\ t.line > Len(items)
    BY <1>1, <2>1, <2>2
  <2>4. /\ u.status = "AWAITING_CONFIRMATION" /\ u.deducted = ~t.short
        /\ u.source = r.source /\ u.items = items
    BY <1>3, <2>1, <2>2
  <2>5. Balanced(u, Closed, [l \in Listings |-> k[l] - t.moved[l]])
    BY <2>3, <2>4, SoldIsBalanced, ZenonT(30)
  <2>6. took'[o] = [l \in Listings |-> k[l] - t.moved[l]]
    BY <1>1, <2>1, CommitRecords, Zenon
  <2> QED  BY <2>5, <2>6, Zenon
<1>6. Ledger(o)'
  BY <1>1, <1>4, <1>5, CommitRecords DEF Ledger
<1> QED  BY <1>1, <1>4, <1>6, CommitRecords, OthersKeepTheirs

LEMMA CommitRejectionKeepsLedger ==
  ASSUME LedgerInv, NEW o \in Orders, CommitRejection(o), LinesInv'
  PROVE  LedgerInv'
<1>1. Commits(o) /\ Done(o)
  BY DEF CommitRejection
<1> DEFINE u == [order[o] EXCEPT !.status = "REJECTED", !.deducted = FALSE]
<1>2. order' = [order EXCEPT ![o] = u]
  BY <1>1, CommitRecords, Zenon DEF CommitRejection
<1>3. u.status = "REJECTED" /\ u.deducted = FALSE
  BY <1>1, CommitRecords DEF OrderRecords
<1> HIDE DEF u
<1>4. order'[o] = u /\ \A p \in Orders : p # o => order'[p] = order[p]
  BY <1>1, <1>2, CommitRecords
<1>5. Balanced(u, Closed, took'[o])
  BY <1>3, ClosedBalances
<1>6. Ledger(o)'
  BY <1>1, <1>4, <1>5, CommitRecords DEF Ledger
<1> QED  BY <1>1, <1>4, <1>6, CommitRecords, OthersKeepTheirs

LEMMA InitLedger == LinesInit => LedgerInv
<1> SUFFICES ASSUME LinesInit PROVE LedgerInv
  OBVIOUS
<1>1. LinesInv
  BY InitLines
<1>2. ASSUME NEW o \in Orders PROVE Ledger(o)
  <2>1. /\ order[o].status = "NONE" /\ order[o].deducted = FALSE
        /\ tx[o] = Closed /\ took[o] = Nothing
    BY DEF LinesInit, Init
  <2> QED  BY <2>1, ClosedBalances DEF Ledger
<1> QED  BY <1>1, <1>2 DEF LedgerInv

LEMMA StepKeepsLedger == LedgerInv /\ [LinesNext]_vars => LedgerInv'
<1> SUFFICES ASSUME LedgerInv, [LinesNext]_vars PROVE LedgerInv'
  OBVIOUS
<1>1. LinesInv'
  BY StepKeepsLines DEF LedgerInv
<1>2. CASE UNCHANGED vars
  BY <1>1, <1>2 DEF vars, LedgerInv, Ledger
<1>3. ASSUME NEW o \in Orders,
             \/ \E basket \in Baskets : PlaceOrder(o, basket) \/ AwardOrder(o, basket)
             \/ Capture(o) \/ Confirmed(o) \/ RejectUndrawn(o)
      PROVE  LedgerInv'
  BY <1>3, RowsKeepLedger
<1>4. ASSUME NEW o \in Orders, BeginSale(o) \/ DrawLine(o) \/ CommitSale(o)
      PROVE  LedgerInv'
  BY <1>1, <1>4, BeginSaleKeepsLedger, DrawLineKeepsLedger, CommitSaleKeepsLedger
<1>5. ASSUME NEW o \in Orders, BeginRejection(o) \/ RestoreLine(o) \/ CommitRejection(o)
      PROVE  LedgerInv'
  BY <1>1, <1>5, BeginRejectionKeepsLedger, RestoreLineKeepsLedger,
     CommitRejectionKeepsLedger
<1>6. ASSUME NEW o \in Orders, DeadlockVictim(o) \/ Fail(o) PROVE LedgerInv'
  BY <1>1, <1>6, RollbackKeepsLedger
<1>7. ASSUME NEW l \in Listings, NEW figure \in Levels, SetFigure(l, figure)
      PROVE  LedgerInv'
  BY <1>1, <1>7 DEF SetFigure, TypeIn, LedgerInv, Ledger
<1> QED  BY <1>2, <1>3, <1>4, <1>5, <1>6, <1>7 DEF LinesNext

(* Every open sale has moved the litres of some of the lines it has come to, each counted
   once, and says so when it fell short; every open rejection has put back all it has
   come to; the flag of an order agrees with what was taken for it (LedgerInv). *)
THEOREM LedgerInvariant == LinesSpec => []LedgerInv
<1>1. QED
  BY InitLedger, StepKeepsLedger, PTL DEF LinesSpec

(* The flag a rejection goes by tells the truth: where it is up, a catalogue order has
   had every line taken, once, and an agreed one has had none, whatever was short, failed
   half-way, deadlocked or was delivered again in between (orders.service.ts:385). *)
THEOREM FlagTellsTheTruth == LinesSpec => []FlagMeansAllTaken
<1>1. LedgerInv => FlagMeansAllTaken
  <2> SUFFICES ASSUME LedgerInv, NEW o \in Orders, order[o].deducted
               PROVE  took[o] = IF DrawsDown(o) THEN Wanted(o) ELSE Nothing
    BY DEF FlagMeansAllTaken
  <2>1. Balanced(order[o], tx[o], took[o])
    BY DEF LedgerInv, Ledger
  <2>2. took[o] = IF order[o].source = "CATALOGUE" THEN AllOf(order[o]) ELSE Nothing
    BY <2>1 DEF Balanced
  <2> QED  BY <2>2 DEF DrawsDown, Wanted, AllOf
<1>2. QED
  BY <1>1, LedgerInvariant, PTL

-----------------------------------------------------------------------------
(* Line by line is as good as all at once *)

\* the lines a sale has taken when it is over
Sold(r, t, lines) ==
  /\ lines \in SUBSET (DOMAIN r.items)
  /\ r.source = "REQUEST" => lines = {}
  /\ \A l \in Listings : t.moved[l] = - Litres(r.items, lines, l)
  /\ ~t.short <=> r.source = "REQUEST" \/ lines = DOMAIN r.items

LEMMA SoldSomeLines ==
  ASSUME NEW items \in Seq(Lines), NEW r \in OrderRecords, r.items = items,
         NEW t \in TxRecords, NEW k, Balanced(r, t, k), t.pc = "draw",
         t.line > Len(items)
  PROVE  \E lines : Sold(r, t, lines)
<1>1. 1 .. t.line - 1 = DOMAIN items
  BY DEF Balanced, TxRecords
<1>2. CASE r.source = "CATALOGUE"
  <2>1. PICK lines \in SUBSET (1 .. t.line - 1) :
          /\ \A l \in Listings : t.moved[l] = - Litres(r.items, lines, l)
          /\ t.short <=> lines # 1 .. t.line - 1
    <3>1. Drawn(r, t)
      BY <1>2 DEF Balanced
    <3> QED  BY <3>1, Zenon DEF Drawn
  <2>2. Sold(r, t, lines)
    BY <1>1, <1>2, <2>1 DEF Sold
  <2> QED  BY <2>2
<1>3. CASE r.source = "REQUEST"
  <2>1. ~t.short /\ \A l \in Listings : t.moved[l] = 0
    BY <1>3 DEF Balanced
  <2>2. \A l \in Listings : t.moved[l] = - Litres(items, {}, l)
    BY <2>1, NoLitres
  <2>3. Sold(r, t, {})
    BY <1>3, <2>1, <2>2 DEF Sold
  <2> QED  BY <2>3
<1> QED  BY <1>2, <1>3 DEF OrderRecords, Sources

LEMMA CommitSaleSells ==
  ASSUME LedgerInv, LedgerInv', NEW o \in Orders, CommitSale(o)
  PROVE  \E lines \in SUBSET (DOMAIN order[o].items) : Sell(o, lines)
<1>1. Commits(o) /\ Done(o) /\ tx[o].pc = "draw"
  BY DEF CommitSale
<1>2. PICK lines : Sold(order[o], tx[o], lines)
  BY <1>1, CommitRecords, SoldSomeLines
<1>3. order[o].status = "PENDING"
  BY <1>1, CommitRecords DEF Balanced
<1>4. ASSUME NEW l \in Listings
      PROVE  Seen(o, l) = stock[l] - Litres(order[o].items, lines, l)
  <2>1. tx[o].moved[l] = - Litres(order[o].items, lines, l)
    BY <1>2 DEF Sold
  <2>2. stock[l] \in Int /\ Litres(order[o].items, lines, l) \in Int
    <3>1. stock \in [Listings -> Nat]
      BY TypesByRow DEF LedgerInv, LinesInv
    <3>2. order[o].items \in Seq(Lines)
      BY <1>1, CommitRecords
    <3> QED  BY <3>1, <3>2, LitresTyped
  <2> QED  BY <2>1, <2>2 DEF Seen
<1>5. stock' = [l \in Listings |-> stock[l] - Litres(order[o].items, lines, l)]
  BY <1>1, <1>4 DEF Commits
<1>6. \A l \in Listings : stock'[l] >= 0
  <2>1. stock' \in [Listings -> Nat]
    BY TypesByRowAfter DEF LedgerInv, LinesInv
  <2> QED  BY <2>1
<1>7. DeductedAfter(o) = (order[o].source = "REQUEST" \/ lines = DOMAIN order[o].items)
  BY <1>2 DEF Sold, DeductedAfter
<1>8. order' = [order EXCEPT
        ![o].status = "AWAITING_CONFIRMATION",
        ![o].deducted = order[o].source = "REQUEST" \/ lines = DOMAIN order[o].items]
  BY <1>7, Zenon DEF CommitSale
<1>9. lines \in SUBSET (DOMAIN order[o].items) /\ (order[o].source = "REQUEST" => lines = {})
  BY <1>2 DEF Sold
<1>10. Sell(o, lines)
  BY <1>3, <1>5, <1>6, <1>8, <1>9, Zenon DEF Sell
<1> QED  BY <1>9, <1>10

LEMMA CommitRejectionRejects ==
  ASSUME LedgerInv, NEW o \in Orders, CommitRejection(o)
  PROVE  Reject(o)
<1>1. Commits(o) /\ Done(o) /\ tx[o].pc = "restore"
  BY DEF CommitRejection
<1>2. PICK items \in Seq(Lines), t \in TxRecords :
        /\ items = order[o].items /\ t = tx[o]
        /\ t.line > Len(items) /\ Balanced(order[o], t, took[o])
  BY <1>1, CommitRecords
<1>3. /\ order[o].status = "AWAITING_CONFIRMATION" /\ order[o].deducted
      /\ PutBack(order[o], t)
      /\ t.line <= Len(items) + 1
  BY <1>1, <1>2 DEF Balanced
<1>4. 1 .. t.line - 1 = DOMAIN items
  BY <1>2, <1>3 DEF TxRecords
<1>5. \A l \in Listings : Seen(o, l) = stock[l] + Litres(items, DOMAIN items, l)
  BY <1>2, <1>3, <1>4 DEF PutBack, Seen
<1>6. stock' = [l \in Listings |->
                  stock[l] + Litres(order[o].items, DOMAIN order[o].items, l)]
  BY <1>1, <1>2, <1>5 DEF Commits
<1>7. order' = [order EXCEPT ![o].status = "REJECTED", ![o].deducted = FALSE]
  BY DEF CommitRejection
<1> QED  BY <1>3, <1>6, <1>7, Zenon DEF Reject

LEMMA StepIsWarehouseStep ==
  LedgerInv /\ LedgerInv' /\ [LinesNext]_vars => [Next]_<<stock, order>>
<1> SUFFICES ASSUME LedgerInv, LedgerInv', [LinesNext]_vars
             PROVE  Next \/ UNCHANGED <<stock, order>>
  OBVIOUS
<1>1. CASE UNCHANGED vars
  BY <1>1 DEF vars
<1>2. ASSUME NEW o \in Orders, NEW basket \in Baskets,
             PlaceOrder(o, basket) \/ AwardOrder(o, basket)
      PROVE  Next
  <2>1. PICK source \in Sources : Place(o, source, basket)
    BY <1>2 DEF PlaceOrder, AwardOrder, Sources
  <2> QED  BY <2>1, Zenon DEF Next
<1>3. ASSUME NEW o \in Orders,
             Capture(o) \/ BeginSale(o) \/ DrawLine(o) \/ BeginRejection(o)
               \/ RestoreLine(o) \/ DeadlockVictim(o) \/ Fail(o)
      PROVE  UNCHANGED <<stock, order>>
  BY <1>3 DEF Capture, BeginSale, DrawLine, BeginRejection, RestoreLine, DeadlockVictim,
              Fail
<1>4. ASSUME NEW o \in Orders, CommitSale(o) PROVE Next
  BY <1>4, CommitSaleSells, Zenon DEF Next
<1>5. ASSUME NEW o \in Orders, Confirmed(o) \/ RejectUndrawn(o) \/ CommitRejection(o)
      PROVE  Next
  <2>1. Confirm(o) \/ Reject(o)
    BY <1>5, CommitRejectionRejects DEF Confirmed, RejectUndrawn
  <2> QED  BY <2>1, Zenon DEF Next
<1>6. ASSUME NEW l \in Listings, NEW figure \in Levels, SetFigure(l, figure)
      PROVE  Next
  <2>1. TypeIn(l, figure)
    BY <1>6 DEF SetFigure
  <2> QED  BY <2>1, Zenon DEF Next
<1> QED  BY <1>1, <1>2, <1>3, <1>4, <1>5, <1>6 DEF LinesNext

(* Drawing an order's stock line by line, with rows locked as they are changed,
   deadlocks, failures and new deliveries in between, implements the warehouse that sells
   and takes back whole orders in one step (payments.service.ts:275). *)
THEOREM LinesImplementWarehouse == LinesSpec => KeepsWarehouse
<1>1. LinesInit => Init
  BY DEF LinesInit
<1>2. QED
  BY <1>1, StepIsWarehouseStep, LedgerInvariant, PTL DEF LinesSpec, KeepsWarehouse, Spec
=============================================================================
