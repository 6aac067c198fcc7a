------------------------------ MODULE Reviews ------------------------------
(* Reviews of delivered orders, beside the order flow: a submission reads the
   order and then inserts its row. src/modules/reviews/reviews.service.ts *)
EXTENDS Checkout

CONSTANTS
  Submissions,     \* bound: the reviews that are ever submitted
  NoReview         \* no row in reviews for this order

ASSUME ReviewsAssumption == NoReview \notin Submissions

VARIABLES
  review,          \* reviews: the submission the row of an order was made from
  checked          \* the order each submission has been allowed to review

reviewVars == <<review, checked>>

ReviewsInit ==
  /\ review = [o \in Orders |-> NoReview]
  /\ checked = [s \in Submissions |-> {}]

-----------------------------------------------------------------------------
(* createReview. A submission that dies between its two steps takes no second one. *)

MutMayReview(o, actor) == actor = "CUSTOMER" /\ review[o] = NoReview
MayReview(o, actor) ==
  actor = "CUSTOMER" /\ status[o] = "DELIVERED" /\ review[o] = NoReview

SubmitReview(s, o, actor) ==
  /\ checked[s] = {}
  /\ MayReview(o, actor)
  /\ checked' = [checked EXCEPT ![s] = {o}]
  /\ UNCHANGED review

\* the unique index on reviews.order_id turns a second row away
RowAfterInsert(s, o) == IF review[o] = NoReview THEN s ELSE review[o]

InsertReview(s, o) ==
  /\ o \in checked[s]
  /\ review' = [review EXCEPT ![o] = RowAfterInsert(s, o)]
  /\ UNCHANGED checked

ReviewsNext ==
  \/ Next /\ UNCHANGED reviewVars
  \/ /\ \E s \in Submissions, o \in Orders :
          \/ \E actor \in OrderActors : SubmitReview(s, o, actor)
          \/ InsertReview(s, o)
     /\ UNCHANGED vars

ReviewsSpec == Init /\ ReviewsInit /\ [][ReviewsNext]_<<vars, reviewVars>>

-----------------------------------------------------------------------------
(* A review speaks of an order that was delivered and still is: nothing that
   happens between the check and the insert, or later, takes the delivery back
   (reviews.service.ts:41, order-status-transitions.ts). *)
ReviewsFollowDelivery == \A o \in Orders : review[o] # NoReview => status[o] = "DELIVERED"
=============================================================================
