\* One order, two links, two requests at once: the browser and the webhook
\* confirm a payment while the order is cancelled, paid again, rejected, refunded,
\* or closed by hand, and reviewed once it has been delivered.
SPECIFICATION ReviewsSpec
CONSTANTS
  o1 = o1 o2 = o2 l1 = l1
  r1 = r1 r2 = r2 c1 = c1 c2 = c2 s1 = s1 s2 = s2
  NoRef = NoRef
  NoReview = NoReview
  Orders = {o1}
  Listings = {l1}
  Refs = {r1, r2}
  Calls = {c1, c2}
  Submissions = {s1, s2}
  Qty <- OneOrderQty
  Source <- FromCatalogue
  InitStock <- OneEach
SYMMETRY ReviewSymmetry
INVARIANTS HistoryFaithful PaidOrderGoesOn RecordMatchesProvider StockHeldOnlyWhileSold RefundsAskTheProvider NoticesAreTrue ReviewsFollowDelivery RejectedIsOwedOrFlagged
PROPERTIES SettledIsFinal KeepsPromise
CHECK_DEADLOCK FALSE
