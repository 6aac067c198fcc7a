\* An admin sets a refund that is pending to REFUNDED: no money has moved.
SPECIFICATION Spec
CONSTANTS
  o1 = o1 o2 = o2 l1 = l1
  r1 = r1 r2 = r2 c1 = c1 c2 = c2
  NoRef = NoRef
  Orders = {o1}
  Listings = {l1}
  Refs = {r1}
  Calls = {c1}
  Qty <- OneOrderQty
  Source <- FromCatalogue
  InitStock <- OneEach
INVARIANTS RefundedMeansRepaid
CHECK_DEADLOCK FALSE
