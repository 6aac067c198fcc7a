\* The reply to an accepted refund is lost: the order is never closed out.
SPECIFICATION LiveSpec
CONSTANTS
  o1 = o1 o2 = o2 l1 = l1
  r1 = r1 r2 = r2 c1 = c1 c2 = c2
  NoRef = NoRef
  Orders = {o1}
  Listings = {l1}
  Refs = {r1}
  Calls = {c1}
  Qty <- OneOrderQty
  Source <- FromCatalogue
  InitStock <- OneEach
PROPERTIES RefundCompletes
CHECK_DEADLOCK FALSE
