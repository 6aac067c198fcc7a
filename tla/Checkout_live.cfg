\* One order, one link, two requests at once, under redelivery, with admins who go
\* on asking for the refunds that are owed. No symmetry: liveness is checked.
SPECIFICATION LiveSpec
CONSTANTS
  o1 = o1 o2 = o2 l1 = l1
  r1 = r1 r2 = r2 c1 = c1 c2 = c2
  NoRef = NoRef
  Orders = {o1}
  Listings = {l1}
  Refs = {r1}
  Calls = {c1, c2}
  Qty <- OneOrderQty
  Source <- FromCatalogue
  InitStock <- OneEach
PROPERTIES CapturedMoneyCounts EveryHandlerEnds 
CHECK_DEADLOCK FALSE
