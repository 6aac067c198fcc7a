\* One request of a buyer, two depots, one of which changes meanwhile, two calls at
\* once, any of which may die.
SPECIFICATION BiddingSpec
CONSTANTS
  q1 = q1 s1 = s1 s2 = s2 b1 = b1 c1 = c1 c2 = c2 a1 = a1 i1 = i1
  NoPrice = NoPrice
  NoIdentity = NoIdentity
  NoBuyer = NoBuyer
  Requests = {q1}
  Suppliers = {s1, s2}
  Restless = {s1}
  Buyers = {b1}
  Prices = {1}
  Calls = {c1, c2}
  MayCrash = TRUE
  MaxFanout = 2
  Areas = {a1}
  AreaOf <- SameArea
  Identities = {i1}
SYMMETRY Symmetry
INVARIANTS BuyerHearsOnce OutcomeIsSaid OutcomeCanBeRead
