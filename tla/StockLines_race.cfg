\* Two orders of two lines compete for two fuels; the supplier types figures.
SPECIFICATION FairLines
CONSTANTS
  o1 = o1 o2 = o2 petrol = petrol diesel = diesel
  Orders = {o1, o2}
  Listings = {petrol, diesel}
  Baskets <- TwoFuels
  InitStock <- TwoAndOne
  Levels = {1}
  MaxFailures = 1
INVARIANTS NeverOversold FlagMeansAllTaken
PROPERTIES KeepsWarehouse PaidOrdersAreServed
\* When every order is confirmed or rejected the supplier may stop typing.
CHECK_DEADLOCK FALSE
