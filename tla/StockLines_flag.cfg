\* An order names one fuel twice, falls short on the second line and is rejected.
SPECIFICATION LinesSpec
CONSTANTS
  o1 = o1 o2 = o2 petrol = petrol diesel = diesel
  Orders = {o1}
  Listings = {petrol}
  Baskets <- PetrolTwice
  InitStock <- OneEach
  Levels = {1}
  MaxFailures = 0
INVARIANTS RestoresWhatWasTaken
CHECK_DEADLOCK FALSE
