\* Two endpoints, two attempts in 3 ticks and one in 4, a sweep every other tick or later.
SPECIFICATION Spec
CONSTANTS
  login = login register = register
  Keys = {login, register}
  Limit <- TwoThenOne
  Window <- ThreeThenFour
  SweepEvery = 2
  MaxTime = 9
INVARIANTS BurstIsBounded RefusalIsEarned
