\* One depot, two identities it may have, one area and one fuel; two requests that
\* overlap.
SPECIFICATION Spec
CONSTANTS
  s1 = s1 i1 = i1 i2 = i2 a1 = a1 a2 = a2 f1 = f1 f2 = f2 c1 = c1 c2 = c2
  NoIdentity = NoIdentity
  Suppliers = {s1}
  Identities = {i1, i2}
  Areas = {a1}
  Fuels = {f1}
  MaxOrders = 1
  Calls = {c1, c2}
SYMMETRY Symmetry
PROPERTIES BadgeStaysWithBusiness PausedAreasRest OnlyTheOfferedIsOrdered SuspensionSurvivesEdits
