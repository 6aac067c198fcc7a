\* Two admins and an address nobody has registered; two requests that overlap.
SPECIFICATION Spec
CONSTANTS
  u1 = u1 u2 = u2 u3 = u3 t1 = t1 t2 = t2 c1 = c1 c2 = c2
  NoToken = NoToken
  Users = {u1, u2, u3}
  FirstAdmins = {u1, u2}
  Tokens = {t1, t2}
  Calls = {c1, c2}
SYMMETRY Symmetry
PROPERTIES LastAdminStands DeactivationEndsSession AdminsFallToAdmins
\* When every token is signed and no admin is left, there is nothing left to do.
CHECK_DEADLOCK FALSE
