CONSTANTS
  r1 = r1  r2 = r2  r3 = r3  p1 = p1  p2 = p2  p3 = p3  c1 = c1  c2 = c2  k1 = k1
  i1 = i1  i2 = i2  o1 = o1  o2 = o2  s1 = s1  s2 = s2
  Calls = {r1, r2, r3}
  Persons = {p1, p2, p3}
  Centers = {c1, c2}
  First = c1
  Classes = {k1}
  CenterOf <- OneCenter
  Primary <- OneTeacher
  Outsiders = {p3}
  Guests = {p2, p3}
  Invites = {i1, i2}
  Offers = {o1, o2}
  FirstOffers <- OneAccepted
  Stints = {k1, s1, s2}
SPECIFICATION Spec
INVARIANT OneLivePlace
INVARIANT RemovedHoldsNothing
INVARIANT PrimaryIsTeacher
PROPERTY VerdictsAreFinal
SYMMETRY SymCalls
CHECK_DEADLOCK FALSE
