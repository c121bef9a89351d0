SPECIFICATION Spec
CONSTANTS
  t1 = t1
  t2 = t2
  t3 = t3
  t4 = t4
  visitor = visitor
  owner = owner
  Requests = {t1, t2, t3, t4}
  AddressOf <- MCAddressOf
  Addresses = {visitor, owner}
  Owner = owner
  Seeds = {s1, s2}
  MaxAlerts = 2
  Nothing = Nothing
SYMMETRY MCSymmetry
CHECK_DEADLOCK FALSE
INVARIANTS
  FailsOnlyWhenDoubled
  OneMailEach
  LastWordCounts
