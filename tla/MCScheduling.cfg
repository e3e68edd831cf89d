SPECIFICATION Spec
CONSTANTS
  u1 = u1  u2 = u2  s1 = s1  s2 = s2  s3 = s3  t1 = t1  t2 = t2  c1 = c1  c2 = c2
  Users = {u1, u2}
  Tasks = {t1, t2}
  Categories = {c1, c2}
  Sessions = {s1, s2, s3}
  By <- TwoTabsAndOne
  MaxRequests = 3
  MaxParted = 1
SYMMETRY Symmetry
INVARIANTS TypeOK TablesAgree  
PROPERTIES SharedUnseen
CHECK_DEADLOCK FALSE
