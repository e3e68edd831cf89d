SPECIFICATION Spec
CONSTANTS
  Requests = {r1, r2}
  Users = {u1, u2}
  Values = {unset, other}
  Default = unset
  PutFields = {"contacts", "name"}
  MaxRequests = 3
  Modes = {FALSE, TRUE}
SYMMETRY Symmetry
INVARIANT TypeOK
INVARIANT TrailTells
INVARIANT OwnerAmongOwners
PROPERTY ChangesAccounted
PROPERTY ImplementsForms
